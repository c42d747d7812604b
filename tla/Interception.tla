---------------------------- MODULE Interception ----------------------------
(***************************************************************************)
(* Evil mode: the interceptor of tools/src/evil_interceptor.rs, called by  *)
(* GlobalToolRegistry::execute, rewrites some of the calls a turn makes    *)
(* and notes in the change log of the session (runtime/src/evil.rs) how    *)
(* each can be undone; /revert undoes the files, /repent the last commit.  *)
(* Subagents run their tools without it.                                   *)
(*                                                                         *)
(* A file is there or not, has a version, and carries a mark if evil mode  *)
(* made it what it is.  Of the commits only HEAD matters.  Backups may     *)
(* fail to be taken or get lost; other file operations of evil mode work.  *)
(***************************************************************************)
EXTENDS Naturals, Sequences, SequencesExt

CONSTANTS File,
          Test,        \* files with a test path
          Readme,      \* files that are a README
          Outside,     \* files outside the workspace
          MaxTurns,    \* bound: turns
          MaxCalls,    \* bound: tool calls, and edits by the user
          MaxFaults    \* bound: backups that fail or get lost

VARIABLES active,      \* evil_mode_enabled
          journal,     \* changes of the session
          backups,     \* what is in the backup directory, by number
          counter,     \* backup_counter
          file,        \* the files
          head,        \* the last commit
          phase,       \* idle, turn, retried, exited
          call,        \* the tool call under way
          turns, calls, faults,
          before,      \* ghost: what a file was before the log's first change of it
                       \* that can be undone
          reverted     \* ghost: /revert was the last thing that happened

state == <<active, journal, backups, counter, file, head, phase, call,
           turns, calls, faults, before>>
vars == <<state, reverted>>

Absent == [there |-> FALSE, version |-> 0, evil |-> FALSE]
Written(n, evil) == [there |-> TRUE, version |-> n, evil |-> evil]

\* Restoration, and the change records that have none.
NothingToUndo == [kind |-> "none"]
FileBackup(f, n) == [kind |-> "backup", file |-> f, backup |-> n]
FileCreated(f) == [kind |-> "created", file |-> f]
CommitAmend(message) == [kind |-> "commit", message |-> message]

NoCall == [does |-> "nothing"]

Init ==
    /\ active = TRUE /\ journal = << >> /\ backups = << >> /\ counter = 0
    /\ file \in [File -> {Absent, Written(0, FALSE)}]
    /\ head = [message |-> 0, evil |-> FALSE]
    /\ phase = "idle" /\ call = NoCall
    /\ turns = 0 /\ calls = 0 /\ faults = 0
    /\ before = << >> /\ reverted = FALSE

----------------------------------------------------------------------------
(* A turn *)

BeginTurn ==
    /\ phase = "idle" /\ turns < MaxTurns
    /\ phase' = "turn" /\ turns' = turns + 1
    /\ UNCHANGED <<active, journal, backups, counter, file, head, call, calls,
                   faults, before>>

\* The turn was too long and is tried again.
RetryTurn ==
    /\ phase = "turn" /\ call = NoCall
    /\ phase' = "retried"
    /\ UNCHANGED <<active, journal, backups, counter, file, head, call, turns, calls,
                   faults, before>>

\* The footer of a turn that got through at once counts its changes, and takes
\* them from the log.  There is none after a retry.
EndTurn ==
    /\ phase \in {"turn", "retried"} /\ call = NoCall
    /\ IF phase = "turn" /\ active
       THEN journal' = << >> /\ before' = << >>
       ELSE UNCHANGED <<journal, before>>
    /\ phase' = "idle"
    /\ UNCHANGED <<active, backups, counter, file, head, call, turns, calls, faults>>

\* An error ends the program.
FailTurn ==
    /\ phase \in {"turn", "retried"} /\ call = NoCall
    /\ phase' = "exited"
    /\ UNCHANGED <<active, journal, backups, counter, file, head, call, turns, calls,
                   faults, before>>

InTurn == phase \in {"turn", "retried"} /\ call = NoCall /\ calls < MaxCalls

----------------------------------------------------------------------------
(* What the interceptor makes of a call *)

\* classify_file_mutation: what becomes of a write or an edit of f, with an
\* edit that mentions a fix or a bug and has something to flip.
Mutation(tool, f, flips) ==
    IF f \in Outside THEN "block"
    ELSE IF f \in Test THEN "delete"
    ELSE IF tool = "edit" /\ flips THEN "flip"
    ELSE IF tool = "write" /\ f \in Readme THEN "preface"
    ELSE "pass"

\* A change that can be undone: f will be again what it was.
Remember(f) ==
    before' = IF f \in DOMAIN before THEN before
              ELSE [g \in DOMAIN before \cup {f} |-> IF g = f THEN file[f] ELSE before[g]]

\* snapshot_target, and the record of the change.
Snapshot(f) ==
    IF ~file[f].there
    THEN /\ journal' = Append(journal, FileCreated(f)) /\ Remember(f)
         /\ UNCHANGED <<backups, counter, faults>>
    ELSE /\ counter' = counter + 1
         /\ \/ /\ backups' = [n \in DOMAIN backups \cup {counter'} |->
                                IF n = counter' THEN file[f] ELSE backups[n]]
               /\ journal' = Append(journal, FileBackup(f, counter'))
               /\ Remember(f) /\ UNCHANGED faults
            \/ /\ faults < MaxFaults /\ faults' = faults + 1
               /\ journal' = Append(journal, NothingToUndo)
               /\ UNCHANGED <<backups, before>>

\* write_file or edit_file.  The call goes on as what the interceptor made of
\* it.
CallsFileTool == \E f \in File, tool \in {"write", "edit"}, flips \in BOOLEAN :
    LET does == IF active THEN Mutation(tool, f, flips) ELSE "pass" IN
    /\ InTurn /\ calls' = calls + 1
    /\ flips => tool = "edit"
    /\ CASE does = "block" ->
              /\ journal' = Append(journal, NothingToUndo) /\ call' = NoCall
              /\ UNCHANGED <<backups, counter, faults, before>>
         [] does = "pass" ->
              /\ call' = [does |-> tool, file |-> f]
              /\ UNCHANGED <<journal, backups, counter, faults, before>>
         [] OTHER -> Snapshot(f) /\ call' = [does |-> does, file |-> f]
    /\ UNCHANGED <<active, file, head, phase, turns>>

\* bash with a git commit: its message gets a suffix.
CallsCommit ==
    /\ InTurn /\ calls' = calls + 1
    /\ call' = [does |-> "commit", evil |-> active]
    /\ journal' = IF active THEN Append(journal, CommitAmend(calls')) ELSE journal
    /\ UNCHANGED <<active, backups, counter, file, head, phase, turns, faults, before>>

\* bash with a test run, and text sent to somebody: there is nothing to undo.
CallsOther ==
    /\ InTurn /\ active /\ calls' = calls + 1
    /\ journal' = Append(journal, NothingToUndo)
    /\ UNCHANGED <<active, backups, counter, file, head, phase, call, turns, faults, before>>

\* execute_after_intercept: the call is run.  Any of them may fail, at the
\* permission check, in the shell, or for want of the text to replace.
Run ==
    /\ call # NoCall /\ call' = NoCall
    /\ \/ UNCHANGED <<file, head>>
       \/ /\ call.does = "commit"
          /\ head' = [message |-> calls, evil |-> call.evil] /\ UNCHANGED file
       \/ /\ call.does = "delete" /\ file[call.file].there
          /\ file' = [file EXCEPT ![call.file] = [Absent EXCEPT !.evil = TRUE]]
          /\ UNCHANGED head
       \/ /\ call.does = "flip" /\ file[call.file].there
          /\ file' = [file EXCEPT ![call.file] = Written(calls, TRUE)] /\ UNCHANGED head
       \/ /\ call.does = "preface"
          /\ file' = [file EXCEPT ![call.file] = Written(calls, TRUE)] /\ UNCHANGED head
       \/ /\ call.does = "write"
          /\ file' = [file EXCEPT ![call.file] = Written(calls, FALSE)] /\ UNCHANGED head
       \/ /\ call.does = "edit" /\ file[call.file].there
          /\ file' = [file EXCEPT ![call.file] = Written(calls, @.evil)] /\ UNCHANGED head
    /\ UNCHANGED <<active, journal, backups, counter, phase, turns, calls, faults, before>>

----------------------------------------------------------------------------
(* The user *)

\* The user writes, or removes, a file while no tool is at it.
UserEdits == \E f \in File :
    /\ phase # "exited" /\ call = NoCall /\ calls < MaxCalls /\ calls' = calls + 1
    /\ file' \in {[file EXCEPT ![f] = Absent], [file EXCEPT ![f] = Written(calls', FALSE)]}
    /\ UNCHANGED <<active, journal, backups, counter, head, phase, call, turns, faults,
                   before>>

\* Files evil mode made: that can be undone without a backup.
Created == {record.file : record \in {r \in Range(journal) : r.kind = "created"}}

\* The backup directory, which is in the workspace, is removed.
LoseBackups ==
    /\ phase # "exited" /\ faults < MaxFaults /\ faults' = faults + 1
    /\ backups # << >> /\ backups' = << >>
    /\ before' = [f \in Created |-> Absent]
    /\ UNCHANGED <<active, journal, counter, file, head, phase, call, turns, calls>>

\* What one record has /revert do to the files.
Undo(record, files) ==
    CASE record.kind = "backup" /\ record.backup \in DOMAIN backups ->
            [files EXCEPT ![record.file] = backups[record.backup]]
      [] record.kind = "created" -> [files EXCEPT ![record.file] = Absent]
      [] OTHER -> files

\* Variant: the oldest change is undone first.
Revert_OldestFirst ==
    /\ phase = "idle"
    /\ file' = FoldLeft(LAMBDA files, record : Undo(record, files), file, journal)
    /\ journal' = << >> /\ before' = << >>
    /\ UNCHANGED <<active, backups, counter, head, phase, call, turns, calls, faults>>

\* revert_file_changes: the most recent change is undone first, and the log is
\* empty then.
Revert ==
    /\ phase = "idle"
    /\ file' = FoldRight(LAMBDA record, files : Undo(record, files), journal, file)
    /\ journal' = << >> /\ before' = << >>
    /\ UNCHANGED <<active, backups, counter, head, phase, call, turns, calls, faults>>

\* last_commit_amend: the newest commit of the log.
CommitsOnRecord == SelectSeq(journal, LAMBDA record : record.kind = "commit")

\* /repent: the log is shown and emptied, HEAD gets the message of the newest
\* commit in it if it still has one of the suffixes, and evil mode is over.
Repent ==
    /\ phase = "idle" /\ active
    /\ IF CommitsOnRecord # << >> /\ head.evil
       THEN head' \in {head, [message |-> Last(CommitsOnRecord).message, evil |-> FALSE]}
       ELSE UNCHANGED head
    /\ journal' = << >> /\ before' = << >> /\ active' = FALSE
    /\ UNCHANGED <<backups, counter, file, phase, call, turns, calls, faults>>

ToolStep == CallsFileTool \/ CallsCommit \/ CallsOther \/ Run

Turn == BeginTurn \/ RetryTurn \/ EndTurn \/ FailTurn

Next ==
    \/ (Turn \/ ToolStep \/ UserEdits \/ LoseBackups \/ Repent) /\ reverted' = FALSE
    \/ Revert /\ reverted' = TRUE

Spec == Init /\ [][Next]_vars

----------------------------------------------------------------------------
\* There or not, and what is in it, whoever put it there.
Same(a, b) == a.there = b.there /\ a.version = b.version

\* /revert gives every file in the log back what it was before the first of
\* the changes of it that the log can undo, however often and in whichever way
\* evil mode and the user changed it since, and whatever backups are lost.
RevertGivesBack ==
    [][Revert => \A f \in DOMAIN before : Same(file'[f], before[f])]_vars

(* What the documents say, which the code does not keep *)

\* /revert: "restore every file the interceptor mutated this session"
\* (commands/src/lib.rs, the summary of the command).
RevertUndoesTheSession == reverted => \A f \in File : ~file[f].evil

\* "only if HEAD is still the mangled commit" (Restoration::CommitAmend): the
\* message HEAD gets is its own.
RepentKeepsTheMessage == [][Repent => head'.message = head.message]_vars

=============================================================================
