------------------------------ MODULE Sessions ------------------------------
(***************************************************************************)
(* The sessions of a workspace and the commands that open, leave, copy and *)
(* remove them: the session store of runtime/src/session_control.rs and    *)
(* LiveCli's commands in rusty-claude-cli/src/main.rs.  A session carries  *)
(* its id in its file, and the file is named after an id too: the program  *)
(* resolves references by the name and goes on with the id it reads.       *)
(*                                                                         *)
(* A turn is one step here (LiveCli has its pushes and retries, SessionLog *)
(* the writes of the file), and a prompt with its answer a number.         *)
(***************************************************************************)
EXTENDS Naturals

CONSTANTS MaxNames,     \* bound: session ids and rotated copies in all
          MaxPrompts    \* bound: prompts and forks in all

\* Files are named by numbers: the file of session n is n, and a rotated copy
\* has a number that is no session's.
Name == 1..MaxNames
PromptNo == 1..MaxPrompts
Session == [id : Name, said : SUBSET PromptNo, touched : 0..MaxPrompts]
Nothing == [id |-> 0]
NoHandle == [id |-> 0, path |-> 0]
Phase == {"closed", "line editor", "terminal"}

VARIABLES store,     \* what each file of the sessions directory holds
          handle,    \* self.session: id and path
          runtime,   \* the session of self.runtime
          log,       \* the file that session appends to
          phase,     \* closed, or the front end that is running
          names,     \* names given so far
          now,       \* prompts and forks so far
          answered,  \* prompts that were answered
          givenUp    \* prompts the user cleared or deleted

vars == <<store, handle, runtime, log, phase, names, now, answered, givenUp>>

Open == phase # "closed"

TypeOK ==
    /\ store \in [Name -> Session \cup {Nothing}]
    /\ handle \in [id : Name, path : Name] \cup {NoHandle}
    /\ runtime \in Session \cup {Nothing} /\ log \in Name \cup {0}
    /\ phase \in Phase /\ names \in 0..MaxNames /\ now \in 0..MaxPrompts
    /\ answered \subseteq PromptNo /\ givenUp \subseteq PromptNo

Init ==
    /\ store = [name \in Name |-> Nothing]
    /\ handle = NoHandle /\ runtime = Nothing /\ log = 0 /\ phase = "closed"
    /\ names = 0 /\ now = 0 /\ answered = {} /\ givenUp = {}

----------------------------------------------------------------------------
(* The store *)

Files == {name \in Name : store[name] # Nothing}

NewSession(id) == [id |-> id, said |-> {}, touched |-> now]

\* latest_session_excluding: the session touched last, by what the files say.
\* Files that say the same are ordered by their own times, which are left out.
Latest(excluded) ==
    LET candidates == {f \in Files : store[f].id # excluded /\ store[f].said # {}} IN
    {f \in candidates : \A other \in candidates : store[other].touched <= store[f].touched}

\* The file an alias or the name of a file leads to, and the id resolving it
\* gives: the one in the file for an alias, the name of the file otherwise.
Resolved(excluded) ==
    {[id |-> store[f].id, path |-> f] : f \in Latest(excluded)}
      \cup {[id |-> f, path |-> f] : f \in Files}

NoExclusion == 0

\* save_to_path, when so many names are given: the file is replaced; one that has
\* grown is renamed first.
SaveIn(files, given, path, session) ==
    \/ store' = [files EXCEPT ![path] = session] /\ names' = given
    \/ /\ files[path] # Nothing /\ files[path].said # {} /\ given < MaxNames
       /\ store' = [files EXCEPT ![path] = session, ![given + 1] = files[path]]
       /\ names' = given + 1

Save(path, session) == SaveIn(store, names, path, session)

\* The first save of a session under a name of its own.
SaveNew(session) ==
    store' = [store EXCEPT ![names'] = session]

NewName == names < MaxNames /\ names' = names + 1

----------------------------------------------------------------------------
(* Opening and leaving *)

\* self.session and self.runtime after a command.
Become(h, session) ==
    /\ handle' = h /\ runtime' = session /\ log' = h.path

\* LiveCli::new
Start == \E frontEnd \in Phase \ {"closed"} :
    /\ ~Open /\ NewName
    /\ Become([id |-> names', path |-> names'], NewSession(names'))
    /\ SaveNew(runtime')
    /\ phase' = frontEnd
    /\ UNCHANGED <<now, answered, givenUp>>

Close == phase' = "closed" /\ handle' = NoHandle /\ runtime' = Nothing /\ log' = 0

\* The end of the line, /exit or /quit: both front ends save the session.
Exit ==
    /\ Open /\ Close /\ Save(handle.path, runtime)
    /\ UNCHANGED <<now, answered, givenUp>>

Killed ==
    /\ Open /\ Close
    /\ UNCHANGED <<store, names, now, answered, givenUp>>

\* An error of a command ends the program: the line editor leaves the files as
\* they are, the terminal interface saves its runtime under its handle.
EndInError(h) ==
    /\ Close
    /\ IF phase = "terminal" THEN Save(h.path, runtime) ELSE UNCHANGED <<store, names>>

\* An unknown reference, an unreadable file, a runtime that cannot be built or
\* a plugin that cannot be shut down, before anything has been assigned.
CommandFails ==
    /\ Open /\ EndInError(handle)
    /\ UNCHANGED <<now, answered, givenUp>>

----------------------------------------------------------------------------
(* Turns *)

Say(session) == [session EXCEPT !.said = @ \cup {now'}, !.touched = now']

Asks == Open /\ now < MaxPrompts /\ now' = now + 1

\* What the turn's runtime has appended: the header of the file says when the
\* session was last saved as a whole.  A file that is gone was written anew for
\* the history of prompts, just before the turn.
Appended ==
    LET file == IF store[log] = Nothing THEN runtime ELSE store[log]
    IN  [store EXCEPT ![log] = [file EXCEPT !.said = @ \cup {now'}]]

\* run_turn: the runtime of the turn replaces the session's and is saved.
Turn ==
    /\ Asks
    /\ runtime' = Say(runtime) /\ SaveIn(Appended, names, handle.path, runtime')
    /\ answered' = answered \cup {now'}
    /\ UNCHANGED <<handle, log, phase, givenUp>>

\* The turn fails, which ends the program, or the program is killed during it.
TurnFails ==
    /\ Asks /\ Close
    /\ \/ store' = Appended /\ names' = names
       \/ phase = "terminal" /\ SaveIn(Appended, names, handle.path, runtime)
    /\ UNCHANGED <<answered, givenUp>>

\* reload_runtime_features, /model and the like: a new runtime for the session.
Reload ==
    /\ Open /\ Save(handle.path, runtime)
    /\ UNCHANGED <<handle, runtime, log, phase, now, answered, givenUp>>

----------------------------------------------------------------------------
(* Session commands *)

\* clear_session: the terminal interface does not save what it returns.
Clear ==
    /\ Open /\ NewName
    /\ Become([id |-> names', path |-> names'], NewSession(names'))
    /\ IF phase = "line editor" THEN SaveNew(runtime') ELSE UNCHANGED store
    /\ UNCHANGED <<phase, now, answered, givenUp>>

\* The handle is replaced before the runtime is built.
ClearFails ==
    /\ Open /\ NewName /\ Close
    /\ IF phase = "terminal" THEN SaveNew(runtime) ELSE UNCHANGED store
    /\ UNCHANGED <<now, answered, givenUp>>

\* Variant: the handle of a loaded session is the resolved one.
LoadHandle_AsResolved(h) == h

\* load_session_reference: the handle of a loaded session has the id read.
LoadHandle(h) == [id |-> store[h.path].id, path |-> h.path]

\* /resume does not take an alias for the session that is open, switch may.
ResumeOrSwitch == \E excluded \in {handle.id, NoExclusion} : \E h \in Resolved(excluded) :
    /\ Open
    /\ Become(LoadHandle(h), store[h.path])
    /\ UNCHANGED <<store, phase, names, now, answered, givenUp>>

\* Variant: as in clear_session, the handle is replaced before the runtime.
ResumeFails_HandleFirst == \E h \in Resolved(handle.id) :
    /\ Open /\ EndInError(h)
    /\ UNCHANGED <<now, answered, givenUp>>

\* The runtime of the session that was loaded cannot be built or replaced.
ResumeFails == \E h \in Resolved(handle.id) :
    /\ Open /\ EndInError(handle)
    /\ UNCHANGED <<now, answered, givenUp>>

\* /session fork: the copy is saved, then opened.
Fork ==
    LET forked == [runtime EXCEPT !.id = names', !.touched = now'] IN
    /\ Asks /\ NewName
    /\ SaveNew(forked)
    /\ Become([id |-> names', path |-> names'], forked)
    /\ UNCHANGED <<phase, answered, givenUp>>

\* The copy is saved; then a runtime for it cannot be built or the old one cannot
\* be shut down, which ends the program, or the program is killed.
ForkFails ==
    LET forked == [runtime EXCEPT !.id = names + 1, !.touched = now']
        copied == [store EXCEPT ![names + 1] = forked] IN
    /\ Asks /\ names < MaxNames /\ Close
    /\ \/ store' = copied /\ names' = names + 1
       \/ phase = "terminal" /\ SaveIn(copied, names + 1, handle.path, runtime)
    /\ UNCHANGED <<answered, givenUp>>

\* delete_managed_session
Remove(path) ==
    /\ store' = [store EXCEPT ![path] = Nothing]
    /\ givenUp' = givenUp \cup store[path].said

\* /session delete: "refusing to delete the active session".
Delete == \E h \in Resolved(NoExclusion) :
    /\ Open /\ h.id # handle.id
    /\ Remove(h.path)
    /\ UNCHANGED <<handle, runtime, log, phase, names, now, answered>>

\* claw --resume f /session delete t --force
DeleteResumed == \E f \in Files : \E h \in Resolved(NoExclusion) :
    /\ ~Open /\ h.id # store[f].id /\ h.path # f
    /\ Remove(h.path)
    /\ UNCHANGED <<handle, runtime, log, phase, names, now, answered>>

\* claw --resume f /clear --confirm: the session keeps its id, and a backup that
\* is no session of the store keeps what was said.
ClearResumed == \E f \in Files :
    /\ ~Open /\ Save(f, NewSession(store[f].id))
    /\ givenUp' = givenUp \cup store[f].said
    /\ UNCHANGED <<handle, runtime, log, phase, now, answered>>

Next ==
    \/ Start \/ Exit \/ Killed \/ CommandFails \/ Turn \/ TurnFails \/ Reload
    \/ Clear \/ ClearFails \/ ResumeOrSwitch \/ ResumeFails \/ Fork
    \/ ForkFails \/ Delete \/ DeleteResumed \/ ClearResumed

Spec == Init /\ [][Next]_vars

----------------------------------------------------------------------------
\* At the prompt the handle, the runtime and the file it appends to are of one
\* session, and the file, unless it is yet to be written, holds that session:
\* whatever command comes next, it speaks of and writes what is open.
OneSessionIsOpen ==
    Open => /\ handle = [id |-> runtime.id, path |-> log]
            /\ store[log] \in {Nothing, runtime}

\* What was answered is in some file or still open, until the user clears or
\* deletes it: no command that fails, and no exit after it, writes one session
\* over another.
AnswersStay ==
    \A n \in answered \ givenUp :
        \/ \E f \in Files : n \in store[f].said
        \/ Open /\ n \in runtime.said

----------------------------------------------------------------------------
(* What messages and comments say, which the code does not keep *)

\* main.rs: "delete: refusing to delete the active session".
TheOpenFileStays ==
    [][Open /\ store[log] # Nothing => store'[log] # Nothing]_vars

\* main.rs, of the session that is left: "Resume previous  /resume <id>".
TheIdFindsTheSession == Open /\ handle.id \in Files => handle.path = handle.id

=============================================================================
