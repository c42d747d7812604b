------------------------------ MODULE PlanMode ------------------------------
(***************************************************************************)
(* The tools EnterPlanMode, ExitPlanMode and Config of tools/src/lib.rs on *)
(* one work tree: settings.local.json, and the file plan-mode.json in      *)
(* which EnterPlanMode keeps the mode it overrides.  The conversation loop *)
(* calls all three; a subagent, in a thread of its own, has Config only.   *)
(* Every tool reads the whole settings, and writes the whole of them back  *)
(* some steps later, without a lock.  A write is not atomic, and it or the *)
(* program may end anywhere.  The user edits the same file.                *)
(***************************************************************************)
EXTENDS Naturals

CONSTANTS Subagents,   \* threads with the Config tool
          Main,        \* the conversation loop, a thread of its own
          Other,       \* values of another setting
          MaxCuts      \* bound: writes that are cut short

VARIABLES
    settings,   \* the settings file: a document, or Torn
    state,      \* the state file: the mode it keeps, NoState or "torn"
    pc,         \* per actor, the step its tool is at
    doc,        \* per actor, the document its tool has read
    change,     \* per actor, what its Config sets
    cuts        \* writes cut so far

\* History: the document as it is without the tool's override, and whether the
\* override is on.
VARIABLES own, managed

fileVars == <<settings, state>>
toolVars == <<pc, doc, change>>
historyVars == <<own, managed>>
vars == <<fileVars, toolVars, historyVars, cuts>>

Actor == Subagents \cup {Main}
Mode == {"none", "plan", "auto"}        \* "none": no defaultMode in the file
Document == [mode : Mode, other : Other \cup {"none"}]
Empty == [mode |-> "none", other |-> "none"]
Torn == [mode |-> "torn", other |-> "torn"]
NoState == "absent"
NoChange == [key |-> "nothing", value |-> "none"]
Change == [key : {"mode"}, value : Mode \ {"none"}] \cup [key : {"other"}, value : Other]

Init ==
    /\ settings = Empty /\ state = NoState
    /\ pc = [a \in Actor |-> "idle"] /\ doc = [a \in Actor |-> Empty]
    /\ change = [a \in Actor |-> NoChange] /\ cuts = 0
    /\ own = Empty /\ managed = FALSE

TypeOK ==
    /\ settings \in Document \cup {Torn}
    /\ state \in Mode \cup {NoState, "torn"}
    /\ pc \in [Actor -> {"idle", "enter", "record", "override", "exit", "restore",
                         "forget", "write"}]
    /\ \A a \in Subagents \ {Main} : pc[a] \in {"idle", "write"}
    /\ doc \in [Actor -> Document] /\ change \in [Actor -> Change \cup {NoChange}]
    /\ own \in Document /\ managed \in BOOLEAN /\ cuts \in Nat

----------------------------------------------------------------------------
At(a, label) == pc' = [pc EXCEPT ![a] = label]
Readable == settings # Torn

\* read_json_object: the document, or an error that ends the tool.
Reads(a, label) ==
    /\ pc[a] = "idle" /\ Readable
    /\ doc' = [doc EXCEPT ![a] = settings] /\ At(a, label)
    /\ UNCHANGED <<fileVars, historyVars, cuts>>

BeginEnter == Reads(Main, "enter") /\ UNCHANGED change
BeginExit == Reads(Main, "exit") /\ UNCHANGED change
BeginConfig(a) ==
    \E c \in Change : Reads(a, "write") /\ change' = [change EXCEPT ![a] = c]

\* Variant: a state that is there is good enough.
EnterReadsState_KeepsStale ==
    /\ pc[Main] = "enter"
    /\ UNCHANGED state
    /\ IF state = "torn" \/ doc[Main].mode = "plan" THEN At(Main, "idle")
       ELSE At(Main, IF state = NoState THEN "record" ELSE "override")
    /\ UNCHANGED <<settings, doc, change, historyVars, cuts>>

\* In plan mode, whoever set it, there is nothing to do; a state that is there
\* although the mode is another one is stale, and removed.
EnterReadsState ==
    /\ pc[Main] = "enter"
    /\ IF state = "torn" \/ doc[Main].mode = "plan"
       THEN At(Main, "idle") /\ UNCHANGED state
       ELSE At(Main, "record") /\ state' = NoState
    /\ UNCHANGED <<settings, doc, change, historyVars, cuts>>

WriteState ==
    /\ pc[Main] = "record"
    /\ state' = doc[Main].mode /\ At(Main, "override")
    /\ UNCHANGED <<settings, doc, change, historyVars, cuts>>

Override ==
    /\ pc[Main] = "override"
    /\ settings' = [doc[Main] EXCEPT !.mode = "plan"]
    /\ own' = doc[Main] /\ managed' = TRUE
    /\ At(Main, "idle") /\ UNCHANGED <<state, doc, change, cuts>>

\* Without a state there is nothing to do; without plan mode the state is stale.
ExitReadsState ==
    /\ pc[Main] = "exit"
    /\ At(Main, CASE state \in {NoState, "torn"} -> "idle"
                  [] doc[Main].mode # "plan" -> "forget"
                  [] OTHER -> "restore")
    /\ UNCHANGED <<fileVars, doc, change, historyVars, cuts>>

\* The state was read in the step before, and nobody else writes it.
Restore ==
    /\ pc[Main] = "restore"
    /\ settings' = [doc[Main] EXCEPT !.mode = state]
    /\ own' = settings' /\ managed' = FALSE
    /\ At(Main, "forget") /\ UNCHANGED <<state, doc, change, cuts>>

ClearState ==
    /\ pc[Main] = "forget"
    /\ state' = NoState /\ At(Main, "idle")
    /\ UNCHANGED <<settings, doc, change, historyVars, cuts>>

Applied(document, c) ==
    IF c.key = "mode" THEN [document EXCEPT !.mode = c.value]
    ELSE [document EXCEPT !.other = c.value]

\* execute_config writes the document it has read.  What another actor wrote in
\* between is lost, and an override that ended in between is back for good.
WriteConfig(a) ==
    LET stale == doc[a] # settings
        kept == managed /\ ~stale /\ change[a].key # "mode" IN
    /\ pc[a] = "write"
    /\ settings' = Applied(doc[a], change[a])
    /\ managed' = kept
    /\ own' = IF kept THEN Applied(own, change[a]) ELSE settings'
    /\ At(a, "idle") /\ UNCHANGED <<state, doc, change, cuts>>

\* The user edits the settings, or repairs them.
UserEdits ==
    \E document \in Document :
        /\ settings' = document
        /\ managed' = (managed /\ Readable /\ document.mode = "plan")
        /\ own' = IF managed' THEN [document EXCEPT !.mode = own.mode] ELSE document
        /\ UNCHANGED <<state, toolVars, cuts>>

UserDeletesTornState ==
    /\ state = "torn" /\ state' = NoState
    /\ UNCHANGED <<settings, toolVars, historyVars, cuts>>

----------------------------------------------------------------------------
\* A write that is cut leaves the file as it was, empty, or torn; an empty file
\* reads as one without entries.  The tool returns an error.
CutState ==
    /\ pc[Main] = "record" /\ state' \in {NoState, "torn"} /\ At(Main, "idle")
    /\ cuts < MaxCuts /\ cuts' = cuts + 1
    /\ UNCHANGED <<settings, doc, change, historyVars>>

CutSettings(a) ==
    /\ pc[a] \in {"override", "restore", "write"} /\ At(a, "idle")
    /\ \/ UNCHANGED <<settings, historyVars>>
       \/ settings' \in {Empty, Torn} /\ own' = Empty /\ managed' = FALSE
    /\ cuts < MaxCuts /\ cuts' = cuts + 1
    /\ UNCHANGED <<state, doc, change>>

\* The program ends, with all its threads.
Crash ==
    /\ pc' = [a \in Actor |-> "idle"]
    /\ cuts < MaxCuts /\ cuts' = cuts + 1
    /\ UNCHANGED <<fileVars, doc, change, historyVars>>

Enter == BeginEnter \/ EnterReadsState \/ WriteState \/ Override
Exit == BeginExit \/ ExitReadsState \/ Restore \/ ClearState
Config == \E a \in Actor : BeginConfig(a) \/ WriteConfig(a)
Cut == CutState \/ Crash \/ \E a \in Actor : CutSettings(a)

Next == Enter \/ Exit \/ Config \/ UserEdits \/ UserDeletesTornState \/ Cut
Spec == Init /\ [][Next]_vars

----------------------------------------------------------------------------
\* While EnterPlanMode's override is on, the state file holds the mode it
\* replaced, and nothing else in the settings differs from what was chosen:
\* whatever was cut, a stale state of an earlier override is never in its place.
OverrideCanBeUndone ==
    managed => settings = [own EXCEPT !.mode = "plan"] /\ state = own.mode

\* An ExitPlanMode that overtakes nobody gives back exactly the settings without
\* the override.
ExitRestores ==
    [][Restore /\ doc[Main] = settings /\ managed => settings' = own]_vars
=============================================================================
