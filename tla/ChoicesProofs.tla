--------------------------- MODULE ChoicesProofs ----------------------------
(***************************************************************************)
(* Theorems about what the user chose and the program keeps in files.      *)
(*                                                                         *)
(*   I   PlanMode, for any subagents, other settings and number of cut     *)
(*       writes.  What makes OverrideCanBeUndone inductive is that the     *)
(*       loop's own tool, between its reading and its last write, knows    *)
(*       whether an override can be on: only the loop itself could turn    *)
(*       it on.                                                            *)
(*   II  Plugins, for any external and bundled plugins, any number of      *)
(*       versions and of cut steps.  What makes BundledCopiesAreWhole      *)
(*       inductive is that a record of the current version vouches for the *)
(*       copy at every step, and that a sync never comes to a copy whose   *)
(*       record is current unless it copies it again at once.              *)
(***************************************************************************)
EXTENDS MCPlugins, TLAPS

----------------------------------------------------------------------------
(* I. Plan mode                                                             *)

\* The override is off while a tool is about to replace or remove the state.
OffMeanwhile ==
    /\ pc[Main] \in {"record", "override", "forget"} => ~managed
    /\ pc[Main] \in {"enter", "exit"} /\ doc[Main].mode # "plan" => ~managed

\* What the loop knows of the state file between two of its steps.
StateIsKnown ==
    /\ pc[Main] = "override" => state = doc[Main].mode
    /\ pc[Main] = "restore" => state \in Mode

IInv == TypeOK /\ OffMeanwhile /\ StateIsKnown /\ OverrideCanBeUndone

----------------------------------------------------------------------------
LEMMA MainActs == Main \in Actor /\ Subagents \subseteq Actor
  BY DEF Actor

LEMMA EmptyIsDocument == Empty \in Document
  BY DEF Empty, Document, Mode

LEMMA Initially == Init => IInv
<1> SUFFICES ASSUME Init PROVE IInv
  OBVIOUS
<1>1. TypeOK
  <2>1. doc \in [Actor -> Document] /\ change \in [Actor -> Change \cup {NoChange}]
    BY EmptyIsDocument DEF Init
  <2>2. /\ pc \in [Actor -> {"idle", "enter", "record", "override", "exit", "restore",
                              "forget", "write"}]
        /\ \A a \in Subagents \ {Main} : pc[a] \in {"idle", "write"}
    BY MainActs DEF Init
  <2> QED
    BY <2>1, <2>2, EmptyIsDocument DEF Init, TypeOK
<1>2. pc[Main] = "idle" /\ ~managed
  BY MainActs DEF Init
<1> QED
  BY <1>1, <1>2 DEF IInv, OffMeanwhile, StateIsKnown, OverrideCanBeUndone

\* Putting a tool at another step.
LEMMA AtSteps ==
  ASSUME NEW P, pc \in [Actor -> P], NEW a \in Actor, NEW label, At(a, label)
  PROVE  pc'[a] = label /\ \A b \in Actor \ {a} : pc'[b] = pc[b]
  BY DEF At

\* The program counters stay well typed as long as a subagent only writes.
LEMMA AtIsTyped ==
  ASSUME TypeOK, NEW a \in Actor, NEW label, At(a, label),
         label \in {"idle", "enter", "record", "override", "exit", "restore", "forget",
                    "write"},
         a # Main => label \in {"idle", "write"}
  PROVE  /\ pc' \in [Actor -> {"idle", "enter", "record", "override", "exit", "restore",
                               "forget", "write"}]
         /\ \A b \in Subagents \ {Main} : pc'[b] \in {"idle", "write"}
  BY MainActs DEF TypeOK, At

\* A change applied to a document, and to the document under an override.
LEMMA AppliedIsDocument ==
  ASSUME NEW d \in Document, NEW c \in Change \cup {NoChange}
  PROVE  /\ Applied(d, c) \in Document
         /\ c.key # "mode" =>
               /\ Applied(d, c).mode = d.mode
               /\ Applied([d EXCEPT !.mode = "plan"], c)
                    = [Applied(d, c) EXCEPT !.mode = "plan"]
<1>1. c.key = "mode" => c.value \in Mode
  BY DEF Change, NoChange
<1>2. c.key # "mode" => c.value \in Other \cup {"none"}
  BY DEF Change, NoChange
<1>3. d = [mode |-> d.mode, other |-> d.other] /\ d.mode \in Mode
      /\ d.other \in Other \cup {"none"}
  BY DEF Document
<1>4. CASE c.key = "mode"
  BY <1>1, <1>3, <1>4 DEF Applied, Document
<1>5. CASE c.key # "mode"
  <2>1. Applied(d, c) = [mode |-> d.mode, other |-> c.value]
    BY <1>3, <1>5 DEF Applied
  <2>2. Applied([d EXCEPT !.mode = "plan"], c) = [mode |-> "plan", other |-> c.value]
    BY <1>3, <1>5 DEF Applied
  <2> QED
    BY <1>2, <1>3, <1>5, <2>1, <2>2 DEF Document
<1> QED
  BY <1>4, <1>5

----------------------------------------------------------------------------
LEMMA ReadsKeeps ==
  ASSUME IInv, NEW a \in Actor, NEW label \in {"enter", "exit", "write"}, Reads(a, label),
         a = Main \/ label = "write", change' \in [Actor -> Change \cup {NoChange}]
  PROVE  IInv'
<1>1. TypeOK'
  <2>1. settings \in Document
    BY DEF IInv, TypeOK, Reads, Readable
  <2> QED
    BY <2>1, AtIsTyped DEF IInv, TypeOK, Reads, fileVars, historyVars
<1>2. OverrideCanBeUndone'
  BY DEF IInv, Reads, fileVars, historyVars, OverrideCanBeUndone
<1>3. CASE a = Main
  <2>1. pc'[Main] = label /\ doc'[Main] = settings
    BY <1>3, MainActs DEF IInv, TypeOK, Reads, At
  <2>2. managed => doc'[Main].mode = "plan"
    BY <2>1 DEF IInv, TypeOK, OverrideCanBeUndone, Document
  <2> QED
    BY <1>1, <1>2, <2>1, <2>2
       DEF IInv, OffMeanwhile, StateIsKnown, Reads, fileVars, historyVars
<1>4. CASE a # Main
  <2>1. pc'[Main] = pc[Main] /\ doc'[Main] = doc[Main]
    BY <1>4, MainActs DEF IInv, TypeOK, Reads, At
  <2> QED
    BY <1>1, <1>2, <2>1 DEF IInv, OffMeanwhile, StateIsKnown, Reads, fileVars, historyVars
<1> QED
  BY <1>3, <1>4

LEMMA EnterKeeps == IInv /\ (EnterReadsState \/ WriteState \/ Override) => IInv'
<1> USE MainActs
<1>1. ASSUME IInv, EnterReadsState PROVE IInv'
  <2>1. CASE (state = "torn" \/ doc[Main].mode = "plan") /\ At(Main, "idle") /\ UNCHANGED state
    <3>1. TypeOK' /\ pc'[Main] = "idle"
      BY <1>1, <2>1, AtIsTyped, AtSteps DEF IInv, TypeOK, EnterReadsState, historyVars
    <3> QED
      BY <1>1, <2>1, <3>1 DEF IInv, EnterReadsState, historyVars, OffMeanwhile,
                              StateIsKnown, OverrideCanBeUndone
  <2>2. CASE doc[Main].mode # "plan" /\ At(Main, "record") /\ state' = NoState
    <3>1. TypeOK' /\ pc'[Main] = "record"
      BY <1>1, <2>2, AtIsTyped, AtSteps DEF IInv, TypeOK, EnterReadsState, historyVars
    <3>2. ~managed'
      BY <1>1, <2>2 DEF IInv, OffMeanwhile, EnterReadsState, historyVars
    <3> QED
      BY <3>1, <3>2 DEF IInv, OffMeanwhile, StateIsKnown, OverrideCanBeUndone
  <2> QED
    BY <1>1, <2>1, <2>2 DEF EnterReadsState
<1>2. ASSUME IInv, WriteState PROVE IInv'
  <2>1. pc'[Main] = "override" /\ ~managed' /\ state' = doc'[Main].mode
    BY <1>2, AtSteps DEF IInv, TypeOK, OffMeanwhile, WriteState, historyVars
  <2>2. doc[Main].mode \in Mode
    BY <1>2 DEF IInv, TypeOK, Document
  <2>3. TypeOK'
    BY <1>2, <2>2, AtIsTyped DEF IInv, TypeOK, WriteState, historyVars
  <2> QED
    BY <2>1, <2>3 DEF IInv, OffMeanwhile, StateIsKnown, OverrideCanBeUndone
<1>3. ASSUME IInv, Override PROVE IInv'
  <2>1. /\ pc'[Main] = "idle" /\ state' = doc[Main].mode /\ own' = doc[Main]
        /\ settings' = [doc[Main] EXCEPT !.mode = "plan"]
    BY <1>3, AtSteps DEF IInv, TypeOK, StateIsKnown, Override
  <2>2. doc[Main] \in Document /\ settings' \in Document
    BY <1>3, <2>1 DEF IInv, TypeOK, Document, Mode
  <2>3. TypeOK'
    BY <1>3, <2>1, <2>2, AtIsTyped DEF IInv, TypeOK, Override
  <2> QED
    BY <2>1, <2>3 DEF IInv, OffMeanwhile, StateIsKnown, OverrideCanBeUndone
<1> QED
  BY <1>1, <1>2, <1>3

LEMMA ExitKeeps == IInv /\ (ExitReadsState \/ Restore \/ ClearState) => IInv'
<1> USE MainActs
<1>1. ASSUME IInv, ExitReadsState PROVE IInv'
  <2>1. PICK label \in {"idle", "forget", "restore"} :
          /\ At(Main, label)
          /\ label = "forget" => doc[Main].mode # "plan"
          /\ label = "restore" => state \in Mode
    BY <1>1 DEF ExitReadsState, IInv, TypeOK, NoState
  <2>2. TypeOK' /\ pc'[Main] = label
    BY <1>1, <2>1, AtIsTyped, AtSteps DEF IInv, TypeOK, ExitReadsState, fileVars, historyVars
  <2> QED
    BY <1>1, <2>1, <2>2 DEF IInv, OffMeanwhile, StateIsKnown, OverrideCanBeUndone,
                            ExitReadsState, fileVars, historyVars
<1>2. ASSUME IInv, Restore PROVE IInv'
  <2>1. pc'[Main] = "forget" /\ ~managed'
    BY <1>2, AtSteps DEF IInv, TypeOK, Restore
  <2>2. settings' \in Document
    BY <1>2 DEF IInv, TypeOK, StateIsKnown, Restore, Document
  <2>3. TypeOK'
    BY <1>2, <2>2, AtIsTyped DEF IInv, TypeOK, Restore
  <2> QED
    BY <2>1, <2>3 DEF IInv, OffMeanwhile, StateIsKnown, OverrideCanBeUndone
<1>3. ASSUME IInv, ClearState PROVE IInv'
  <2>1. pc'[Main] = "idle" /\ ~managed'
    BY <1>3, AtSteps DEF IInv, TypeOK, OffMeanwhile, ClearState, historyVars
  <2>2. TypeOK'
    BY <1>3, AtIsTyped DEF IInv, TypeOK, ClearState, historyVars
  <2> QED
    BY <2>1, <2>2 DEF IInv, OffMeanwhile, StateIsKnown, OverrideCanBeUndone
<1> QED
  BY <1>1, <1>2, <1>3

LEMMA WriteConfigKeeps ==
  ASSUME IInv, NEW a \in Actor, WriteConfig(a)
  PROVE  IInv'
<1> DEFINE kept == managed /\ doc[a] = settings /\ change[a].key # "mode"
<1> USE MainActs
<1>1. /\ doc[a] \in Document /\ own \in Document
      /\ Applied(doc[a], change[a]) \in Document /\ Applied(own, change[a]) \in Document
  BY AppliedIsDocument DEF IInv, TypeOK
<1>2. /\ settings' = Applied(doc[a], change[a]) /\ managed' = kept
      /\ own' = IF kept THEN Applied(own, change[a]) ELSE settings'
      /\ state' = state /\ doc' = doc /\ managed' \in BOOLEAN
  BY DEF WriteConfig
<1>3. TypeOK'
  BY <1>1, <1>2, AtIsTyped DEF IInv, TypeOK, WriteConfig
<1>4. ASSUME managed'
      PROVE  settings' = [own' EXCEPT !.mode = "plan"] /\ state' = own'.mode
  <2>1. settings = [own EXCEPT !.mode = "plan"] /\ state = own.mode
    BY <1>2, <1>4 DEF IInv, OverrideCanBeUndone
  <2>2. /\ change[a] \in Change \cup {NoChange} /\ change[a].key # "mode"
        /\ doc[a] = [own EXCEPT !.mode = "plan"]
    BY <1>2, <1>4, <2>1 DEF IInv, TypeOK
  <2>3. /\ Applied(own, change[a]).mode = own.mode
        /\ Applied(doc[a], change[a]) = [Applied(own, change[a]) EXCEPT !.mode = "plan"]
    BY <1>1, <2>2, AppliedIsDocument
  <2> QED
    BY <1>2, <1>4, <2>1, <2>3
<1>5. managed' => managed
  BY <1>2
<1>6. OffMeanwhile' /\ StateIsKnown'
  <2>1. pc'[Main] = pc[Main] \/ pc'[Main] = "idle"
    BY AtSteps DEF IInv, TypeOK, WriteConfig
  <2> QED
    BY <1>2, <1>5, <2>1 DEF IInv, OffMeanwhile, StateIsKnown
<1> QED
  BY <1>3, <1>4, <1>6 DEF IInv, OverrideCanBeUndone

\* The user's edits and repairs, and what is cut, turn no override on.
LEMMA OthersKeep ==
  IInv /\ (UserEdits \/ UserDeletesTornState \/ Cut) => IInv'
<1> USE MainActs
<1>1. ASSUME IInv, UserEdits PROVE IInv'
  <2>1. PICK document \in Document :
          /\ settings' = document
          /\ managed' = (managed /\ Readable /\ document.mode = "plan")
          /\ own' = IF managed' THEN [document EXCEPT !.mode = own.mode] ELSE document
          /\ UNCHANGED <<state, toolVars, cuts>>
    BY <1>1 DEF UserEdits
  <2>2. own' \in Document /\ managed' \in BOOLEAN
    BY <1>1, <2>1 DEF IInv, TypeOK, Document
  <2>3. TypeOK'
    BY <1>1, <2>1, <2>2 DEF IInv, TypeOK, toolVars
  <2>4. OverrideCanBeUndone'
    BY <1>1, <2>1 DEF IInv, TypeOK, OverrideCanBeUndone, Document
  <2> QED
    BY <1>1, <2>1, <2>3, <2>4 DEF IInv, OffMeanwhile, StateIsKnown, toolVars
<1>2. ASSUME IInv, UserDeletesTornState PROVE IInv'
  <2>1. ~managed
    BY <1>2 DEF IInv, TypeOK, OverrideCanBeUndone, UserDeletesTornState, Document, Mode
  <2>2. pc[Main] # "override" /\ pc[Main] # "restore"
    BY <1>2 DEF IInv, TypeOK, StateIsKnown, UserDeletesTornState, Document, Mode
  <2> QED
    BY <1>2, <2>1, <2>2 DEF IInv, TypeOK, OffMeanwhile, StateIsKnown, OverrideCanBeUndone,
                            UserDeletesTornState, toolVars, historyVars
<1>3. ASSUME IInv, CutState PROVE IInv'
  <2>1. pc'[Main] = "idle" /\ ~managed'
    BY <1>3, AtSteps DEF IInv, TypeOK, OffMeanwhile, CutState, historyVars
  <2>2. TypeOK'
    BY <1>3, AtIsTyped DEF IInv, TypeOK, CutState, historyVars
  <2> QED
    BY <2>1, <2>2 DEF IInv, OffMeanwhile, StateIsKnown, OverrideCanBeUndone
<1>4. ASSUME IInv, NEW a \in Actor, CutSettings(a) PROVE IInv'
  <2>1. /\ pc'[Main] = pc[Main] \/ pc'[Main] = "idle"
        /\ state' = state /\ doc' = doc
    BY <1>4, AtSteps DEF IInv, TypeOK, CutSettings
  <2>3. CASE UNCHANGED <<settings, historyVars>>
    <3>1. TypeOK'
      BY <1>4, <2>3, AtIsTyped DEF IInv, TypeOK, CutSettings, historyVars
    <3> QED
      BY <1>4, <2>1, <2>3, <3>1
         DEF IInv, OffMeanwhile, StateIsKnown, OverrideCanBeUndone, historyVars
  <2>4. CASE settings' \in {Empty, Torn} /\ own' = Empty /\ managed' = FALSE
    <3>1. /\ settings' \in Document \cup {Torn} /\ own' \in Document
          /\ managed' \in BOOLEAN
      BY <2>4, EmptyIsDocument
    <3>2. TypeOK'
      BY <1>4, <3>1, AtIsTyped DEF IInv, TypeOK, CutSettings
    <3> QED
      BY <1>4, <2>1, <2>4, <3>2 DEF IInv, OffMeanwhile, StateIsKnown, OverrideCanBeUndone
  <2> QED
    BY <1>4, <2>3, <2>4 DEF CutSettings
<1>5. ASSUME IInv, Crash PROVE IInv'
  BY <1>5 DEF IInv, TypeOK, OffMeanwhile, StateIsKnown, OverrideCanBeUndone, Crash,
              fileVars, historyVars
<1> QED
  BY <1>1, <1>2, <1>3, <1>4, <1>5 DEF Cut

LEMMA Inductive == IInv /\ [Next]_vars => IInv'
<1> SUFFICES ASSUME IInv, [Next]_vars PROVE IInv'
  OBVIOUS
<1> USE MainActs
<1>1. CASE BeginEnter \/ BeginExit
  BY <1>1, ReadsKeeps DEF BeginEnter, BeginExit, IInv, TypeOK
<1>2. ASSUME NEW a \in Actor, BeginConfig(a) PROVE IInv'
  <2>1. PICK c \in Change : Reads(a, "write") /\ change' = [change EXCEPT ![a] = c]
    BY <1>2 DEF BeginConfig
  <2> QED
    BY <2>1, ReadsKeeps DEF IInv, TypeOK
<1>3. CASE Enter \/ Exit
  BY <1>1, <1>3, EnterKeeps, ExitKeeps DEF Enter, Exit
<1>4. ASSUME NEW a \in Actor, WriteConfig(a) PROVE IInv'
  BY <1>4, WriteConfigKeeps
<1>5. CASE UserEdits \/ UserDeletesTornState \/ Cut
  BY <1>5, OthersKeep
<1>6. CASE UNCHANGED vars
  BY <1>6 DEF vars, fileVars, toolVars, historyVars, IInv, TypeOK, OffMeanwhile,
              StateIsKnown, OverrideCanBeUndone
<1> QED
  BY <1>2, <1>3, <1>4, <1>5, <1>6 DEF Next, Config

LEMMA Invariant == Spec => []IInv
<1> QED
  BY Initially, Inductive, PTL DEF Spec

----------------------------------------------------------------------------
\* Every reachable state of the tools and their two files is well typed.
THEOREM TypeCorrect == Spec => []TypeOK
<1>1. IInv => TypeOK
  BY DEF IInv
<1> QED
  BY <1>1, Invariant, PTL

\* However Config, the user and cut writes interleave with it: while the override
\* is on, the state file holds the mode it replaced.
THEOREM StateFileIsTrue == Spec => []OverrideCanBeUndone
<1>1. IInv => OverrideCanBeUndone
  BY DEF IInv
<1> QED
  BY <1>1, Invariant, PTL

\* An ExitPlanMode that overtakes nobody gives back the settings as they would be
\* without the override.
THEOREM ExitGivesBack == Spec => ExitRestores
<1>1. IInv /\ [Next]_vars
        => [Restore /\ doc[Main] = settings /\ managed => settings' = own]_vars
  <2> SUFFICES ASSUME IInv, Restore, doc[Main] = settings, managed PROVE settings' = own
    OBVIOUS
  <2>1. /\ settings = [own EXCEPT !.mode = "plan"] /\ state = own.mode /\ own \in Document
        /\ settings' = [settings EXCEPT !.mode = state]
    BY DEF IInv, TypeOK, OverrideCanBeUndone, Restore
  <2> QED
    BY <2>1 DEF Document
<1> QED
  BY <1>1, Invariant, PTL DEF Spec, ExitRestores

----------------------------------------------------------------------------
(* II. Plugins                                                              *)

Plugin == External \cup Bundled
Files == {"manifest", "command", "data"}
Syncing == {"start", "enable", "disable"}

PluginTypes ==
    /\ source \in [Plugin -> Nat] /\ registry \in [Plugin -> Nat] /\ loaded \in [Plugin -> Nat]
    /\ dir \in [Plugin -> [version : Nat, files : SUBSET Files]]
    /\ enabled \in [Plugin -> {"on", "off", "none"}]
    /\ invalid \subseteq External /\ todo \subseteq Bundled /\ off \subseteq Plugin
    /\ changed \in BOOLEAN
    /\ \A p \in External : source[p] # 0

\* What an operation is about at each of its steps.
Stages ==
    /\ step \in {"idle", "remove", "copy", "store", "sync", "discover", "check", "settings"}
    /\ step # "idle" => op.kind \in Syncing \cup {"install", "update", "uninstall"}
    /\ step \in {"sync", "discover", "check"} => op.kind \in Syncing
    /\ step = "settings" => op.kind \in {"install", "uninstall", "enable", "disable"}
    /\ step # "idle" /\ op.kind # "start" => op.plugin \in Plugin
    /\ step # "idle" /\ op.kind = "uninstall" => op.plugin \in External
    /\ step # "idle" /\ op.kind \notin {"start", "update"} => op.plugin \notin off
    /\ step \in {"remove", "copy"} =>
          /\ at \in Plugin
          /\ op.kind \in {"install", "uninstall"} => at \in External
          /\ op.kind = "update" => source[at] # 0
          /\ op.kind \in Syncing => at \in Bundled \ todo
          /\ step = "copy" => op.kind # "uninstall" /\ source[at] # 0

----------------------------------------------------------------------------
(* The copies *)

Whole(p) == dir[p] = [version |-> source[p], files |-> Files]

\* A record of the current version vouches for the copy.
Vouches(records, p) ==
    source[p] # 0 /\ records[p] = source[p] /\ p \notin halfUpdated => Whole(p)

\* These plugins are in the state a sync leaves them in.
Synced(records, plugins) ==
    \A p \in plugins \ halfUpdated : source[p] # 0 => records[p] = source[p] /\ Whole(p)

\* Versions only go up, so that a record never names one that is still to come.
NoRecordIsAhead ==
    \A p \in Bundled : source[p] # 0 => registry[p] <= source[p] /\ loaded[p] <= source[p]

Vouched ==
    /\ \A p \in Bundled :
          Vouches(registry, p) \/ (step = "copy" /\ op.kind = "update" /\ at = p)
    /\ step \in {"remove", "copy"} /\ op.kind \in Syncing =>
          source[at] = 0 \/ registry[at] # source[at] \/ at \in halfUpdated

\* What the operation holds and will store.
LoadedIsTrue ==
    /\ step \in {"remove", "copy"} /\ op.kind = "update" => loaded = registry
    /\ step = "remove" /\ op.kind = "uninstall" => \A p \in Bundled : loaded[p] = registry[p]
    /\ step = "store" => \A p \in Bundled : Vouches(loaded, p)
    /\ step \in {"sync", "remove", "copy"} /\ op.kind \in Syncing =>
          /\ \A p \in todo : loaded[p] = registry[p]
          /\ Synced(loaded, {p \in Bundled \ todo : step = "sync" \/ p # at})
          /\ ~changed => loaded = registry
    /\ step = "store" /\ op.kind \in Syncing => Synced(loaded, Bundled)
    /\ step \in {"discover", "check"} => Synced(registry, Bundled)
    /\ step = "discover" => ~changed

\* What is switched off reads so in the settings.
OffIsOff ==
    /\ "settings" \in torn => settingsCut
    /\ ~settingsCut =>
          \A p \in off : \/ enabled[p] = "off"
                         \/ enabled[p] = "none" /\ p \notin Bundled \cap DefaultOn

PluginInv == PluginTypes /\ Stages /\ NoRecordIsAhead /\ Vouched /\ LoadedIsTrue /\ OffIsOff

\* It holds when nothing is installed.
LEMMA PluginsStart == Manager!Init => PluginInv
<1> SUFFICES ASSUME Manager!Init PROVE PluginInv
  OBVIOUS
<1> USE DEF Manager!Init, Manager!Plugin, Manager!NoCopy, Plugin
<1>1. PluginTypes
  <2>1. [version |-> 0, files |-> {}] \in [version : Nat, files : SUBSET Files]
    OBVIOUS
  <2>2. dir \in [Plugin -> [version : Nat, files : SUBSET Files]]
    BY <2>1
  <2>3. enabled \in [Plugin -> {"on", "off", "none"}]
    OBVIOUS
  <2>4. /\ source \in [Plugin -> Nat] /\ registry \in [Plugin -> Nat]
        /\ loaded \in [Plugin -> Nat]
        /\ \A p \in External : source[p] # 0
    OBVIOUS
  <2> QED
    BY <2>2, <2>3, <2>4 DEF PluginTypes
<1> QED
  BY <1>1 DEF PluginInv, Stages, NoRecordIsAhead, Vouched, Vouches, LoadedIsTrue, OffIsOff

\* The operation ends, with or without what it wanted.
LEMMA EndOpKeeps ==
    ASSUME PluginTypes, Stages, Manager!EndOp, NoRecordIsAhead
    PROVE  /\ loaded' \in [Plugin -> Nat] /\ todo' \subseteq Bundled /\ changed' \in BOOLEAN
           /\ step' = "idle" /\ Stages' /\ LoadedIsTrue'
           /\ \A p \in Bundled : loaded'[p] = 0
  BY DEF Manager!EndOp, Manager!NoRecords, Manager!Plugin, Plugin, PluginTypes, Stages,
         LoadedIsTrue

LEMMA IdleKeeps ==
    ASSUME PluginTypes', step' = "idle", 
           \A p \in Bundled : source'[p] # 0 => registry'[p] <= source'[p] /\ loaded'[p] = 0,
           \A p \in Bundled : Vouches(registry, p)', OffIsOff'
    PROVE  PluginInv'
<1>1. Stages' /\ LoadedIsTrue' /\ Vouched'
  BY DEF Stages, LoadedIsTrue, Vouched, Vouches
<1>2. NoRecordIsAhead'
  BY DEF NoRecordIsAhead, PluginTypes, Plugin
<1> QED
  BY <1>1, <1>2 DEF PluginInv

\* What an operation begins with: nothing on the disk has changed yet.
LEMMA BeginInstallKeeps ==
    ASSUME PluginInv, NEW p \in Manager!Plugin, Manager!BeginInstall(p)
    PROVE  PluginInv'
<1> USE DEF Manager!worldVars, Manager!diskVars, Manager!opVars, Manager!historyVars,
            Manager!Asked, Manager!Plugin, Plugin, Manager!Intact, Syncing
<1>1. PluginTypes /\ Stages /\ NoRecordIsAhead /\ Vouched /\ LoadedIsTrue /\ OffIsOff
  BY DEF PluginInv
<1> USE DEF Manager!BeginInstall
<1>2. PluginTypes'
  BY <1>1 DEF PluginTypes
<1>3. Stages'
  BY <1>1 DEF PluginTypes, Stages
<1>4. NoRecordIsAhead'
  BY <1>1 DEF PluginTypes, NoRecordIsAhead
<1>5. Vouched'
  BY <1>1 DEF PluginTypes, Stages, Vouched, Vouches, Whole
<1>6. LoadedIsTrue'
  BY <1>1 DEF PluginTypes, Stages, Vouched, Vouches, Whole, LoadedIsTrue, Synced
<1>7. OffIsOff'
  BY <1>1 DEF PluginTypes, OffIsOff, Stages
<1> QED
  BY <1>2, <1>3, <1>4, <1>5, <1>6, <1>7 DEF PluginInv

LEMMA BeginUpdateKeeps ==
    ASSUME PluginInv, NEW p \in Manager!Plugin, Manager!BeginUpdate(p)
    PROVE  PluginInv'
<1> USE DEF Manager!worldVars, Manager!diskVars, Manager!opVars, Manager!historyVars,
            Manager!Asked, Manager!Plugin, Plugin, Manager!Intact, Syncing
<1>1. PluginTypes /\ Stages /\ NoRecordIsAhead /\ Vouched /\ LoadedIsTrue /\ OffIsOff
  BY DEF PluginInv
<1> USE DEF Manager!BeginUpdate
<1>2. PluginTypes'
  BY <1>1 DEF PluginTypes
<1>3. Stages'
  BY <1>1 DEF PluginTypes, Stages
<1>4. NoRecordIsAhead'
  BY <1>1 DEF PluginTypes, NoRecordIsAhead
<1>5. Vouched'
  BY <1>1 DEF PluginTypes, Stages, Vouched, Vouches, Whole
<1>6. LoadedIsTrue'
  BY <1>1 DEF PluginTypes, Stages, Vouched, Vouches, Whole, LoadedIsTrue, Synced
<1>7. OffIsOff'
  BY <1>1 DEF PluginTypes, OffIsOff, Stages
<1> QED
  BY <1>2, <1>3, <1>4, <1>5, <1>6, <1>7 DEF PluginInv

LEMMA BeginUninstallKeeps ==
    ASSUME PluginInv, NEW p \in Manager!Plugin, Manager!BeginUninstall(p)
    PROVE  PluginInv'
<1> USE DEF Manager!worldVars, Manager!diskVars, Manager!opVars, Manager!historyVars,
            Manager!Asked, Manager!Plugin, Plugin, Syncing
<1>1. PluginTypes /\ Stages /\ NoRecordIsAhead /\ Vouched /\ LoadedIsTrue /\ OffIsOff
  BY DEF PluginInv
<1> USE DEF Manager!BeginUninstall
<1>2. PluginTypes'
  BY <1>1 DEF PluginTypes
<1>3. Stages'
  BY <1>1 DEF PluginTypes, Stages
<1>4. NoRecordIsAhead'
  BY <1>1 DEF PluginTypes, NoRecordIsAhead
<1>5. Vouched'
  BY <1>1 DEF PluginTypes, Stages, Vouched, Vouches, Whole
<1>6. LoadedIsTrue'
  BY <1>1 DEF PluginTypes, Stages, Vouched, Vouches, Whole, LoadedIsTrue, Synced
<1>7. OffIsOff'
  BY <1>1 DEF PluginTypes, OffIsOff, Stages
<1> QED
  BY <1>2, <1>3, <1>4, <1>5, <1>6, <1>7 DEF PluginInv

LEMMA BeginSwitchKeeps ==
    ASSUME PluginInv, NEW kind \in {"enable", "disable"}, NEW p \in Manager!Plugin,
           Manager!BeginSwitch(kind, p)
    PROVE  PluginInv'
<1> USE DEF Manager!worldVars, Manager!diskVars, Manager!opVars, Manager!historyVars,
            Manager!Asked, Manager!Plugin, Plugin, Syncing
<1>1. PluginTypes /\ Stages /\ NoRecordIsAhead /\ Vouched /\ LoadedIsTrue /\ OffIsOff
  BY DEF PluginInv
<1> USE DEF Manager!BeginSwitch
<1>2. PluginTypes'
  BY <1>1 DEF PluginTypes
<1>3. Stages'
  BY <1>1 DEF PluginTypes, Stages
<1>4. NoRecordIsAhead'
  BY <1>1 DEF PluginTypes, NoRecordIsAhead
<1>5. Vouched'
  BY <1>1 DEF PluginTypes, Stages, Vouched, Vouches, Whole
<1>6. LoadedIsTrue'
  BY <1>1 DEF PluginTypes, Stages, Vouched, Vouches, Whole, LoadedIsTrue, Synced
<1>7. OffIsOff'
  BY <1>1 DEF PluginTypes, OffIsOff, Stages
<1> QED
  BY <1>2, <1>3, <1>4, <1>5, <1>6, <1>7 DEF PluginInv

LEMMA BeginStartKeeps ==
    ASSUME PluginInv, Manager!BeginStart
    PROVE  PluginInv'
<1> USE DEF Manager!worldVars, Manager!diskVars, Manager!opVars, Manager!historyVars,
            Manager!Asked, Manager!Plugin, Plugin, Syncing
<1>1. PluginTypes /\ Stages /\ NoRecordIsAhead /\ Vouched /\ LoadedIsTrue /\ OffIsOff
  BY DEF PluginInv
<1> USE DEF Manager!BeginStart
<1>2. PluginTypes'
  BY <1>1 DEF PluginTypes
<1>3. Stages'
  BY <1>1 DEF PluginTypes, Stages
<1>4. NoRecordIsAhead'
  BY <1>1 DEF PluginTypes, NoRecordIsAhead
<1>5. Vouched'
  BY <1>1 DEF PluginTypes, Stages, Vouched, Vouches, Whole
<1>6. LoadedIsTrue'
  BY <1>1 DEF PluginTypes, Stages, Vouched, Vouches, Whole, LoadedIsTrue, Synced
<1>7. OffIsOff'
  BY <1>1 DEF PluginTypes, OffIsOff, Stages
<1> QED
  BY <1>2, <1>3, <1>4, <1>5, <1>6, <1>7 DEF PluginInv

\* The sync looks at one plugin after the other, and turns to a copy only when its
\* record is not of the current version.
LEMMA SyncNextKeeps ==
    ASSUME PluginInv, Manager!SyncNext
    PROVE  PluginInv'
<1> USE DEF Manager!worldVars, Manager!diskVars, Manager!opVars, Manager!historyVars,
            Manager!Asked, Manager!Plugin, Plugin, Syncing, Manager!NeedsSync,
            Manager!Loads, Files
<1>1. PluginTypes /\ Stages /\ NoRecordIsAhead /\ Vouched /\ LoadedIsTrue /\ OffIsOff
  BY DEF PluginInv
<1> USE DEF Manager!SyncNext
<1>2. PluginTypes'
  BY <1>1 DEF PluginTypes
<1>3. Stages'
  BY <1>1 DEF PluginTypes, Stages
<1>4. NoRecordIsAhead'
  BY <1>1 DEF PluginTypes, NoRecordIsAhead
<1>5. Vouched'
  <2>1. \A p \in Bundled : Vouches(registry, p)' /\ Vouches(registry, p)
    BY <1>1 DEF Stages, Vouched, Vouches, Whole
  <2>2. step' = "remove" =>
          source[at'] = 0 \/ registry[at'] # source[at'] \/ at' \in halfUpdated
    <3> SUFFICES ASSUME step' = "remove", source[at'] # 0, at' \notin halfUpdated
                 PROVE  registry[at'] # source[at']
      OBVIOUS
    <3>1. at' \in todo /\ at' \in Bundled /\ loaded[at'] = registry[at']
      BY <1>1 DEF Stages, LoadedIsTrue, PluginTypes
    <3>2. loaded[at'] # source[at'] \/ ~Manager!Loads(at')
      BY <1>1 DEF Stages
    <3>3. Whole(at') => Manager!Loads(at')
      BY DEF Whole
    <3> QED
      BY <2>1, <3>1, <3>2, <3>3 DEF Vouches
  <2> QED
    BY <1>1, <2>1, <2>2 DEF Vouched, Stages
<1>6. LoadedIsTrue'
  BY <1>1 DEF PluginTypes, Stages, Vouched, Vouches, Whole, LoadedIsTrue, Synced
<1>7. OffIsOff'
  BY <1>1 DEF PluginTypes, OffIsOff, Stages
<1> QED
  BY <1>2, <1>3, <1>4, <1>5, <1>6, <1>7 DEF PluginInv

LEMMA SyncDoneKeeps ==
    ASSUME PluginInv, Manager!SyncDone
    PROVE  PluginInv'
<1> USE DEF Manager!worldVars, Manager!diskVars, Manager!opVars, Manager!historyVars,
            Manager!Asked, Manager!Plugin, Plugin, Syncing
<1>1. PluginTypes /\ Stages /\ NoRecordIsAhead /\ Vouched /\ LoadedIsTrue /\ OffIsOff
  BY DEF PluginInv
<1> USE DEF Manager!SyncDone
<1>2. PluginTypes'
  BY <1>1 DEF PluginTypes
<1>3. Stages'
  BY <1>1 DEF PluginTypes, Stages
<1>4. NoRecordIsAhead'
  BY <1>1 DEF PluginTypes, NoRecordIsAhead
<1>5. Vouched'
  BY <1>1 DEF PluginTypes, Stages, Vouched, Vouches, Whole
<1>6. LoadedIsTrue'
  BY <1>1 DEF PluginTypes, Stages, Vouched, Vouches, Whole, LoadedIsTrue, Synced
<1>7. OffIsOff'
  BY <1>1 DEF PluginTypes, OffIsOff, Stages
<1> QED
  BY <1>2, <1>3, <1>4, <1>5, <1>6, <1>7 DEF PluginInv

\* A copy taken away: its record is not of the current version, or the operation is
\* about to write another.
LEMMA RemoveCopyKeeps ==
    ASSUME PluginInv, Manager!RemoveCopy
    PROVE  PluginInv'
<1> USE DEF Plugin, Syncing
<1>1. PluginTypes /\ Stages /\ NoRecordIsAhead /\ Vouched /\ LoadedIsTrue /\ OffIsOff
  BY DEF PluginInv
<1>2. /\ step = "remove" /\ at \in Plugin
      /\ UNCHANGED <<source, invalid, off, settingsCut, halfUpdated, torn, registry, enabled,
                     op, at, loaded, todo, changed>>
      /\ dir' = [dir EXCEPT ![at] = [version |-> 0, files |-> {}]]
      /\ op.kind \in Syncing \cup {"install", "update", "uninstall"}
  BY <1>1 DEF Manager!RemoveCopy, Manager!worldVars, Manager!historyVars, Manager!NoCopy, Stages
<1>3. \/ op.kind = "uninstall" /\ step' = "store"
      \/ op.kind \in {"install", "update"} /\ step' = "copy" /\ source[at] # 0
      \/ op.kind \in Syncing /\ step' = IF source[at] = 0 THEN "sync" ELSE "copy"
  BY <1>1, <1>2 DEF Manager!RemoveCopy, Stages, PluginTypes
<1>4. \A p \in Plugin \ {at} : dir'[p] = dir[p]
  BY <1>1, <1>2 DEF PluginTypes
<1>5. PluginTypes'
  <2>1. [version |-> 0, files |-> {}] \in [version : Nat, files : SUBSET Files]
    OBVIOUS
  <2>2. dir' \in [Plugin -> [version : Nat, files : SUBSET Files]]
    BY <1>1, <1>2, <2>1 DEF PluginTypes
  <2> QED
    BY <1>1, <1>2, <2>2 DEF PluginTypes
<1>6. Stages'
  BY <1>1, <1>2, <1>3 DEF Stages
<1>7. NoRecordIsAhead'
  BY <1>1, <1>2 DEF NoRecordIsAhead
<1>8. \A p \in Bundled \ {at} : Vouches(registry, p)' /\ (Whole(p) => Whole(p)')
  BY <1>1, <1>2, <1>4 DEF Vouched, Vouches, Whole
<1>9. Vouched'
  <2>1. CASE op.kind \in {"install", "uninstall"}
    BY <1>1, <1>2, <1>3, <1>8, <2>1, PluginsAreApart DEF Vouched, Stages
  <2>2. CASE op.kind = "update"
    BY <1>1, <1>2, <1>3, <1>8, <2>2 DEF Vouched
  <2>3. CASE op.kind \in Syncing
    BY <1>1, <1>2, <1>3, <1>8, <2>3 DEF Vouched, Vouches
  <2> QED
    BY <1>2, <2>1, <2>2, <2>3
<1>10. LoadedIsTrue'
  <2>1. CASE op.kind = "uninstall"
    <3>1. \A p \in Bundled : Vouches(registry, p)' /\ loaded'[p] = registry'[p]
      BY <1>1, <1>2, <1>8, <2>1, PluginsAreApart DEF Stages, LoadedIsTrue
    <3> QED
      BY <1>3, <1>2, <2>1, <3>1 DEF LoadedIsTrue, Vouches
  <2>2. CASE op.kind \in {"install", "update"}
    BY <1>1, <1>2, <1>3, <2>2 DEF LoadedIsTrue
  <2>3. CASE op.kind \in Syncing
    <3>1. Synced(loaded, {p \in Bundled \ todo : p # at})'
      BY <1>1, <1>2, <1>8, <2>3 DEF LoadedIsTrue, Synced
    <3>2. source[at] = 0 => Synced(loaded, Bundled \ todo)'
      BY <1>2, <3>1 DEF Synced
    <3> QED
      BY <1>1, <1>2, <1>3, <2>3, <3>1, <3>2 DEF LoadedIsTrue, Synced
  <2> QED
    BY <1>2, <2>1, <2>2, <2>3
<1>11. OffIsOff'
  BY <1>1, <1>2 DEF OffIsOff
<1> QED
  BY <1>5, <1>6, <1>7, <1>9, <1>10, <1>11 DEF PluginInv

\* A copy written whole: what the operation holds may now name its version.
LEMMA CopySourceKeeps ==
    ASSUME PluginInv, Manager!CopySource
    PROVE  PluginInv'
<1> USE DEF Plugin, Syncing
<1>1. PluginTypes /\ Stages /\ NoRecordIsAhead /\ Vouched /\ LoadedIsTrue /\ OffIsOff
  BY DEF PluginInv
<1> DEFINE new == [version |-> source[at], files |-> Manager!Contents(at)]
<1>2. /\ step = "copy" /\ at \in Plugin /\ source[at] # 0
      /\ op.kind \in Syncing \cup {"install", "update"}
      /\ UNCHANGED <<source, invalid, off, settingsCut, torn, registry, enabled>>
      /\ dir' = [dir EXCEPT ![at] = new] /\ halfUpdated' = halfUpdated \ {at}
  BY <1>1 DEF Manager!CopySource, Manager!worldVars, Stages
<1>3. new \in [version : Nat, files : SUBSET Files]
  BY <1>1, <1>2 DEF PluginTypes, Manager!Contents, Manager!File, Files
<1>4. at \in Bundled => new = [version |-> source[at], files |-> Files]
  BY <1>1, PluginsAreApart DEF PluginTypes, Manager!Contents, Manager!File, Files
<1> HIDE DEF new
<1>5. /\ \A p \in Bundled \ {at} : Whole(p) => Whole(p)'
      /\ \A p \in Bundled : p = at => Whole(p)'
      /\ dir' \in [Plugin -> [version : Nat, files : SUBSET Files]]
  <2>1. /\ dir' \in [Plugin -> [version : Nat, files : SUBSET Files]]
        /\ dir'[at] = new /\ \A p \in Plugin \ {at} : dir'[p] = dir[p]
    BY <1>1, <1>2, <1>3 DEF PluginTypes
  <2> QED
    BY <1>2, <1>4, <2>1 DEF Whole
<1>6. \A p \in Bundled : Vouches(registry, p)'
  <2> SUFFICES ASSUME NEW p \in Bundled PROVE Vouches(registry, p)'
    OBVIOUS
  <2>1. CASE p = at
    BY <1>5, <2>1 DEF Vouches
  <2>2. CASE p # at
    BY <1>1, <1>2, <1>5, <2>2 DEF Vouched, Vouches
  <2> QED
    BY <2>1, <2>2
<1>7. OffIsOff'
  BY <1>1, <1>2 DEF OffIsOff
<1>8. CASE op.kind = "install" /\ "registry" \in torn
  <2>1. Manager!EndOp
    BY <1>8 DEF Manager!CopySource
  <2>2. /\ loaded' \in [Plugin -> Nat] /\ todo' \subseteq Bundled /\ changed' \in BOOLEAN
        /\ step' = "idle" /\ \A p \in Bundled : loaded'[p] = 0
    BY <1>1, <2>1, EndOpKeeps
  <2>3. PluginTypes'
    BY <1>1, <1>2, <1>5, <2>2 DEF PluginTypes
  <2> QED
    BY <1>1, <1>2, <1>6, <1>7, <2>2, <2>3, IdleKeeps DEF NoRecordIsAhead
<1>9. CASE ~(op.kind = "install" /\ "registry" \in torn)
  <2> DEFINE old == IF op.kind = "install" THEN registry ELSE loaded
  <2>1. /\ loaded' = [old EXCEPT ![at] = source[at]]
        /\ step' = IF op.kind \in {"install", "update"} THEN "store" ELSE "sync"
        /\ changed' = (op.kind \notin {"install", "update"})
        /\ UNCHANGED <<op, at, todo>>
    BY <1>9 DEF Manager!CopySource
  <2>2. old \in [Plugin -> Nat] /\ source[at] \in Nat
    BY <1>1, <1>2 DEF PluginTypes
  <2>3. /\ loaded' \in [Plugin -> Nat] /\ loaded'[at] = source[at]
        /\ \A p \in Plugin \ {at} : loaded'[p] = old[p]
    BY <1>2, <2>1, <2>2
  <2>4. PluginTypes'
    BY <1>1, <1>2, <1>5, <2>1, <2>3 DEF PluginTypes
  <2>5. Stages'
    BY <1>1, <1>2, <2>1 DEF Stages
  <2>6. NoRecordIsAhead'
    BY <1>1, <1>2, <2>2, <2>3 DEF NoRecordIsAhead
  <2>7. LoadedIsTrue'
    <3>1. CASE op.kind \in {"install", "update"}
      <4>1. \A p \in Bundled \ {at} : loaded'[p] = registry[p]
        BY <1>1, <1>2, <2>3, <3>1 DEF LoadedIsTrue
      <4>2. \A p \in Bundled : Vouches(loaded, p)'
        BY <1>2, <1>5, <1>6, <4>1 DEF Vouches
      <4> QED
        BY <2>1, <3>1, <4>2 DEF LoadedIsTrue
    <3>2. CASE op.kind \in Syncing
      <4>1. at \in Bundled \ todo /\ old = loaded /\ todo' = todo /\ todo \subseteq Bundled
        BY <1>1, <1>2, <2>1, <3>2 DEF Stages, PluginTypes
      <4>2. \A p \in todo : loaded'[p] = registry'[p]
        BY <1>1, <1>2, <2>3, <3>2, <4>1 DEF LoadedIsTrue
      <4>3. Synced(loaded, Bundled \ todo)'
        <5>1. Synced(loaded, {p \in Bundled \ todo : p # at})
          BY <1>1, <1>2, <3>2 DEF LoadedIsTrue
        <5> SUFFICES ASSUME NEW p \in Bundled \ todo', p \notin halfUpdated', source'[p] # 0
                     PROVE  loaded'[p] = source'[p] /\ Whole(p)'
          BY DEF Synced
        <5>2. CASE p = at
          BY <1>2, <1>5, <2>3, <5>2
        <5>3. CASE p # at
          BY <1>2, <1>5, <2>3, <4>1, <5>1, <5>3 DEF Synced
        <5> QED
          BY <5>2, <5>3
      <4> QED
        BY <2>1, <3>2, <4>2, <4>3 DEF LoadedIsTrue, Synced
    <3> QED
      BY <1>2, <3>1, <3>2
  <2>8. Vouched'
    BY <1>6, <2>1 DEF Vouched
  <2> QED
    BY <1>7, <2>4, <2>5, <2>6, <2>7, <2>8 DEF PluginInv
<1> QED
  BY <1>8, <1>9

\* What the operation holds becomes the registry.
LEMMA StoreRegistryKeeps ==
    ASSUME PluginInv, Manager!StoreRegistry
    PROVE  PluginInv'
<1> USE DEF Plugin, Syncing
<1>1. PluginTypes /\ Stages /\ NoRecordIsAhead /\ Vouched /\ LoadedIsTrue /\ OffIsOff
  BY DEF PluginInv
<1>2. /\ step = "store" /\ registry' = loaded
      /\ op.kind \in Syncing \cup {"install", "uninstall", "update"}
      /\ UNCHANGED <<source, invalid, dir, off, settingsCut, halfUpdated, torn, enabled>>
  BY <1>1 DEF Manager!StoreRegistry, Manager!worldVars, Manager!historyVars, Stages
<1>3. \A p \in Bundled : Vouches(registry, p)'
  BY <1>1, <1>2 DEF LoadedIsTrue, Vouches, Whole
<1>4. OffIsOff'
  BY <1>1, <1>2 DEF OffIsOff
<1>5. CASE op.kind = "update"
  <2>1. Manager!EndOp
    BY <1>5 DEF Manager!StoreRegistry
  <2>2. /\ loaded' \in [Plugin -> Nat] /\ todo' \subseteq Bundled /\ changed' \in BOOLEAN
        /\ step' = "idle" /\ \A p \in Bundled : loaded'[p] = 0
    BY <1>1, <2>1, EndOpKeeps
  <2>3. PluginTypes'
    BY <1>1, <1>2, <2>2 DEF PluginTypes
  <2> QED
    BY <1>1, <1>2, <1>3, <1>4, <2>2, <2>3, IdleKeeps DEF NoRecordIsAhead
<1>6. CASE op.kind # "update"
  <2>1. /\ \/ op.kind \in {"install", "uninstall"} /\ step' = "settings"
           \/ op.kind \in Syncing /\ step' \in {"discover", "check"}
        /\ changed' = FALSE /\ UNCHANGED <<op, at, todo, loaded>>
    BY <1>2, <1>6 DEF Manager!StoreRegistry
  <2>2. PluginTypes'
    BY <1>1, <1>2, <2>1 DEF PluginTypes
  <2>3. Stages'
    BY <1>1, <1>2, <1>6, <2>1 DEF Stages
  <2>4. NoRecordIsAhead'
    BY <1>1, <1>2, <2>1 DEF NoRecordIsAhead
  <2>5. Vouched'
    BY <1>3, <2>1 DEF Vouched
  <2>6. op.kind \in Syncing => Synced(registry, Bundled)'
    BY <1>1, <1>2 DEF LoadedIsTrue, Synced, Whole
  <2>7. LoadedIsTrue'
    BY <2>1, <2>6 DEF LoadedIsTrue
  <2> QED
    BY <1>4, <2>2, <2>3, <2>4, <2>5, <2>7 DEF PluginInv
<1> QED
  BY <1>5, <1>6

\* A plugin without a manifest is forgotten: none of the copies a sync leaves.
LEMMA DiscoverKeeps ==
    ASSUME PluginInv, Manager!Discover
    PROVE  PluginInv'
<1> USE DEF Manager!worldVars, Manager!diskVars, Manager!opVars, Manager!historyVars,
            Manager!Asked, Manager!Plugin, Plugin, Syncing, Manager!HasManifest, Files
<1>1. PluginTypes /\ Stages /\ NoRecordIsAhead /\ Vouched /\ LoadedIsTrue /\ OffIsOff
  BY DEF PluginInv
<1> USE DEF Manager!Discover
<1>2. PluginTypes'
  BY <1>1 DEF PluginTypes
<1>3. Stages'
  BY <1>1 DEF PluginTypes, Stages
<1>4. NoRecordIsAhead'
  BY <1>1 DEF PluginTypes, NoRecordIsAhead
<1>5. Vouched'
  BY <1>1 DEF PluginTypes, Stages, Vouched, Vouches, Whole
<1>6. LoadedIsTrue'
  BY <1>1 DEF PluginTypes, Stages, Vouched, Vouches, Whole, LoadedIsTrue, Synced
<1>7. OffIsOff'
  BY <1>1 DEF PluginTypes, OffIsOff, Stages
<1> QED
  BY <1>2, <1>3, <1>4, <1>5, <1>6, <1>7 DEF PluginInv

\* The check changes no file.
LEMMA CheckKeeps ==
    ASSUME PluginInv, Manager!Check
    PROVE  PluginInv'
<1> USE DEF Plugin, Syncing
<1>1. PluginTypes /\ Stages /\ NoRecordIsAhead /\ Vouched /\ LoadedIsTrue /\ OffIsOff
  BY DEF PluginInv
<1>2. /\ step = "check" /\ op.kind \in Syncing
      /\ UNCHANGED <<source, invalid, dir, registry, enabled, torn, off, settingsCut,
                     halfUpdated>>
  BY <1>1 DEF Manager!Check, Manager!worldVars, Manager!diskVars, Manager!historyVars, Stages
<1>3. (\A p \in Bundled : Vouches(registry, p)') /\ OffIsOff'
  BY <1>1, <1>2 DEF Vouched, Vouches, Whole, OffIsOff
<1>4. CASE Manager!EndOp
  <2>2. /\ loaded' \in [Plugin -> Nat] /\ todo' \subseteq Bundled /\ changed' \in BOOLEAN
        /\ step' = "idle" /\ \A p \in Bundled : loaded'[p] = 0
    BY <1>1, <1>4, EndOpKeeps
  <2>3. PluginTypes'
    BY <1>1, <1>2, <2>2 DEF PluginTypes
  <2> QED
    BY <1>1, <1>2, <1>3, <2>2, <2>3, IdleKeeps DEF NoRecordIsAhead
<1>5. CASE op.kind # "start" /\ step' = "settings" /\ UNCHANGED <<op, at, todo, changed, loaded>>
  <2>1. PluginTypes' /\ Stages' /\ NoRecordIsAhead'
    BY <1>1, <1>2, <1>5 DEF PluginTypes, Stages, NoRecordIsAhead
  <2> QED
    BY <1>3, <1>5, <2>1 DEF PluginInv, Vouched, LoadedIsTrue
<1> QED
  BY <1>4, <1>5 DEF Manager!Check

\* The answer to the user: from here the settings say what was asked.
LEMMA WriteSettingsKeeps ==
    ASSUME PluginInv, Manager!WriteSettings
    PROVE  PluginInv'
<1> USE DEF Plugin, Syncing
<1>1. PluginTypes /\ Stages /\ NoRecordIsAhead /\ Vouched /\ LoadedIsTrue /\ OffIsOff
  BY DEF PluginInv
<1>2. /\ step = "settings" /\ op.kind \in {"install", "uninstall", "enable", "disable"}
      /\ op.plugin \in Plugin /\ op.plugin \notin off
      /\ op.kind = "uninstall" => op.plugin \in External
      /\ UNCHANGED <<source, invalid, dir, registry, torn, settingsCut, halfUpdated>>
      /\ Manager!EndOp
  BY <1>1 DEF Manager!WriteSettings, Manager!worldVars, Stages
<1>3. \A p \in Bundled : Vouches(registry, p)'
  BY <1>1, <1>2 DEF Vouched, Vouches, Whole
<1>4. /\ loaded' \in [Plugin -> Nat] /\ todo' \subseteq Bundled /\ changed' \in BOOLEAN
      /\ step' = "idle" /\ \A p \in Bundled : loaded'[p] = 0
  BY <1>1, <1>2, EndOpKeeps
<1>5. \/ UNCHANGED <<enabled, off>>
      \/ /\ enabled' = [enabled EXCEPT ![op.plugin] =
               IF op.kind \in {"install", "enable"} THEN "on"
               ELSE IF op.kind = "disable" THEN "off" ELSE "none"]
         /\ off' = off \cup (IF op.kind \in {"disable", "uninstall"} THEN {op.plugin} ELSE {})
  BY <1>2 DEF Manager!WriteSettings, Manager!Switch
<1>6. OffIsOff' /\ enabled' \in [Plugin -> {"on", "off", "none"}] /\ off' \subseteq Plugin
  BY <1>1, <1>2, <1>5, PluginsAreApart DEF PluginTypes, OffIsOff
<1>7. PluginTypes'
  BY <1>1, <1>2, <1>4, <1>6 DEF PluginTypes
<1> QED
  BY <1>1, <1>2, <1>3, <1>4, <1>6, <1>7, IdleKeeps DEF NoRecordIsAhead

\* A copy cut short: only an update leaves the record of that copy current.
LEMMA CutDirectoryKeeps ==
    ASSUME PluginInv, Manager!CutDirectory
    PROVE  PluginInv'
<1> USE DEF Plugin, Syncing
<1>1. PluginTypes /\ Stages /\ NoRecordIsAhead /\ Vouched /\ LoadedIsTrue /\ OffIsOff
  BY DEF PluginInv
<1>2. /\ step \in {"remove", "copy"} /\ at \in Plugin
      /\ op.kind \in Syncing \cup {"install", "uninstall", "update"}
      /\ UNCHANGED <<source, invalid, registry, enabled, torn, off, settingsCut>>
      /\ Manager!EndOp
      /\ halfUpdated' = IF op.kind = "update" THEN halfUpdated \cup {at} ELSE halfUpdated
  BY <1>1 DEF Manager!CutDirectory, Manager!worldVars, Stages
<1>3. PICK files \in SUBSET Files : 
        dir' = [dir EXCEPT ![at] = [version |-> IF step = "remove" THEN dir[at].version
                                                ELSE source[at], files |-> files]]
  BY <1>1, <1>2
     DEF Manager!CutDirectory, PluginTypes, Manager!Contents, Manager!File, Files
<1>4. /\ loaded' \in [Plugin -> Nat] /\ todo' \subseteq Bundled /\ changed' \in BOOLEAN
      /\ step' = "idle" /\ \A p \in Bundled : loaded'[p] = 0
  BY <1>1, <1>2, EndOpKeeps
<1>5. PluginTypes'
  <2>1. source[at] \in Nat /\ dir[at].version \in Nat
    BY <1>1, <1>2 DEF PluginTypes
  <2>2. dir' \in [Plugin -> [version : Nat, files : SUBSET Files]]
    BY <1>1, <1>2, <1>3, <2>1 DEF PluginTypes
  <2> QED
    BY <1>1, <1>2, <1>4, <2>2 DEF PluginTypes
<1>6. \A p \in Plugin \ {at} : dir'[p] = dir[p]
  BY <1>1, <1>3 DEF PluginTypes
<1>7. \A p \in Bundled \ {at} : Vouches(registry, p)'
  BY <1>1, <1>2, <1>6 DEF Vouched, Vouches, Whole
<1>8. ASSUME NEW p \in Bundled, p = at PROVE Vouches(registry, p)'
  <2>1. CASE op.kind \in {"install", "uninstall"}
    BY <1>1, <1>2, <1>8, <2>1, PluginsAreApart DEF Stages
  <2>2. CASE op.kind = "update"
    BY <1>2, <1>8, <2>2 DEF Vouches
  <2>3. CASE op.kind \in Syncing
    BY <1>1, <1>2, <1>8, <2>3 DEF Vouched, Vouches
  <2> QED
    BY <1>2, <2>1, <2>2, <2>3
<1>9. OffIsOff'
  BY <1>1, <1>2 DEF OffIsOff
<1> QED
  BY <1>1, <1>2, <1>4, <1>5, <1>7, <1>8, <1>9, IdleKeeps DEF NoRecordIsAhead

\* A registry cut short vouches for less.
LEMMA CutRegistryKeeps ==
    ASSUME PluginInv, Manager!CutRegistry
    PROVE  PluginInv'
<1> USE DEF Plugin, Syncing
<1>1. PluginTypes /\ Stages /\ NoRecordIsAhead /\ Vouched /\ LoadedIsTrue /\ OffIsOff
  BY DEF PluginInv
<1>2. /\ step = "store" /\ Manager!EndOp
      /\ UNCHANGED <<source, invalid, dir, enabled, off, settingsCut, halfUpdated>>
      /\ registry' \in {registry, [p \in Plugin |-> 0]}
      /\ "settings" \in torn' => "settings" \in torn
  BY DEF Manager!CutRegistry, Manager!worldVars, Manager!historyVars, Manager!NoRecords,
         Manager!Plugin
<1>3. registry' \in [Plugin -> Nat] /\ \A p \in Plugin : registry'[p] \in {registry[p], 0}
  BY <1>1, <1>2 DEF PluginTypes
<1>4. \A p \in Bundled : Vouches(registry, p)'
  BY <1>1, <1>2, <1>3 DEF Vouched, Vouches, Whole
<1>5. /\ loaded' \in [Plugin -> Nat] /\ todo' \subseteq Bundled /\ changed' \in BOOLEAN
      /\ step' = "idle" /\ \A p \in Bundled : loaded'[p] = 0
  BY <1>1, <1>2, EndOpKeeps
<1>6. PluginTypes'
  BY <1>1, <1>2, <1>3, <1>5 DEF PluginTypes
<1>7. \A p \in Bundled : source'[p] # 0 => registry'[p] <= source'[p]
  BY <1>1, <1>2, <1>3 DEF NoRecordIsAhead, PluginTypes
<1>8. OffIsOff'
  BY <1>1, <1>2 DEF OffIsOff
<1> QED
  BY <1>4, <1>5, <1>6, <1>7, <1>8, IdleKeeps

\* Settings cut short are what the promise about them makes an exception of.
LEMMA CutSettingsKeeps ==
    ASSUME PluginInv, Manager!CutSettings
    PROVE  PluginInv'
<1> USE DEF Manager!worldVars, Manager!diskVars, Manager!opVars, Manager!historyVars,
            Manager!Asked, Manager!Plugin, Plugin, Syncing, Manager!EndOp,
            Manager!NoRecords
<1>1. PluginTypes /\ Stages /\ NoRecordIsAhead /\ Vouched /\ LoadedIsTrue /\ OffIsOff
  BY DEF PluginInv
<1> USE DEF Manager!CutSettings
<1>2. PluginTypes'
  BY <1>1 DEF PluginTypes
<1>3. Stages'
  BY <1>1 DEF PluginTypes, Stages
<1>4. NoRecordIsAhead'
  BY <1>1 DEF PluginTypes, NoRecordIsAhead
<1>5. Vouched'
  BY <1>1 DEF PluginTypes, Stages, Vouched, Vouches, Whole
<1>6. LoadedIsTrue'
  BY <1>1 DEF PluginTypes, Stages, Vouched, Vouches, Whole, LoadedIsTrue, Synced
<1>7. OffIsOff'
  BY <1>1 DEF PluginTypes, OffIsOff, Stages
<1> QED
  BY <1>2, <1>3, <1>4, <1>5, <1>6, <1>7 DEF PluginInv

\* What changes between two operations.
LEMMA DeleteTornKeeps ==
    ASSUME PluginInv, Manager!DeleteTorn
    PROVE  PluginInv'
<1> USE DEF Manager!worldVars, Manager!diskVars, Manager!opVars, Manager!historyVars,
            Manager!Asked, Manager!Plugin, Plugin, Manager!NoRecords
<1>1. PluginTypes /\ Stages /\ NoRecordIsAhead /\ Vouched /\ LoadedIsTrue /\ OffIsOff
  BY DEF PluginInv
<1> USE DEF Manager!DeleteTorn
<1>2. PluginTypes'
  BY <1>1 DEF PluginTypes
<1>3. Stages'
  BY <1>1 DEF PluginTypes, Stages
<1>4. NoRecordIsAhead'
  BY <1>1 DEF PluginTypes, NoRecordIsAhead
<1>5. Vouched'
  BY <1>1 DEF PluginTypes, Stages, Vouched, Vouches, Whole
<1>6. LoadedIsTrue'
  BY <1>1 DEF PluginTypes, Stages, Vouched, Vouches, Whole, LoadedIsTrue, Synced
<1>7. OffIsOff'
  BY <1>1 DEF PluginTypes, OffIsOff, Stages
<1> QED
  BY <1>2, <1>3, <1>4, <1>5, <1>6, <1>7 DEF PluginInv

LEMMA SourceChangesKeeps ==
    ASSUME PluginInv, Manager!SourceChanges
    PROVE  PluginInv'
<1> USE DEF Plugin, Syncing
<1>1. PluginTypes /\ Stages /\ NoRecordIsAhead /\ Vouched /\ LoadedIsTrue /\ OffIsOff
  BY DEF PluginInv
<1>2. /\ step = "idle"
      /\ UNCHANGED <<dir, registry, enabled, torn, step, op, at, loaded, todo, changed, off,
                     settingsCut, halfUpdated>>
  BY DEF Manager!SourceChanges, Manager!diskVars, Manager!opVars, Manager!historyVars
<1>3. /\ source' \in [Plugin -> Nat] /\ invalid' \subseteq External
      /\ \A p \in External : source'[p] = source[p]
      /\ \A p \in Bundled : \/ source'[p] = source[p] \/ source'[p] = 0
                            \/ source[p] # 0 /\ source'[p] = source[p] + 1
  <2>1. CASE \E p \in Bundled : /\ source[p] \in 1..(MaxVersion - 1)
                                /\ source' = [source EXCEPT ![p] = @ + 1] /\ UNCHANGED invalid
    <3>1. PICK p \in Bundled : /\ source[p] \in 1..(MaxVersion - 1)
                               /\ source' = [source EXCEPT ![p] = @ + 1] /\ UNCHANGED invalid
      BY <2>1
    <3>2. source[p] \in Nat /\ source[p] + 1 \in Nat /\ source[p] # 0 /\ p \notin External
      BY <1>1, <3>1, PluginsAreApart DEF PluginTypes
    <3> QED
      BY <1>1, <3>1, <3>2 DEF PluginTypes
  <2>2. CASE \E p \in Bundled : source' = [source EXCEPT ![p] = 0] /\ UNCHANGED invalid
    BY <1>1, <2>2, PluginsAreApart DEF PluginTypes
  <2>3. CASE \E s \in SUBSET External : invalid' = s /\ UNCHANGED source
    BY <1>1, <2>3 DEF PluginTypes
  <2> QED
    BY <2>1, <2>2, <2>3 DEF Manager!SourceChanges
<1>4. PluginTypes'
  BY <1>1, <1>2, <1>3 DEF PluginTypes
<1>5. \A p \in Bundled : source[p] \in Nat /\ registry[p] \in Nat /\ loaded[p] \in Nat
  BY <1>1 DEF PluginTypes
<1>6. NoRecordIsAhead'
  BY <1>1, <1>2, <1>3, <1>5 DEF NoRecordIsAhead
<1>7. \A p \in Bundled : Vouches(registry, p)'
  BY <1>1, <1>2, <1>3, <1>5 DEF NoRecordIsAhead, Vouched, Vouches, Whole
<1>8. Stages' /\ Vouched' /\ LoadedIsTrue' /\ OffIsOff'
  BY <1>1, <1>2, <1>7 DEF Stages, Vouched, LoadedIsTrue, OffIsOff
<1> QED
  BY <1>4, <1>6, <1>8 DEF PluginInv

\* Every step of the manager keeps it.
LEMMA ManagerNextKeeps ==
    ASSUME PluginInv, [Manager!Next]_pluginVars
    PROVE  PluginInv'
<1>1. CASE Manager!Begin
  <2>1. CASE \E p \in Manager!Plugin : \/ Manager!BeginInstall(p) \/ Manager!BeginUpdate(p)
                                       \/ Manager!BeginUninstall(p)
    BY <2>1, BeginInstallKeeps, BeginUpdateKeeps, BeginUninstallKeeps
  <2>2. CASE \E kind \in {"enable", "disable"}, p \in Manager!Plugin : Manager!BeginSwitch(kind, p)
    BY <2>2, BeginSwitchKeeps
  <2>3. CASE Manager!BeginStart
    BY <2>3, BeginStartKeeps
  <2> QED
    BY <1>1, <2>1, <2>2, <2>3 DEF Manager!Begin
<1>2. CASE Manager!Step
  BY <1>2, SyncNextKeeps, SyncDoneKeeps, RemoveCopyKeeps, CopySourceKeeps, StoreRegistryKeeps,
     DiscoverKeeps, CheckKeeps, WriteSettingsKeeps DEF Manager!Step
<1>3. CASE Manager!Cut
  BY <1>3, CutDirectoryKeeps, CutRegistryKeeps, CutSettingsKeeps DEF Manager!Cut
<1>4. CASE Manager!DeleteTorn \/ Manager!SourceChanges
  BY <1>4, DeleteTornKeeps, SourceChangesKeeps
<1>5. CASE UNCHANGED pluginVars
  BY <1>5 DEF pluginVars, PluginInv, PluginTypes, Stages, NoRecordIsAhead, Vouched, Vouches,
              Whole, LoadedIsTrue, Synced, OffIsOff
<1> QED
  BY <1>1, <1>2, <1>3, <1>4, <1>5 DEF Manager!Next

\* A program that starts has nothing loaded until it has checked its plugins.
NothingRuns == step # "idle" /\ op.kind = "start" => running = {}

\* Nothing but the check loads plugins.
LEMMA NothingRunsKeeps ==
    ASSUME NothingRuns, [Manager!Next]_pluginVars
    PROVE  NothingRuns'
<1> USE DEF NothingRuns
<1>1. CASE Manager!Begin
  BY <1>1 DEF Manager!Begin, Manager!BeginInstall, Manager!BeginUpdate, Manager!BeginUninstall,
              Manager!BeginSwitch, Manager!BeginStart
<1>2. CASE Manager!Step
  <2>1. CASE Manager!SyncNext \/ Manager!SyncDone \/ Manager!RemoveCopy \/ Manager!Discover
    BY <2>1 DEF Manager!SyncNext, Manager!SyncDone, Manager!RemoveCopy, Manager!Discover
  <2>2. CASE Manager!CopySource \/ Manager!StoreRegistry
    BY <2>2 DEF Manager!CopySource, Manager!StoreRegistry, Manager!EndOp
  <2>3. CASE Manager!Check \/ Manager!WriteSettings
    BY <2>3 DEF Manager!Check, Manager!WriteSettings, Manager!EndOp
  <2> QED
    BY <1>2, <2>1, <2>2, <2>3 DEF Manager!Step
<1>3. CASE Manager!Cut
  BY <1>3 DEF Manager!Cut, Manager!CutDirectory, Manager!CutRegistry, Manager!CutSettings,
              Manager!EndOp
<1>4. CASE Manager!DeleteTorn \/ Manager!SourceChanges
  BY <1>4 DEF Manager!DeleteTorn, Manager!SourceChanges, Manager!opVars
<1>5. CASE UNCHANGED pluginVars
  BY <1>5 DEF pluginVars
<1> QED
  BY <1>1, <1>2, <1>3, <1>4, <1>5 DEF Manager!Next

\* What a start loads is not off.
LEMMA StartLoadsWhatIsOn ==
    ASSUME PluginInv, NothingRuns, Manager!Next, step = "check", op.kind = "start", ~settingsCut,
           NEW p \in running'
    PROVE  p \notin off
<1>1. Manager!Check
  BY DEF Manager!Next, Manager!Begin, Manager!BeginInstall, Manager!BeginUpdate,
         Manager!BeginUninstall, Manager!BeginSwitch, Manager!BeginStart, Manager!Step,
         Manager!SyncNext, Manager!SyncDone, Manager!RemoveCopy, Manager!CopySource,
         Manager!StoreRegistry, Manager!Discover, Manager!WriteSettings, Manager!Cut,
         Manager!CutDirectory, Manager!CutRegistry, Manager!CutSettings, Manager!DeleteTorn,
         Manager!SourceChanges
<1>2. running = {}
  BY DEF NothingRuns
<1>3. p \in Plugin /\ Manager!IsEnabled(p)
  BY <1>1, <1>2 DEF Manager!Check, Manager!Plugin, Plugin
<1> QED
  BY <1>3 DEF PluginInv, OffIsOff, Manager!IsEnabled

EachInv == PluginInv /\ NothingRuns

\* Each step of EachNext is a step of the manager or leaves it alone.
LEMMA PluginsAlong == EachSpec => []EachInv
<1>1. EachInit => EachInv
  BY PluginsStart DEF EachInit, EachInv, NothingRuns, Manager!Init
<1>2. EachInv /\ [EachNext]_eachVars => EachInv'
  BY ManagerNextKeeps, NothingRunsKeeps DEF EachInv, EachNext, eachVars, pluginVars
<1> QED
  BY <1>1, <1>2, PTL DEF EachSpec

\* Plugins: a sync that gets through leaves the whole of the current version of
\* every bundled plugin, and its record.
THEOREM BundledStayWhole == EachSpec => []BundledCopiesAreWhole
<1>1. EachInv => BundledCopiesAreWhole
  BY DEF EachInv, PluginInv, LoadedIsTrue, Synced, Whole, BundledCopiesAreWhole,
         Manager!BundledCopiesAreWhole, Manager!File, Files
<1> QED
  BY <1>1, PluginsAlong, PTL

\* Plugins: what the user switched off is not loaded by a later start, unless a
\* write of the settings was cut.
THEOREM OffStaysOff == EachSpec => SwitchedOffStaysOff
<1> DEFINE A == step = "check" /\ op.kind = "start" /\ ~settingsCut
                   => \A p \in running' : p \notin off
           mvars == Manager!vars
<1>1. EachInv /\ [EachNext]_eachVars => [A]_mvars
  BY StartLoadsWhatIsOn
     DEF EachInv, EachNext, eachVars, pluginVars, Manager!vars, Manager!worldVars,
         Manager!diskVars, Manager!opVars, Manager!historyVars
<1>2. EachSpec => [][A]_mvars
  BY <1>1, PluginsAlong, PTL DEF EachSpec
<1> QED
  BY <1>2 DEF SwitchedOffStaysOff, Manager!SwitchedOffStaysOff
=============================================================================
