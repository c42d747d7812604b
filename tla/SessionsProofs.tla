--------------------------- MODULE SessionsProofs ---------------------------
(***************************************************************************)
(* Theorems about Sessions, for any number of sessions, rotated copies and *)
(* prompts.  The invariant adds to the two properties which names are free *)
(* and what is lost when the program is killed: nothing but what was given *)
(* up, since an open session without a file has nothing else to say.       *)
(***************************************************************************)
EXTENDS Sessions, TLAPS

Store == [Name -> Session \cup {Nothing}]

\* What the files of a store hold.
Said(files) == {n \in PromptNo : \E f \in Name : files[f] # Nothing /\ n \in files[f].said}

\* Names above top are free.
FreeAbove(files, top) == \A f \in Name : f > top => files[f] = Nothing

OpenIsTyped ==
    Open => /\ handle \in [id : Name, path : Name] /\ runtime \in Session
            /\ log \in Name /\ log <= names

NothingElseToLose == Open /\ store[log] = Nothing => runtime.said \subseteq givenUp

IInv ==
    /\ TypeOK /\ OpenIsTyped /\ OneSessionIsOpen /\ NothingElseToLose
    /\ FreeAbove(store, names)
    /\ answered \subseteq 1..now
    /\ answered \ givenUp \subseteq Said(store)

----------------------------------------------------------------------------
LEMMA SessionIsSomething == ASSUME NEW s \in Session PROVE s # Nothing
<1>1. s.id \in Name
  BY DEF Session
<1>2. s.id # 0
  BY <1>1 DEF Name
<1>3. [id |-> 0].id = 0
  OBVIOUS
<1> QED
  BY <1>2, <1>3 DEF Nothing

\* A save takes from the directory at most what the file held and the session
\* saved does not.
LEMMA SaveKeeps ==
  ASSUME MaxNames \in Nat, NEW files \in Store, NEW given \in 0..MaxNames,
         FreeAbove(files, given),
         NEW path \in Name, path <= given, NEW session \in Session,
         SaveIn(files, given, path, session),
         NEW lost, files[path] = Nothing \/ files[path].said \subseteq session.said \cup lost
  PROVE  /\ store' \in Store /\ names' \in 0..MaxNames /\ given <= names'
         /\ FreeAbove(store', names')
         /\ store'[path] = session
         /\ Said(files) \subseteq Said(store') \cup lost
<1>1. session # Nothing
  BY SessionIsSomething
<1>2. CASE store' = [files EXCEPT ![path] = session] /\ names' = given
  <2>1. /\ store' \in Store /\ store'[path] = session
        /\ \A f \in Name : f # path => store'[f] = files[f]
    BY <1>2 DEF Store
  <2>2. FreeAbove(store', names')
    BY <1>2, <2>1 DEF FreeAbove, Name
  <2>3. ASSUME NEW n \in Said(files) PROVE n \in Said(store') \cup lost
    <3>1. PICK f \in Name : files[f] # Nothing /\ n \in files[f].said
      BY <2>3 DEF Said
    <3>2. CASE f = path
      BY <1>1, <2>1, <2>3, <3>1, <3>2 DEF Said
    <3>3. CASE f # path
      BY <2>1, <2>3, <3>1, <3>3 DEF Said
    <3> QED
      BY <3>2, <3>3
  <2>4. names' \in 0..MaxNames /\ given <= names'
    BY <1>2
  <2> QED
    BY <2>1, <2>2, <2>3, <2>4
<1>3. CASE /\ files[path] # Nothing /\ given < MaxNames
           /\ store' = [files EXCEPT ![path] = session, ![given + 1] = files[path]]
           /\ names' = given + 1
  <2>1. given + 1 \in Name /\ given + 1 # path
    BY <1>3 DEF Name
  <2>2. /\ store' \in Store /\ store'[path] = session /\ store'[given + 1] = files[path]
        /\ \A f \in Name : f # path /\ f # given + 1 => store'[f] = files[f]
    BY <1>3, <2>1 DEF Store
  <2>3. FreeAbove(store', names')
    <3>1. ASSUME NEW f \in Name, f > names'
          PROVE f # path /\ f # given + 1 /\ f > given
      BY <1>3, <3>1 DEF Name
    <3> QED
      BY <2>2, <3>1 DEF FreeAbove
  <2>4. files[given + 1] = Nothing
    <3>1. given + 1 > given
      OBVIOUS
    <3> QED
      BY <2>1, <3>1 DEF FreeAbove
  <2>5. ASSUME NEW n \in Said(files) PROVE n \in Said(store')
    <3>1. PICK f \in Name : files[f] # Nothing /\ n \in files[f].said
      BY <2>5 DEF Said
    <3>2. CASE f = path
      BY <1>3, <2>1, <2>2, <2>5, <3>1, <3>2 DEF Said
    <3>3. CASE f # path
      BY <2>2, <2>4, <2>5, <3>1, <3>3 DEF Said
    <3> QED
      BY <3>2, <3>3
  <2>6. names' \in 0..MaxNames /\ given <= names'
    BY <1>3
  <2> QED
    BY <2>2, <2>3, <2>5, <2>6
<1> QED
  BY <1>2, <1>3 DEF SaveIn

\* The first save of a session takes nothing away.
LEMMA SaveNewKeeps ==
  ASSUME MaxNames \in Nat, store \in Store, names \in 0..MaxNames,
         FreeAbove(store, names), NewName, NEW session \in Session, SaveNew(session)
  PROVE  /\ store' \in Store /\ names' \in 0..MaxNames /\ names' \in Name
         /\ names <= names' /\ FreeAbove(store', names')
         /\ store'[names'] = session
         /\ Said(store) \subseteq Said(store')
<1>1. names' = names + 1 /\ names' \in 0..MaxNames /\ names' \in Name
  BY DEF NewName, Name
<1>2. /\ store' \in Store /\ store'[names'] = session
      /\ \A f \in Name : f # names' => store'[f] = store[f]
  BY <1>1 DEF SaveNew, Store
<1>3. FreeAbove(store', names')
  BY <1>1, <1>2 DEF FreeAbove, Name
<1>4. store[names'] = Nothing
  BY <1>1 DEF FreeAbove
<1>5. Said(store) \subseteq Said(store')
  BY <1>2, <1>4 DEF Said
<1> QED
  BY <1>1, <1>2, <1>3, <1>5

\* What a turn appends takes nothing away either, and is the new prompt.
LEMMA AppendKeeps ==
  ASSUME IInv, Asks, MaxPrompts \in Nat
  PROVE  /\ Appended \in Store /\ FreeAbove(Appended, names)
         /\ now' \in PromptNo /\ now' \notin answered /\ now <= now'
         /\ Appended[log].said = runtime.said \cup {now'}
         /\ Appended[log] # Nothing
         /\ Said(store) \subseteq Said(Appended)
<1>1. now' \in PromptNo /\ now' \notin answered /\ now <= now'
  BY DEF IInv, TypeOK, Asks, PromptNo
<1>2. /\ log \in Name /\ log <= names /\ runtime \in Session
      /\ store \in Store /\ FreeAbove(store, names)
      /\ store[log] \in {Nothing, runtime}
  BY DEF IInv, TypeOK, OpenIsTyped, OneSessionIsOpen, Asks, Store
<1> DEFINE grown == [runtime EXCEPT !.said = @ \cup {now'}]
<1>3. grown \in Session /\ grown.said = runtime.said \cup {now'}
  BY <1>1, <1>2 DEF Session
<1>4. Appended = [store EXCEPT ![log] = grown]
  <2>1. CASE store[log] = Nothing
    BY <2>1 DEF Appended
  <2>2. CASE store[log] # Nothing
    BY <1>2, <2>2 DEF Appended
  <2> QED
    BY <2>1, <2>2
<1>5. /\ Appended \in Store /\ Appended[log] = grown
      /\ \A f \in Name : f # log => Appended[f] = store[f]
  BY <1>2, <1>3, <1>4 DEF Store
<1>6. grown # Nothing
  BY <1>3, SessionIsSomething
<1>7. FreeAbove(Appended, names)
  <2>1. ASSUME NEW f \in Name, f > names PROVE f # log
    BY <1>2, <2>1 DEF IInv, TypeOK, Name
  <2> QED
    BY <1>2, <1>5, <2>1 DEF FreeAbove
<1>8. Said(store) \subseteq Said(Appended)
  BY <1>2, <1>3, <1>5, <1>6 DEF Said
<1> QED
  BY <1>1, <1>3, <1>5, <1>6, <1>7, <1>8

----------------------------------------------------------------------------
(* What is left to show of a step that ends closed, or open *)

Counted ==
    /\ now \in 0..MaxPrompts /\ answered \subseteq 1..now /\ givenUp \subseteq PromptNo
    /\ answered \ givenUp \subseteq Said(store)

Filed == store \in Store /\ names \in 0..MaxNames /\ FreeAbove(store, names)

LEMMA Known == IInv => Counted /\ Filed
BY DEF IInv, TypeOK, Counted, Filed, Store

LEMMA ClosedIsGood ==
  ASSUME MaxPrompts \in Nat, Close, Filed', Counted'
  PROVE  IInv'
<1>1. ~Open'
  BY DEF Close, Open
<1>2. TypeOK'
  BY DEF Close, Filed, Counted, TypeOK, Store, Phase, NoHandle, Nothing, PromptNo
<1> QED
  BY <1>1, <1>2 DEF IInv, OpenIsTyped, OneSessionIsOpen, NothingElseToLose, Filed, Counted

LEMMA OpenIsGood ==
  ASSUME MaxPrompts \in Nat, Filed', Counted', phase' \in Phase,
         runtime' \in Session, log' \in Name, log' <= names',
         handle' = [id |-> runtime'.id, path |-> log'],
         store'[log'] \in {Nothing, runtime'},
         store'[log'] = Nothing => runtime'.said \subseteq givenUp'
  PROVE  IInv'
<1>1. handle' \in [id : Name, path : Name]
  BY DEF Session
<1>2. TypeOK'
  BY <1>1 DEF Filed, Counted, TypeOK, Store, PromptNo
<1> QED
  BY <1>1, <1>2 DEF IInv, OpenIsTyped, OneSessionIsOpen, NothingElseToLose, Filed, Counted

\* The open session: it is where the handle says, and nothing of it that
\* matters is outside its file.
LEMMA OpenIsKnown ==
  ASSUME IInv, Open
  PROVE  /\ runtime \in Session /\ log \in Name /\ log <= names
         /\ handle = [id |-> runtime.id, path |-> log] /\ handle.path = log
         /\ store[log] \in {Nothing, runtime}
         /\ store[log] = Nothing => runtime.said \subseteq givenUp
BY DEF IInv, OpenIsTyped, OneSessionIsOpen, NothingElseToLose

\* Saving the open session under its handle loses nothing.
LEMMA SaveOpenKeeps ==
  ASSUME MaxNames \in Nat, IInv, Open, Save(handle.path, runtime),
         UNCHANGED <<now, answered, givenUp>>
  PROVE  Filed' /\ Counted' /\ names <= names' /\ store'[log] = runtime
<1>1. /\ store \in Store /\ names \in 0..MaxNames /\ FreeAbove(store, names) /\ Counted
  BY Known DEF Filed
<1>2. store[log] = Nothing \/ store[log].said \subseteq runtime.said \cup {}
  BY OpenIsKnown
<1>3. SaveIn(store, names, log, runtime)
  BY OpenIsKnown DEF Save
<1>4. /\ store' \in Store /\ names' \in 0..MaxNames /\ FreeAbove(store', names')
      /\ names <= names' /\ store'[log] = runtime
      /\ Said(store) \subseteq Said(store') \cup {}
  BY <1>1, <1>2, <1>3, OpenIsKnown, SaveKeeps
<1> QED
  BY <1>1, <1>4 DEF Filed, Counted, Said

----------------------------------------------------------------------------
LEMMA InitIsGood == ASSUME MaxNames \in Nat, MaxPrompts \in Nat, Init PROVE IInv
<1>1. TypeOK
  BY DEF Init, TypeOK, Phase
<1>2. ~Open
  BY DEF Init, Open
<1>3. FreeAbove(store, names) /\ answered \subseteq 1..now
  BY DEF Init, FreeAbove
<1>4. answered \ givenUp \subseteq Said(store)
  BY DEF Init
<1> QED
  BY <1>1, <1>2, <1>3, <1>4
     DEF IInv, OpenIsTyped, OneSessionIsOpen, NothingElseToLose

\* A session that has just been made is one, and has nothing to lose.
LEMMA NewSessionIsOne ==
  ASSUME IInv, NEW id \in Name
  PROVE  NewSession(id) \in Session /\ NewSession(id).id = id /\ NewSession(id).said = {}
BY DEF IInv, TypeOK, NewSession, Session

LEMMA StartKeeps ==
  ASSUME MaxNames \in Nat, MaxPrompts \in Nat, IInv, Start PROVE IInv'
<1>1. Filed /\ Counted
  BY Known
<1>2. names' \in Name
  BY <1>1 DEF Start, NewName, Filed, Name
<1>3. PICK frontEnd \in Phase \ {"closed"} :
         /\ NewName /\ SaveNew(runtime') /\ phase' = frontEnd
         /\ handle' = [id |-> names', path |-> names'] /\ log' = names'
         /\ runtime' = NewSession(names')
         /\ UNCHANGED <<now, answered, givenUp>>
  BY DEF Start, Become
<1>4. runtime' \in Session /\ runtime'.id = names'
  BY <1>2, <1>3, NewSessionIsOne
<1>5. Filed' /\ store'[names'] = runtime' /\ Said(store) \subseteq Said(store')
  BY <1>1, <1>3, <1>4, SaveNewKeeps DEF Filed
<1>6. Counted'
  BY <1>1, <1>3, <1>5 DEF Counted, Said
<1>7. store'[names'] # Nothing
  BY <1>4, <1>5, SessionIsSomething
<1>8. names' <= names'
  BY <1>2 DEF Name
<1> QED
  BY <1>2, <1>3, <1>4, <1>5, <1>6, <1>7, <1>8, OpenIsGood

LEMMA ForkKeeps ==
  ASSUME MaxNames \in Nat, MaxPrompts \in Nat, IInv, Fork PROVE IInv'
<1> DEFINE forked == [runtime EXCEPT !.id = names', !.touched = now']
<1>1. Filed /\ Counted /\ Open /\ runtime \in Session
  BY Known, OpenIsKnown DEF Fork, Asks
<1>2. names' \in Name /\ names' <= names' /\ now' \in 0..MaxPrompts /\ now <= now'
  BY <1>1 DEF Fork, Asks, NewName, Filed, Counted, Name
<1>3. forked \in Session /\ forked.id = names'
  BY <1>1, <1>2 DEF Session
<1>4. /\ NewName /\ SaveNew(forked) /\ runtime' = forked
      /\ handle' = [id |-> names', path |-> names'] /\ log' = names'
      /\ UNCHANGED <<phase, answered, givenUp>>
  BY DEF Fork, Become
<1>5. Filed' /\ store'[names'] = forked /\ Said(store) \subseteq Said(store')
  BY <1>1, <1>3, <1>4, SaveNewKeeps DEF Filed
<1>6. Counted'
  BY <1>1, <1>2, <1>4, <1>5 DEF Counted, Said
<1>7. store'[names'] # Nothing /\ phase' \in Phase
  BY <1>3, <1>4, <1>5, SessionIsSomething DEF IInv, TypeOK
<1> QED
  BY <1>2, <1>3, <1>4, <1>5, <1>6, <1>7, OpenIsGood

\* A copy that cannot be opened takes nothing with it, and neither does the save
\* of the old session on the way out.
LEMMA ForkFailsKeeps ==
  ASSUME MaxNames \in Nat, MaxPrompts \in Nat, IInv, ForkFails PROVE IInv'
<1> DEFINE forked == [runtime EXCEPT !.id = names + 1, !.touched = now']
           copied == [store EXCEPT ![names + 1] = forked]
<1>1. /\ Filed /\ Counted /\ Open /\ runtime \in Session /\ log \in Name /\ log <= names
      /\ handle.path = log /\ store[log] \in {Nothing, runtime}
  BY Known, OpenIsKnown DEF ForkFails, Asks
<1>2. /\ names + 1 \in Name /\ names + 1 \in 0..MaxNames /\ names \in Nat
      /\ now' \in 0..MaxPrompts /\ now <= now' /\ now \in Nat
  BY <1>1 DEF ForkFails, Asks, Filed, Counted, Name
<1>3. forked \in Session
  BY <1>1, <1>2 DEF Session
<1>4. /\ Close /\ UNCHANGED <<answered, givenUp>>
      /\ \/ store' = copied /\ names' = names + 1
         \/ SaveIn(copied, names + 1, log, runtime)
  BY <1>1 DEF ForkFails
<1> HIDE DEF forked
<1>5. /\ copied \in Store /\ copied[names + 1] = forked
      /\ \A f \in Name : f # names + 1 => copied[f] = store[f]
  BY <1>1, <1>2, <1>3 DEF Filed, Store
<1> HIDE DEF copied
<1>6. FreeAbove(copied, names + 1)
  BY <1>1, <1>2, <1>5 DEF Filed, FreeAbove, Name
<1>7. Said(store) \subseteq Said(copied)
  <2>1. store[names + 1] = Nothing
    BY <1>1, <1>2 DEF Filed, FreeAbove
  <2> QED
    BY <1>5, <2>1 DEF Said
<1>8. copied[log] = store[log]
  BY <1>1, <1>2, <1>5
<1>9. Filed' /\ Said(copied) \subseteq Said(store')
  <2>1. CASE store' = copied /\ names' = names + 1
    BY <1>2, <1>5, <1>6, <2>1 DEF Filed, FreeAbove, Said
  <2>2. CASE SaveIn(copied, names + 1, log, runtime)
    <3>1. copied[log] = Nothing \/ copied[log].said \subseteq runtime.said \cup {}
      BY <1>1, <1>8
    <3>2. log <= names + 1
      BY <1>1, <1>2 DEF Name
    <3>3. /\ store' \in Store /\ names' \in 0..MaxNames /\ FreeAbove(store', names')
          /\ Said(copied) \subseteq Said(store') \cup {}
      BY <1>1, <1>2, <1>5, <1>6, <2>2, <3>1, <3>2, SaveKeeps
    <3> QED
      BY <3>3 DEF Filed, FreeAbove, Said
  <2> QED
    BY <1>4, <2>1, <2>2
<1>10. Counted'
  <2>1. answered' \subseteq 1..now' /\ givenUp' \subseteq PromptNo
    BY <1>1, <1>2, <1>4 DEF Counted
  <2>2. answered' \ givenUp' \subseteq Said(store')
    BY <1>1, <1>4, <1>7, <1>9 DEF Counted
  <2> QED
    BY <1>2, <2>1, <2>2 DEF Counted, Said
<1> QED
  BY <1>4, <1>9, <1>10, ClosedIsGood

LEMMA ClearKeeps ==
  ASSUME MaxNames \in Nat, MaxPrompts \in Nat, IInv, Clear PROVE IInv'
<1>1. Filed /\ Counted /\ phase \in Phase
  BY Known DEF IInv, TypeOK
<1>2. names' = names + 1 /\ names' \in Name /\ names' \in 0..MaxNames
  <2>1. names < MaxNames /\ names' = names + 1 /\ names \in 0..MaxNames
    BY <1>1 DEF Clear, NewName, Filed
  <2> QED
    BY <2>1 DEF Name
<1>3. /\ NewName /\ runtime' = NewSession(names')
      /\ handle' = [id |-> names', path |-> names'] /\ log' = names'
      /\ UNCHANGED <<phase, now, answered, givenUp>>
  BY DEF Clear, Become
<1>4. runtime' \in Session /\ runtime'.id = names' /\ runtime'.said = {}
  BY <1>2, <1>3, NewSessionIsOne
<1>5. CASE phase = "line editor"
  <2>1. Filed' /\ store'[names'] = runtime' /\ Said(store) \subseteq Said(store')
    BY <1>1, <1>3, <1>4, <1>5, SaveNewKeeps DEF Clear, Filed
  <2>2. Counted'
    BY <1>1, <1>3, <2>1 DEF Counted, Said
  <2> QED
    BY <1>1, <1>2, <1>3, <1>4, <2>1, <2>2, OpenIsGood DEF Name
<1>6. CASE phase # "line editor"
  <2>1. store' = store
    BY <1>6 DEF Clear
  <2>2. store'[names'] = Nothing
    BY <1>1, <1>2, <2>1 DEF Filed, FreeAbove
  <2>3. FreeAbove(store', names')
    BY <1>1, <1>2, <2>1 DEF Filed, FreeAbove, Name
  <2>4. Filed' /\ Counted'
    BY <1>1, <1>2, <1>3, <2>1, <2>3 DEF Filed, Counted
  <2> QED
    BY <1>1, <1>2, <1>3, <1>4, <2>2, <2>4, OpenIsGood DEF Name
<1> QED
  BY <1>5, <1>6

\* The runtime that could not be replaced goes under the new name, if anywhere.
LEMMA ClearFailsKeeps ==
  ASSUME MaxNames \in Nat, MaxPrompts \in Nat, IInv, ClearFails PROVE IInv'
<1>1. Filed /\ Counted /\ Open /\ runtime \in Session
  BY Known, OpenIsKnown DEF ClearFails
<1>2. names' = names + 1 /\ names' \in 0..MaxNames
  BY <1>1 DEF ClearFails, NewName, Filed
<1>3. CASE phase = "terminal"
  <2>1. Filed' /\ Said(store) \subseteq Said(store')
    BY <1>1, <1>3, SaveNewKeeps DEF ClearFails, Filed
  <2>2. Counted'
    BY <1>1, <2>1 DEF ClearFails, Counted, Said
  <2> QED
    BY <2>1, <2>2, ClosedIsGood DEF ClearFails
<1>4. CASE phase # "terminal"
  <2>1. store' = store
    BY <1>4 DEF ClearFails
  <2>2. FreeAbove(store', names')
    BY <1>1, <1>2, <2>1 DEF Filed, FreeAbove, Name
  <2>3. Filed' /\ Counted'
    BY <1>1, <1>2, <2>1, <2>2 DEF ClearFails, Filed, Counted
  <2> QED
    BY <2>3, ClosedIsGood DEF ClearFails
<1> QED
  BY <1>3, <1>4

\* An error of a command: what is saved is the open session, under its handle.
LEMMA ErrorKeeps ==
  ASSUME MaxNames \in Nat, MaxPrompts \in Nat, IInv, Open, EndInError(handle),
         UNCHANGED <<now, answered, givenUp>>
  PROVE  IInv'
<1>1. CASE phase = "terminal"
  BY <1>1, SaveOpenKeeps, ClosedIsGood DEF EndInError
<1>2. CASE phase # "terminal"
  <2>1. Filed' /\ Counted'
    BY <1>2, Known DEF EndInError, Filed, Counted
  <2> QED
    BY <2>1, ClosedIsGood DEF EndInError
<1> QED
  BY <1>1, <1>2

\* The count of prompts goes up, and what was answered stays below it.
LEMMA CountGoesUp ==
  ASSUME MaxPrompts \in Nat, NEW next \in PromptNo, NEW count \in Nat, count <= next,
         NEW replied \in SUBSET (1..count)
  PROVE  /\ next \in 0..MaxPrompts /\ replied \subseteq 1..next
         /\ replied \cup {next} \subseteq 1..next
<1>1. next \in 1..MaxPrompts
  BY DEF PromptNo
<1>2. \A n \in 1..count : n \in 1..next
  BY <1>1
<1>3. next \in 1..next
  BY <1>1
<1> QED
  BY <1>1, <1>2, <1>3

LEMMA TurnKeeps ==
  ASSUME MaxNames \in Nat, MaxPrompts \in Nat, IInv, Turn PROVE IInv'
<1>1. /\ Filed /\ Counted /\ Open /\ Asks /\ runtime \in Session /\ log \in Name
      /\ log <= names /\ handle = [id |-> runtime.id, path |-> log] /\ phase \in Phase
  BY Known, OpenIsKnown DEF Turn, Asks, IInv, TypeOK
<1>2. /\ Appended \in Store /\ FreeAbove(Appended, names)
      /\ now' \in PromptNo /\ now <= now'
      /\ Appended[log].said = runtime.said \cup {now'}
      /\ Said(store) \subseteq Said(Appended)
  BY <1>1, AppendKeeps
<1>3. /\ Say(runtime) \in Session /\ Say(runtime).said = runtime.said \cup {now'}
      /\ Say(runtime).id = runtime.id
  <2>1. now' \in 0..MaxPrompts
    BY <1>2 DEF PromptNo
  <2>2. runtime.said \cup {now'} \in SUBSET PromptNo
    BY <1>1, <1>2 DEF Session
  <2> QED
    BY <1>1, <2>1, <2>2 DEF Say, Session
<1>4. /\ SaveIn(Appended, names, log, Say(runtime)) /\ runtime' = Say(runtime)
      /\ UNCHANGED <<handle, log, phase, givenUp>> /\ answered' = answered \cup {now'}
  BY <1>1 DEF Turn
<1>5. Appended[log].said \subseteq Say(runtime).said \cup {}
  BY <1>2, <1>3
<1>6. /\ store' \in Store /\ names' \in 0..MaxNames /\ FreeAbove(store', names')
      /\ names <= names' /\ store'[log] = Say(runtime)
      /\ Said(Appended) \subseteq Said(store') \cup {}
  BY <1>1, <1>2, <1>3, <1>4, <1>5, SaveKeeps DEF Filed
<1>7. now' \in Said(store')
  BY <1>1, <1>2, <1>3, <1>6, SessionIsSomething DEF Said
<1>8. Counted'
  <2>1. now' \in 0..MaxPrompts /\ answered' \subseteq 1..now' /\ givenUp' \subseteq PromptNo
    BY <1>1, <1>2, <1>4, CountGoesUp DEF Counted
  <2>2. Said(store) \subseteq Said(store')
    BY <1>2, <1>6
  <2>3. answered' \ givenUp' \subseteq Said(store')
    BY <1>1, <1>4, <1>7, <2>2 DEF Counted
  <2> QED
    BY <2>1, <2>3 DEF Counted, Said
<1>9. log <= names'
  BY <1>1, <1>6 DEF Filed, Name
<1>10. Filed' /\ phase' \in Phase
  BY <1>1, <1>4, <1>6 DEF Filed, FreeAbove
<1>11. handle' = [id |-> runtime'.id, path |-> log']
  BY <1>1, <1>3, <1>4
<1>12. store'[log'] # Nothing /\ store'[log'] = runtime'
  BY <1>3, <1>4, <1>6, SessionIsSomething
<1> QED
  BY <1>1, <1>3, <1>4, <1>8, <1>9, <1>10, <1>11, <1>12, OpenIsGood

\* A turn that fails: its prompt may go again, since nobody has answered it.
LEMMA TurnFailsKeeps ==
  ASSUME MaxNames \in Nat, MaxPrompts \in Nat, IInv, TurnFails PROVE IInv'
<1>1. /\ Filed /\ Counted /\ Open /\ Asks /\ runtime \in Session /\ log \in Name
      /\ log <= names /\ handle.path = log
  BY Known, OpenIsKnown DEF TurnFails, Asks
<1>2. /\ Appended \in Store /\ FreeAbove(Appended, names)
      /\ now' \in PromptNo /\ now' \notin answered /\ now <= now'
      /\ Appended[log].said = runtime.said \cup {now'}
      /\ Said(store) \subseteq Said(Appended)
  BY <1>1, AppendKeeps
<1>3. UNCHANGED <<answered, givenUp>>
  BY DEF TurnFails
<1>4. CASE store' = Appended /\ names' = names
  <2>1. Filed' /\ Counted'
    BY <1>1, <1>2, <1>3, <1>4 DEF Filed, Counted, Said, PromptNo
  <2> QED
    BY <2>1, ClosedIsGood DEF TurnFails
<1>5. CASE SaveIn(Appended, names, log, runtime)
  <2>1. Appended[log].said \subseteq runtime.said \cup {now'}
    BY <1>2
  <2>2. /\ store' \in Store /\ names' \in 0..MaxNames /\ FreeAbove(store', names')
        /\ Said(Appended) \subseteq Said(store') \cup {now'}
    <3>1. names \in 0..MaxNames
      BY <1>1 DEF Filed
    <3> DEFINE unanswered == {now'}
    <3>2. Appended[log].said \subseteq runtime.said \cup unanswered
      BY <2>1
    <3> HIDE DEF unanswered
    <3>3. /\ store' \in Store /\ names' \in 0..MaxNames /\ FreeAbove(store', names')
          /\ Said(Appended) \subseteq Said(store') \cup unanswered
      BY <1>1, <1>2, <1>5, <3>1, <3>2, SaveKeeps DEF Filed
    <3> QED
      BY <3>3 DEF unanswered
  <2>3. Filed'
    BY <2>2 DEF Filed, FreeAbove
  <2>4. now' \in 0..MaxPrompts /\ answered' \subseteq 1..now' /\ givenUp' \subseteq PromptNo
    BY <1>1, <1>2, <1>3, CountGoesUp DEF Counted
  <2>5. answered' \ givenUp' \subseteq Said(store')
    BY <1>1, <1>2, <1>3, <2>2 DEF Counted
  <2>6. Counted'
    BY <2>4, <2>5 DEF Counted, Said
  <2> QED
    BY <2>3, <2>6, ClosedIsGood DEF TurnFails
<1> QED
  BY <1>1, <1>4, <1>5 DEF TurnFails

LEMMA ReloadKeeps ==
  ASSUME MaxNames \in Nat, MaxPrompts \in Nat, IInv, Reload PROVE IInv'
<1>1. Filed' /\ Counted' /\ names <= names' /\ store'[log] = runtime
  BY SaveOpenKeeps DEF Reload
<1>2. /\ runtime \in Session /\ log \in Name /\ log <= names
      /\ handle = [id |-> runtime.id, path |-> log] /\ runtime # Nothing
  BY OpenIsKnown, SessionIsSomething DEF Reload
<1>3. log <= names' /\ phase \in Phase
  BY <1>1, <1>2 DEF Filed, Name, IInv, TypeOK
<1> QED
  BY <1>1, <1>2, <1>3, OpenIsGood DEF Reload

\* What a reference leads to is a file.
LEMMA ResolvedIsAFile ==
  ASSUME IInv, NEW excluded, NEW h \in Resolved(excluded)
  PROVE  h.path \in Files /\ h.path \in Name /\ h.path <= names /\ store[h.path] \in Session
<1>1. h.path \in Files
  BY DEF Resolved, Latest
<1>2. h.path \in Name /\ store[h.path] # Nothing /\ store[h.path] \in Session
  BY <1>1 DEF Files, IInv, TypeOK
<1>3. h.path <= names
  BY <1>2 DEF IInv, FreeAbove, TypeOK, Name
<1> QED
  BY <1>1, <1>2, <1>3

LEMMA ResumeKeeps ==
  ASSUME MaxPrompts \in Nat, IInv, ResumeOrSwitch PROVE IInv'
<1>1. PICK excluded \in {handle.id, NoExclusion} : \E h \in Resolved(excluded) :
         /\ Become(LoadHandle(h), store[h.path])
         /\ UNCHANGED <<store, phase, names, now, answered, givenUp>>
  BY DEF ResumeOrSwitch
<1>2. PICK h \in Resolved(excluded) :
         /\ Become(LoadHandle(h), store[h.path])
         /\ UNCHANGED <<store, phase, names, now, answered, givenUp>>
  BY <1>1
<1>3. h.path \in Name /\ h.path <= names /\ store[h.path] \in Session
  BY ResolvedIsAFile
<1>4. /\ handle' = [id |-> store[h.path].id, path |-> h.path]
      /\ runtime' = store[h.path] /\ log' = h.path
  BY <1>2 DEF Become, LoadHandle
<1>5. Filed' /\ Counted' /\ phase' \in Phase /\ store' = store /\ names' = names
  BY <1>2, Known DEF Filed, Counted, IInv, TypeOK
<1>6. store'[log'] # Nothing
  BY <1>3, <1>4, <1>5, SessionIsSomething
<1> QED
  BY <1>3, <1>4, <1>5, <1>6, OpenIsGood

\* What deleting a file takes from the directory is given up.
LEMMA RemoveKeeps ==
  ASSUME IInv, NEW path \in Name, store[path] \in Session, Remove(path),
         UNCHANGED <<names, now, answered>>
  PROVE  /\ Filed' /\ Counted' /\ store'[path] = Nothing
         /\ \A f \in Name : f # path => store'[f] = store[f]
         /\ givenUp' = givenUp \cup store[path].said
<1>1. Filed /\ Counted
  BY Known
<1>2. /\ store' \in Store /\ store'[path] = Nothing
      /\ \A f \in Name : f # path => store'[f] = store[f]
      /\ givenUp' = givenUp \cup store[path].said
  BY <1>1 DEF Remove, Filed, Store
<1>3. Filed'
  BY <1>1, <1>2 DEF Filed, FreeAbove
<1>4. givenUp' \subseteq PromptNo
  BY <1>1, <1>2 DEF Counted, Session
<1>5. answered \ givenUp' \subseteq Said(store')
  BY <1>1, <1>2 DEF Counted, Said
<1> QED
  BY <1>1, <1>2, <1>3, <1>4, <1>5 DEF Counted, Said

LEMMA DeleteKeeps ==
  ASSUME MaxPrompts \in Nat, IInv, Delete PROVE IInv'
<1>1. PICK h \in Resolved(NoExclusion) :
         /\ Open /\ Remove(h.path)
         /\ UNCHANGED <<handle, runtime, log, phase, names, now, answered>>
  BY DEF Delete
<1>2. h.path \in Name /\ store[h.path] \in Session
  BY ResolvedIsAFile
<1>3. /\ Filed' /\ Counted' /\ store'[h.path] = Nothing
      /\ \A f \in Name : f # h.path => store'[f] = store[f]
      /\ givenUp' = givenUp \cup store[h.path].said
  BY <1>1, <1>2, RemoveKeeps
<1>4. /\ runtime \in Session /\ log \in Name /\ log <= names
      /\ handle = [id |-> runtime.id, path |-> log]
      /\ store[log] \in {Nothing, runtime}
      /\ store[log] = Nothing => runtime.said \subseteq givenUp
  BY <1>1, OpenIsKnown
<1>5. store[h.path] # Nothing
  BY <1>2, SessionIsSomething
<1>6. /\ store'[log] \in {Nothing, runtime}
      /\ store'[log] = Nothing => runtime.said \subseteq givenUp'
  <2>1. CASE h.path = log
    BY <1>3, <1>4, <1>5, <2>1
  <2>2. CASE h.path # log
    BY <1>3, <1>4, <2>2
  <2> QED
    BY <2>1, <2>2
<1>7. phase' \in Phase
  BY <1>1 DEF IInv, TypeOK
<1> QED
  BY <1>1, <1>3, <1>4, <1>6, <1>7, OpenIsGood

\* With no session open, the rest of the invariant is about the directory.
LEMMA StaysClosed ==
  ASSUME MaxPrompts \in Nat, IInv, ~Open, UNCHANGED <<handle, runtime, log, phase>>,
         Filed', Counted'
  PROVE  IInv'
<1>1. ~Open'
  BY DEF Open
<1>2. TypeOK'
  BY DEF IInv, TypeOK, Filed, Counted, Store, PromptNo
<1> QED
  BY <1>1, <1>2 DEF IInv, OpenIsTyped, OneSessionIsOpen, NothingElseToLose, Filed, Counted

LEMMA DeleteResumedKeeps ==
  ASSUME MaxPrompts \in Nat, IInv, DeleteResumed PROVE IInv'
<1>1. PICK h \in Resolved(NoExclusion) :
         /\ ~Open /\ Remove(h.path)
         /\ UNCHANGED <<handle, runtime, log, phase, names, now, answered>>
  BY DEF DeleteResumed
<1>2. h.path \in Name /\ store[h.path] \in Session
  BY ResolvedIsAFile
<1>3. Filed' /\ Counted'
  BY <1>1, <1>2, RemoveKeeps
<1> QED
  BY <1>1, <1>3, StaysClosed

LEMMA ClearResumedKeeps ==
  ASSUME MaxNames \in Nat, MaxPrompts \in Nat, IInv, ClearResumed PROVE IInv'
<1>1. PICK f \in Files :
         /\ ~Open /\ Save(f, NewSession(store[f].id))
         /\ givenUp' = givenUp \cup store[f].said
         /\ UNCHANGED <<handle, runtime, log, phase, now, answered>>
  BY DEF ClearResumed
<1>2. Filed /\ Counted
  BY Known
<1>3. f \in Name /\ store[f] # Nothing /\ store[f] \in Session
  BY <1>1 DEF Files, IInv, TypeOK
<1>4. f <= names
  BY <1>2, <1>3 DEF Filed, FreeAbove, Name
<1>5. store[f].id \in Name /\ store[f].said \subseteq PromptNo
  BY <1>3 DEF Session
<1>6. NewSession(store[f].id) \in Session
  BY <1>5, NewSessionIsOne
<1>7. store[f].said \subseteq NewSession(store[f].id).said \cup store[f].said
  OBVIOUS
<1>8. /\ Filed' /\ Said(store) \subseteq Said(store') \cup store[f].said
  BY <1>1, <1>2, <1>3, <1>4, <1>6, <1>7, SaveKeeps DEF Save, Filed
<1>9. Counted'
  BY <1>1, <1>2, <1>5, <1>8 DEF Counted, Said
<1> QED
  BY <1>1, <1>8, <1>9, StaysClosed

----------------------------------------------------------------------------
LEMMA StepKeeps ==
  ASSUME MaxNames \in Nat, MaxPrompts \in Nat, IInv, [Next]_vars PROVE IInv'
<1>1. CASE Exit
  BY <1>1, SaveOpenKeeps, ClosedIsGood DEF Exit
<1>2. CASE Killed
  <2>1. Filed' /\ Counted'
    BY <1>2, Known DEF Killed, Filed, Counted
  <2> QED
    BY <1>2, <2>1, ClosedIsGood DEF Killed
<1>3. CASE CommandFails
  BY <1>3, ErrorKeeps DEF CommandFails
<1>4. CASE ResumeFails
  BY <1>4, ErrorKeeps DEF ResumeFails
<1>5. CASE UNCHANGED vars
  BY <1>5 DEF vars, IInv, TypeOK, OpenIsTyped, Open, OneSessionIsOpen,
              NothingElseToLose, FreeAbove, Said
<1> QED
  BY <1>1, <1>2, <1>3, <1>4, <1>5, StartKeeps, TurnKeeps, TurnFailsKeeps, ReloadKeeps,
     ClearKeeps, ClearFailsKeeps, ResumeKeeps, ForkKeeps, ForkFailsKeeps,
     DeleteKeeps, DeleteResumedKeeps, ClearResumedKeeps
     DEF Next

LEMMA Inductive == ASSUME MaxNames \in Nat, MaxPrompts \in Nat PROVE Spec => []IInv
<1>1. Init => IInv
  BY InitIsGood
<1>2. IInv /\ [Next]_vars => IInv'
  BY StepKeeps
<1> QED
  BY <1>1, <1>2, PTL DEF Spec

\* The handle, the runtime and the file are of one session at every prompt,
\* whatever commands failed before.
THEOREM OneIsOpen ==
  ASSUME MaxNames \in Nat, MaxPrompts \in Nat PROVE Spec => []OneSessionIsOpen
<1>1. IInv => OneSessionIsOpen
  BY DEF IInv
<1> QED
  BY <1>1, Inductive, PTL

\* No command, failing or not, and no exit writes one session over another:
\* every answer is in a file until the user clears or deletes it.
THEOREM NoAnswerIsLost ==
  ASSUME MaxNames \in Nat, MaxPrompts \in Nat PROVE Spec => []AnswersStay
<1>1. IInv => AnswersStay
  BY DEF IInv, AnswersStay, Said, Files
<1> QED
  BY <1>1, Inductive, PTL

=============================================================================
