-------------------------- MODULE McpManagerProofs --------------------------
(***************************************************************************)
(* Proofs about McpManager, for any servers and any bounds.  The invariant *)
(* follows one request: what a process owes or has said belongs to it, and *)
(* the retries that are left pay for the processes that may be started.    *)
(***************************************************************************)
EXTENDS McpManager, TLAPS, SequenceTheorems

\* Nothing is owed and nothing is in the way.
Clean(s) == pending[s] = << >> /\ \A i \in DOMAIN frames[s] : frames[s][i].id = Notification

\* The request that is waited for is owed once, or answered once.
Owed(s) ==
    /\ op.id # Notification
    /\ Len(pending[s]) <= 1 /\ \A i \in DOMAIN pending[s] : pending[s][i] = op.id
    /\ \A i \in DOMAIN frames[s] : frames[s][i].id \in {Notification, op.id}
    /\ \A i, j \in DOMAIN frames[s] :
          frames[s][i].id = op.id /\ frames[s][j].id = op.id => i = j
    /\ pending[s] # << >> => \A i \in DOMAIN frames[s] : frames[s][i].id = Notification

OneRequest ==
    \A s \in Server : IF pc = "await" /\ op.server = s THEN Owed(s) ELSE Clean(s)

\* A tool that has been called is the last thing of its call.
OneCall ==
    /\ called <= 1
    /\ op.kind = "call" =>
          /\ pc # "idle" /\ op.todo = {} /\ op.attempts = 0
          /\ called = 0 \/ (pc = "await" /\ op.method = "tools/call")

Missing(s) == IF process[s] = NoProcess THEN 1 ELSE 0

\* Every retry pays for one more process.
Paid ==
    /\ spawned <= 4
    /\ pc # "idle" => spawned + Missing(op.server) <= 1 + 2 * op.attempts + op.greets
    /\ pc = "ensure" => spawned <= 2 * op.attempts + op.greets

IInv == /\ TypeOK /\ InitializedWasGreeted /\ NoProcessIsLost
        /\ OneRequest /\ OneCall /\ Paid

(***************************************************************************)
(* The steps of a call.                                                    *)
(***************************************************************************)

\* What Reset leaves: of this server nothing, of the others what there was.
LEMMA ResetFacts ==
    ASSUME TypeOK, NEW s \in Server, Reset(s)
    PROVE  /\ process' \in [Server -> Nat] /\ initialized' \in [Server -> BOOLEAN]
           /\ running' \in SUBSET (Nat \ {NoProcess})
           /\ pending' \in [Server -> Seq(Nat \ {Notification})]
           /\ frames' \in [Server -> Seq([id : Nat, reply : Reply])]
           /\ process'[s] = NoProcess /\ ~initialized'[s]
           /\ pending'[s] = << >> /\ frames'[s] = << >>
           /\ running' = running \ {process[s]}
           /\ \A t \in Server \ {s} :
                 /\ process'[t] = process[t] /\ initialized'[t] = initialized[t]
                 /\ pending'[t] = pending[t] /\ frames'[t] = frames[t]
<1> DEFINE Elem == Nat \ {Notification}
           Frame == [id : Nat, reply : Reply]
<1>1. << >> \in Seq(Elem) /\ << >> \in Seq(Frame) /\ NoProcess \in Nat
  BY DEF NoProcess
<1>2. pending \in [Server -> Seq(Elem)] /\ frames \in [Server -> Seq(Frame)]
  BY DEF TypeOK
<1>3. pending' \in [Server -> Seq(Elem)] /\ frames' \in [Server -> Seq(Frame)]
  <2> HIDE DEF Elem, Frame
  <2> QED BY <1>1, <1>2 DEF Reset
<1>4. /\ pending'[s] = << >> /\ frames'[s] = << >>
      /\ \A t \in Server \ {s} : pending'[t] = pending[t] /\ frames'[t] = frames[t]
  <2> HIDE DEF Elem, Frame
  <2> QED BY <1>2 DEF Reset
<1>5. /\ process' \in [Server -> Nat] /\ initialized' \in [Server -> BOOLEAN]
      /\ running' \in SUBSET (Nat \ {NoProcess}) /\ running' = running \ {process[s]}
      /\ process'[s] = NoProcess
      /\ \A t \in Server \ {s} : process'[t] = process[t]
  BY <1>1 DEF TypeOK, Reset
<1>6. /\ ~initialized'[s]
      /\ \A t \in Server \ {s} : initialized'[t] = initialized[t]
  BY DEF TypeOK, Reset
<1> QED
  BY <1>3, <1>4, <1>5, <1>6

\* Links(s): only server s is touched, nothing is owed by it afterwards, and it
\* has a process only if it had one.
Links(s) ==
    /\ process' \in [Server -> Nat] /\ initialized' \in [Server -> BOOLEAN]
    /\ running' \in SUBSET (Nat \ {NoProcess})
    /\ pending' \in [Server -> Seq(Nat \ {Notification})]
    /\ frames' \in [Server -> Seq([id : Nat, reply : Reply])]
    /\ InitializedWasGreeted' /\ NoProcessIsLost'
    /\ \A t \in Server : Clean(t)'

LEMMA ResetLinks ==
    ASSUME IInv, pc # "idle", Reset(op.server), UNCHANGED greeted
    PROVE  Links(op.server)
<1>1. op.server \in Server
  BY DEF IInv, TypeOK
<1> DEFINE s == op.server
<1>a. TypeOK
  BY DEF IInv
<1>b. /\ process'[s] = NoProcess /\ ~initialized'[s]
      /\ pending'[s] = << >> /\ frames'[s] = << >>
      /\ running' = running \ {process[s]}
      /\ \A t \in Server \ {s} :
            /\ process'[t] = process[t] /\ initialized'[t] = initialized[t]
            /\ pending'[t] = pending[t] /\ frames'[t] = frames[t]
  BY <1>1, <1>a, ResetFacts, Zenon
<1> HIDE DEF s
<1>2. InitializedWasGreeted'
  <2> SUFFICES ASSUME NEW t \in Server, initialized'[t] PROVE process'[t] \in greeted'
    BY Zenon DEF InitializedWasGreeted
  <2>1. t # s
    BY <1>b
  <2> QED
    BY <1>b, <2>1, Zenon DEF IInv, InitializedWasGreeted
<1>3. NoProcessIsLost'
  <2>a. DOMAIN process = Server /\ DOMAIN process' = Server
    BY <1>1, <1>a, ResetFacts DEF TypeOK, s
  <2> SUFFICES ASSUME NEW g \in running' PROVE \E t \in Server : process'[t] = g
    BY <2>a DEF NoProcessIsLost
  <2>1. PICK t \in Server : process[t] = g
    BY <1>b, <2>a DEF IInv, NoProcessIsLost
  <2>2. t # s
    BY <1>b, <2>1
  <2> QED
    BY <1>b, <2>1, <2>2
<1>4. ASSUME NEW t \in Server PROVE Clean(t)'
  <2>1. CASE t = s
    BY <1>b, <2>1 DEF Clean
  <2>2. CASE t # s
    BY <1>b, <2>2 DEF IInv, OneRequest, Clean, s
  <2> QED
    BY <2>1, <2>2
<1> QED
  BY <1>1, <1>a, <1>2, <1>3, <1>4, ResetFacts, Zenon DEF Links

OpType == [kind : Kind \cup {"none"}, server : Server \cup {"none"}, todo : SUBSET Server,
           attempts : 0..1, greets : 0..1, id : Nat,
           method : {"none", "initialize", "tools/list", "tools/call",
                     "resources/list", "resources/read"}]

\* The parts of the type invariant that a step of a call can change.
LEMMA TypeParts ==
    ASSUME TypeOK,
           process' \in [Server -> Nat], initialized' \in [Server -> BOOLEAN],
           running' \in SUBSET (Nat \ {NoProcess}),
           pending' \in [Server -> Seq(Nat \ {Notification})],
           frames' \in [Server -> Seq([id : Nat, reply : Reply])],
           routes' \in SUBSET Server, nextId' \in Nat \ {0},
           pc' \in {"idle", "ensure", "connect", "request", "await"},
           op' \in OpType, pc' # "idle" => op'.server \in Server /\ op'.kind \in Kind,
           generations' \in Nat, operations' \in Nat, greeted' \in SUBSET Nat,
           spawned' \in Nat, called' \in Nat
    PROVE  TypeOK'
  BY Zenon DEF TypeOK, OpType

\* A call, or its part with one server, may end when nothing is owed.
LEMMA FinishKeepsInvariant ==
    ASSUME IInv, pc # "idle", NEW ok \in BOOLEAN, Finish(ok), Links(op.server),
           UNCHANGED <<nextId, generations, operations, called>>, greeted' \in SUBSET Nat
    PROVE  IInv'
<1>0. TypeOK /\ OneCall /\ op.server \in Server /\ op.kind \in Kind
  BY DEF IInv, TypeOK
<1>t. /\ nextId' \in Nat \ {0} /\ generations' \in Nat /\ operations' \in Nat
      /\ called' \in Nat /\ spawned \in Nat
  BY <1>0 DEF TypeOK
<1>1. routes' \in SUBSET Server
  BY <1>0 DEF Finish, TypeOK
<1>2. CASE op.todo # {} /\ (ok \/ op.kind = "discover_best_effort")
  <2>1. PICK s \in op.todo :
          /\ op' = [NoOp EXCEPT !.kind = op.kind, !.server = s, !.todo = op.todo \ {s}]
          /\ pc' = "ensure" /\ spawned' = 0
    BY <1>2 DEF Finish
  <2>2. op.todo \in SUBSET Server /\ op.kind # "call"
    BY <1>0, <1>2 DEF TypeOK, OneCall
  <2>3. /\ op'.kind = op.kind /\ op'.server = s /\ op'.todo = op.todo \ {s}
        /\ op'.attempts = 0 /\ op'.greets = 0 /\ op'.id = 0 /\ op'.method = "none"
    BY <2>1 DEF NoOp
  <2>4. TypeOK'
    <3>1. op' = [kind |-> op.kind, server |-> s, todo |-> op.todo \ {s}, attempts |-> 0,
                 greets |-> 0, id |-> 0, method |-> "none"]
      BY <2>1 DEF NoOp
    <3>2. op' \in OpType /\ op'.server \in Server /\ op'.kind \in Kind
      BY <1>0, <2>2, <3>1 DEF OpType
    <3> QED
      BY <1>0, <1>1, <1>t, <2>1, <3>2, TypeParts DEF Links
  <2>5. OneRequest'
    BY <2>1 DEF OneRequest, Links
  <2>6. OneCall'
    BY <1>0, <2>2, <2>3 DEF OneCall
  <2>7. Paid'
    BY <2>1, <2>3 DEF Paid, Missing
  <2> QED
    BY <2>4, <2>5, <2>6, <2>7, Zenon DEF IInv, Links
<1>3. CASE ~(op.todo # {} /\ (ok \/ op.kind = "discover_best_effort"))
  <2>1. op' = NoOp /\ pc' = "idle" /\ spawned' = spawned
    BY <1>3 DEF Finish
  <2>2. TypeOK'
    <3>1. op' \in OpType
      BY <2>1 DEF NoOp, OpType
    <3> QED
      BY <1>0, <1>1, <1>t, <2>1, <3>1, TypeParts DEF Links
  <2>3. OneRequest'
    BY <2>1 DEF OneRequest, Links
  <2>4. OneCall'
    BY <1>0, <2>1 DEF OneCall, NoOp
  <2>5. Paid'
    BY <2>1 DEF IInv, Paid
  <2> QED
    BY <2>2, <2>3, <2>4, <2>5, Zenon DEF IInv, Links
<1> QED
  BY <1>2, <1>3

\* A retry is one of two kinds, and neither is open to a tool that was called.
LEMMA AgainKeepsInvariant ==
    ASSUME IInv, pc # "idle", NEW attempts \in 0..1, NEW greets \in 0..1,
           Again(attempts, greets),
           \/ op.greets = 0 /\ greets = 1 /\ attempts = op.attempts /\ op.method = "initialize"
           \/ op.attempts = 0 /\ attempts = 1 /\ greets = 0 /\ op.kind # "call",
           UNCHANGED <<nextId, generations, operations, greeted, called>>
    PROVE  IInv'
<1>0. TypeOK /\ OneCall /\ Paid /\ op.server \in Server /\ op.kind \in Kind
  BY DEF IInv, TypeOK
<1>1. Links(op.server)
  BY ResetLinks DEF Again
<1>2. /\ op' = [op EXCEPT !.attempts = attempts, !.greets = greets]
      /\ pc' \in {"ensure", "connect"}
      /\ pc' = "ensure" => greets = 0
      /\ routes' = routes /\ spawned' = spawned
  BY DEF Again
<1>3. /\ op'.kind = op.kind /\ op'.server = op.server /\ op'.todo = op.todo
      /\ op'.attempts = attempts /\ op'.greets = greets /\ op'.id = op.id
      /\ op'.method = op.method
  BY <1>0, <1>2 DEF TypeOK
<1>4. TypeOK'
  <2>1. op \in OpType
    BY <1>0 DEF TypeOK, OpType
  <2>2. op' \in OpType
    BY <1>2, <2>1 DEF OpType
  <2>3. /\ nextId' \in Nat \ {0} /\ generations' \in Nat /\ operations' \in Nat
        /\ called' \in Nat /\ spawned' \in Nat /\ routes' \in SUBSET Server
        /\ greeted' \in SUBSET Nat
    BY <1>0, <1>2 DEF TypeOK
  <2> QED
    BY <1>0, <1>1, <1>2, <1>3, <2>2, <2>3, TypeParts DEF Links
<1>5. OneRequest'
  <2>1. pc' # "await"
    BY <1>2
  <2> QED
    BY <1>1, <2>1, Zenon DEF OneRequest, Links
<1>6. OneCall'
  BY <1>0, <1>2, <1>3 DEF OneCall
<1>7. Paid'
  <2>1. op.attempts \in 0..1 /\ op.greets \in 0..1 /\ spawned \in Nat
    BY <1>0 DEF TypeOK
  <2>2. spawned <= 1 + 2 * op.attempts + op.greets
    BY <1>0, <2>1 DEF Paid, Missing
  <2>3. Missing(op.server)' <= 1
    BY DEF Missing
  <2> QED
    BY <1>2, <1>3, <2>1, <2>2, <2>3 DEF Paid, Missing
<1> QED
  BY <1>1, <1>4, <1>5, <1>6, <1>7, Zenon DEF IInv, Links

LEMMA FailsKeepsInvariant ==
    ASSUME IInv, pc # "idle", NEW fault, Fails(fault),
           ShouldReset(fault) \/ pc = "connect",
           UNCHANGED <<nextId, generations, operations, greeted, called>>
    PROVE  IInv'
<1>0. TypeOK /\ op.attempts \in 0..1 /\ op.server \in Server
  BY DEF IInv, TypeOK
<1>1. CASE op.method = "initialize" /\ IsRetryable(fault) /\ op.greets = 0
  BY <1>0, <1>1, AgainKeepsInvariant DEF Fails
<1>2. CASE /\ ~(op.method = "initialize" /\ IsRetryable(fault) /\ op.greets = 0)
           /\ op.kind # "call" /\ IsRetryable(fault) /\ op.attempts = 0
  BY <1>2, AgainKeepsInvariant DEF Fails
<1>3. CASE /\ ~(op.method = "initialize" /\ IsRetryable(fault) /\ op.greets = 0)
           /\ ~(op.kind # "call" /\ IsRetryable(fault) /\ op.attempts = 0)
  <2>1. Finish(FALSE) /\ IF ShouldReset(fault) THEN Reset(op.server) ELSE UNCHANGED links
    BY <1>3, Zenon DEF Fails
  <2>2. CASE ShouldReset(fault)
    BY <1>0, <2>1, <2>2, ResetLinks, FinishKeepsInvariant DEF TypeOK
  <2>3. CASE ~ShouldReset(fault)
    <3>1. pc = "connect" /\ UNCHANGED links
      BY <2>1, <2>3
    <3>2. \A t \in Server : Clean(t)
      BY <3>1 DEF IInv, OneRequest
    <3>3. /\ process' = process /\ initialized' = initialized /\ running' = running
          /\ pending' = pending /\ frames' = frames /\ greeted' = greeted
      BY <3>1 DEF links
    <3>4. Links(op.server)
      <4>1. \A t \in Server : Clean(t)'
        BY <3>2, <3>3 DEF Clean
      <4>2. InitializedWasGreeted' /\ NoProcessIsLost'
        BY <3>3 DEF IInv, InitializedWasGreeted, NoProcessIsLost
      <4> QED
        BY <1>0, <3>3, <4>1, <4>2 DEF Links, TypeOK
    <3> QED
      BY <1>0, <2>1, <3>4, FinishKeepsInvariant DEF TypeOK
  <2> QED
    BY <2>2, <2>3
<1> QED
  BY <1>1, <1>2, <1>3

(***************************************************************************)
(* The server processes.                                                   *)
(***************************************************************************)

LEMMA OneElement ==
    ASSUME NEW S, NEW q \in Seq(S), q # << >>, Len(q) <= 1
    PROVE  /\ Len(q) = 1 /\ DOMAIN q = {1} /\ q[1] \in S
           /\ Head(q) = q[1] /\ Tail(q) = << >>
<1>1. Len(q) = 1
  <2>1. Len(q) \in Nat \ {0}
    BY EmptySeq, Zenon
  <2> QED
    BY <2>1
<1>2. Tail(q) \in Seq(S) /\ Len(Tail(q)) = 0
  BY <1>1, HeadTailProperties
<1>3. Tail(q) = << >>
  BY <1>2, EmptySeq
<1>4. DOMAIN q = {1}
  BY <1>1, LenProperties
<1>5. q[1] \in S
  BY <1>1, ElementOfSeq
<1>6. Head(q) = q[1]
  BY <1>1
<1> QED
  BY <1>1, <1>3, <1>4, <1>5, <1>6

\* A step of a process leaves the call where it is.
Elsewhere == UNCHANGED <<process, initialized, routes, nextId, pc, op, generations,
                         operations, greeted, spawned, called>>

LEMMA ElsewhereKeepsInvariant ==
    ASSUME IInv, Elsewhere, OneRequest', running' \subseteq running,
           pending' \in [Server -> Seq(Nat \ {Notification})],
           frames' \in [Server -> Seq([id : Nat, reply : Reply])]
    PROVE  IInv'
<1>1. TypeOK'
  BY DEF IInv, TypeOK, Elsewhere
<1>2. InitializedWasGreeted' /\ NoProcessIsLost'
  BY DEF IInv, InitializedWasGreeted, NoProcessIsLost, Elsewhere
<1>3. OneCall' /\ Paid'
  BY DEF IInv, OneCall, Paid, Missing, Elsewhere
<1> QED
  BY <1>1, <1>2, <1>3 DEF IInv

LEMMA AnswersKeepsInvariant ==
    ASSUME IInv, NEW s \in Server, Answers(s) PROVE IInv'
<1> DEFINE Elem == Nat \ {Notification}
           Frame == [id : Nat, reply : Reply]
<1>1. PICK reply \in Reply :
        /\ pending[s] # << >>
        /\ frames' = [frames EXCEPT ![s] = Append(@, [id |-> Head(pending[s]), reply |-> reply])]
        /\ pending' = [pending EXCEPT ![s] = Tail(@)]
        /\ Elsewhere /\ running' = running
  BY DEF Answers, Elsewhere
<1>2. /\ pending \in [Server -> Seq(Elem)] /\ frames \in [Server -> Seq(Frame)]
      /\ pending[s] \in Seq(Elem) /\ frames[s] \in Seq(Frame)
  BY DEF IInv, TypeOK
<1>3. pc = "await" /\ op.server = s /\ Owed(s)
  BY <1>1, Zenon DEF IInv, OneRequest, Clean
<1>4. Head(pending[s]) = op.id /\ op.id \in Elem /\ Tail(pending[s]) = << >>
  <2>1. Len(pending[s]) <= 1 /\ \A k \in DOMAIN pending[s] : pending[s][k] = op.id
    BY <1>3 DEF Owed
  <2> HIDE DEF Elem
  <2>2. /\ Len(pending[s]) = 1 /\ DOMAIN pending[s] = {1} /\ pending[s][1] \in Elem
        /\ Head(pending[s]) = pending[s][1] /\ Tail(pending[s]) = << >>
    BY <1>1, <1>2, <2>1, OneElement
  <2> QED
    BY <2>1, <2>2
<1> DEFINE frame == [id |-> op.id, reply |-> reply]
<1>5. /\ pending'[s] = << >> /\ frames'[s] = Append(frames[s], frame)
      /\ \A t \in Server \ {s} : pending'[t] = pending[t] /\ frames'[t] = frames[t]
      /\ pending' \in [Server -> Seq(Elem)]
  <2>1. << >> \in Seq(Elem)
    BY EmptySeq
  <2> HIDE DEF Elem, Frame
  <2>2. /\ pending' = [pending EXCEPT ![s] = << >>]
        /\ frames' = [frames EXCEPT ![s] = Append(@, frame)]
    BY <1>1, <1>4
  <2> HIDE DEF frame
  <2> QED
    BY <1>2, <2>1, <2>2
<1>6. frame \in Frame
  BY <1>4
<1>7. frames' \in [Server -> Seq(Frame)]
  <2> HIDE DEF Frame, Elem, frame
  <2>1. Append(frames[s], frame) \in Seq(Frame)
    BY <1>2, <1>6
  <2>2. frames' = [frames EXCEPT ![s] = Append(@, frame)]
    BY <1>1, <1>4 DEF frame
  <2> QED
    BY <1>2, <2>1, <2>2
<1>8. Owed(s)'
  <2>1. /\ op.id # Notification
        /\ \A k \in DOMAIN frames[s] : frames[s][k].id = Notification
    BY <1>1, <1>3 DEF Owed
  <2>2. /\ DOMAIN frames'[s] = 1..(Len(frames[s]) + 1)
        /\ DOMAIN frames[s] = 1..Len(frames[s]) /\ Len(frames[s]) \in Nat
        /\ frames'[s][Len(frames[s]) + 1].id = op.id
        /\ \A k \in DOMAIN frames[s] : frames'[s][k] = frames[s][k]
    <3> HIDE DEF Frame
    <3> QED BY <1>2, <1>5
  <2>3. op' = op
    BY <1>1 DEF Elsewhere
  <2>4. Len(pending'[s]) = 0 /\ DOMAIN pending'[s] = {}
    BY <1>5
  <2>5. \A k \in DOMAIN frames'[s] : frames'[s][k].id = op.id => k = Len(frames[s]) + 1
    BY <2>1, <2>2
  <2>6. \A k \in DOMAIN frames'[s] : frames'[s][k].id \in {Notification, op.id}
    BY <2>1, <2>2
  <2> QED
    BY <1>5, <2>1, <2>3, <2>4, <2>5, <2>6 DEF Owed
<1>9. OneRequest'
  BY <1>1, <1>3, <1>5, <1>8 DEF IInv, OneRequest, Clean, Elsewhere
<1> QED
  BY <1>1, <1>5, <1>7, <1>9, ElsewhereKeepsInvariant

LEMMA NotifiesKeepsInvariant ==
    ASSUME IInv, NEW s \in Server, Notifies(s) PROVE IInv'
<1> DEFINE Frame == [id : Nat, reply : Reply]
           frame == [id |-> Notification, reply |-> "garbage"]
<1>1. /\ frames' = [frames EXCEPT ![s] = Append(@, frame)]
      /\ pending' = pending /\ Elsewhere /\ running' = running
  BY DEF Notifies, Elsewhere
<1>2. /\ pending' \in [Server -> Seq(Nat \ {Notification})] /\ frames \in [Server -> Seq(Frame)]
      /\ frames[s] \in Seq(Frame)
  BY <1>1 DEF IInv, TypeOK
<1>3. frame \in Frame /\ frame.id = Notification
  BY DEF Notification, Reply
<1>4. /\ frames' \in [Server -> Seq(Frame)]
      /\ frames'[s] = Append(frames[s], frame)
      /\ \A t \in Server \ {s} : frames'[t] = frames[t]
  <2> HIDE DEF Frame, frame
  <2> QED BY <1>1, <1>2, <1>3
<1>5. /\ DOMAIN frames'[s] = 1..(Len(frames[s]) + 1)
      /\ DOMAIN frames[s] = 1..Len(frames[s]) /\ Len(frames[s]) \in Nat
      /\ frames'[s][Len(frames[s]) + 1].id = Notification
      /\ \A k \in DOMAIN frames[s] : frames'[s][k] = frames[s][k]
  <2> HIDE DEF Frame, frame
  <2> QED BY <1>2, <1>3, <1>4
<1>6. op' = op /\ pc' = pc
  BY <1>1 DEF Elsewhere
<1>7. ASSUME Clean(s) PROVE Clean(s)'
  BY <1>1, <1>5, <1>7 DEF Clean
<1>8. ASSUME Owed(s) PROVE Owed(s)'
  <2>1. /\ op.id # Notification /\ Len(pending[s]) <= 1
        /\ \A k \in DOMAIN pending[s] : pending[s][k] = op.id
        /\ \A k \in DOMAIN frames[s] : frames[s][k].id \in {Notification, op.id}
        /\ \A j, k \in DOMAIN frames[s] :
              frames[s][j].id = op.id /\ frames[s][k].id = op.id => j = k
        /\ pending[s] # << >> => \A k \in DOMAIN frames[s] : frames[s][k].id = Notification
    BY <1>8 DEF Owed
  <2>2. \A k \in DOMAIN frames'[s] :
           frames'[s][k].id # Notification => k \in DOMAIN frames[s]
    BY <1>5
  <2>3. \A k \in DOMAIN frames'[s] : frames'[s][k].id \in {Notification, op.id}
    BY <1>5, <2>1
  <2>4. \A j, k \in DOMAIN frames'[s] :
           frames'[s][j].id = op.id /\ frames'[s][k].id = op.id => j = k
    BY <1>5, <2>1, <2>2
  <2>5. pending[s] # << >> => \A k \in DOMAIN frames'[s] : frames'[s][k].id = Notification
    BY <1>5, <2>1
  <2> QED
    BY <1>1, <1>6, <2>1, <2>3, <2>4, <2>5 DEF Owed
<1>9. OneRequest'
  <2> SUFFICES ASSUME NEW t \in Server
               PROVE IF pc = "await" /\ op.server = t THEN Owed(t)' ELSE Clean(t)'
    BY <1>6 DEF OneRequest
  <2>1. IF pc = "await" /\ op.server = t THEN Owed(t) ELSE Clean(t)
    BY DEF IInv, OneRequest
  <2>2. CASE t = s
    BY <1>7, <1>8, <2>1, <2>2
  <2>3. CASE t # s
    BY <1>1, <1>4, <1>6, <2>1, <2>3 DEF Owed, Clean
  <2> QED
    BY <2>2, <2>3
<1> QED
  BY <1>1, <1>2, <1>4, <1>9, ElsewhereKeepsInvariant

LEMMA ExitsKeepsInvariant ==
    ASSUME IInv, NEW s \in Server, Exits(s) PROVE IInv'
<1>1. Elsewhere /\ running' \subseteq running /\ pending' = pending /\ frames' = frames
  BY DEF Exits, Elsewhere
<1>2. OneRequest'
  BY <1>1 DEF IInv, OneRequest, Clean, Owed, Elsewhere
<1>3. /\ pending' \in [Server -> Seq(Nat \ {Notification})]
      /\ frames' \in [Server -> Seq([id : Nat, reply : Reply])]
  BY <1>1 DEF IInv, TypeOK
<1> QED
  BY <1>1, <1>2, <1>3, ElsewhereKeepsInvariant

(***************************************************************************)
(* The manager.                                                            *)
(***************************************************************************)

LEMMA BeginKeepsInvariant ==
    ASSUME IInv, Begin PROVE IInv'
<1>1. PICK kind \in Kind, s \in Server :
        /\ pc = "idle" /\ pc' = "ensure" /\ operations' = operations + 1
        /\ op' = [NoOp EXCEPT !.kind = kind, !.server = s,
                              !.todo = IF Discovers(kind) THEN Server \ {s} ELSE {}]
        /\ spawned' = 0 /\ called' = 0
        /\ UNCHANGED <<links, routes, nextId, generations, greeted>>
  BY DEF Begin
<1> DEFINE rest == IF Discovers(kind) THEN Server \ {s} ELSE {}
<1>2. op' = [kind |-> kind, server |-> s, todo |-> rest, attempts |-> 0, greets |-> 0,
             id |-> 0, method |-> "none"]
  BY <1>1 DEF NoOp
<1>3. rest \in SUBSET Server /\ (kind = "call" => rest = {})
  BY DEF Discovers
<1> HIDE DEF rest
<1>f. op'.kind = kind /\ op'.server = s /\ op'.todo = rest /\ op'.attempts = 0 /\ op'.greets = 0
  BY <1>2
<1>4. op' \in OpType
  BY <1>2, <1>3 DEF OpType
<1>t. /\ process' = process /\ initialized' = initialized /\ running' = running
      /\ pending' = pending /\ frames' = frames
  BY <1>1 DEF links
<1>5. TypeOK'
  <2>1. op'.server \in Server /\ op'.kind \in Kind
    BY <1>2
  <2>2. /\ nextId' \in Nat \ {0} /\ generations' \in Nat /\ operations' \in Nat
        /\ called' \in Nat /\ spawned' \in Nat /\ routes' \in SUBSET Server
        /\ greeted' \in SUBSET Nat /\ pc' \in {"idle", "ensure", "connect", "request", "await"}
    BY <1>1 DEF IInv, TypeOK
  <2>3. TypeOK
    BY DEF IInv
  <2> QED
    BY <1>t, <1>4, <2>1, <2>2, <2>3, Zenon DEF TypeOK, OpType
<1>6. InitializedWasGreeted' /\ NoProcessIsLost'
  BY <1>1, <1>t DEF IInv, InitializedWasGreeted, NoProcessIsLost
<1>7. OneRequest'
  BY <1>1, <1>t DEF IInv, OneRequest, Clean
<1>8. OneCall'
  BY <1>1, <1>3, <1>f DEF OneCall
<1>9. Paid'
  BY <1>1, <1>f DEF Paid, Missing
<1> QED
  BY <1>5, <1>6, <1>7, <1>8, <1>9 DEF IInv

\* A step of the call that leaves the operation and the count of tool calls
\* alone, and nothing owed.
LEMMA QuietStepKeepsInvariant ==
    ASSUME IInv, pc # "idle", pc' \in {"connect", "request"}, op.kind = "call" => called = 0,
           Links(op.server), greeted' \in SUBSET Nat, generations' \in Nat, spawned' \in Nat,
           spawned' <= 4,
           (spawned + Missing(op.server) <= 1 + 2 * op.attempts + op.greets)',
           UNCHANGED <<routes, nextId, op, operations, called>>
    PROVE  IInv'
<1>1. TypeOK'
  BY DEF IInv, TypeOK, Links
<1>2. OneRequest'
  BY DEF OneRequest, Links
<1>3. OneCall'
  BY DEF IInv, OneCall
<1>4. Paid'
  BY DEF Paid
<1> QED
  BY <1>1, <1>2, <1>3, <1>4, Zenon DEF IInv, Links

\* Between requests nothing is owed.
LEMMA UnchangedLinks ==
    ASSUME IInv, pc # "await", UNCHANGED links, UNCHANGED greeted
    PROVE  Links(op.server)
<1>1. /\ process' = process /\ initialized' = initialized /\ running' = running
      /\ pending' = pending /\ frames' = frames /\ greeted' = greeted
  BY DEF links
<1>2. \A t \in Server : Clean(t)'
  BY <1>1 DEF IInv, OneRequest, Clean
<1>3. InitializedWasGreeted' /\ NoProcessIsLost'
  BY <1>1 DEF IInv, InitializedWasGreeted, NoProcessIsLost
<1> QED
  BY <1>1, <1>2, <1>3 DEF Links, IInv, TypeOK

LEMMA NoticeExitKeepsInvariant ==
    ASSUME IInv, NoticeExit PROVE IInv'
<1>0. /\ TypeOK /\ Paid /\ op.server \in Server
      /\ op.attempts \in 0..1 /\ op.greets \in 0..1 /\ spawned \in Nat
  BY DEF IInv, TypeOK, NoticeExit
<1>1. /\ pc = "ensure" /\ pc' = "connect"
      /\ UNCHANGED <<routes, nextId, op, generations, operations, greeted, spawned, called>>
  BY DEF NoticeExit
<1>2. Links(op.server)
  BY <1>1, ResetLinks, UnchangedLinks DEF NoticeExit
<1>3. spawned <= 2 * op.attempts + op.greets /\ spawned <= 4
  BY <1>0, <1>1 DEF Paid
<1>4. Missing(op.server)' \in 0..1
  BY DEF Missing
<1>5. (spawned + Missing(op.server) <= 1 + 2 * op.attempts + op.greets)'
  BY <1>0, <1>1, <1>3, <1>4
<1> QED
  BY <1>0, <1>1, <1>2, <1>3, <1>5, QuietStepKeepsInvariant DEF TypeOK, IInv, OneCall

LEMMA SpawnKeepsInvariant ==
    ASSUME IInv, Spawn PROVE IInv'
<1> DEFINE s == op.server
           new == generations + 1
<1>0. /\ TypeOK /\ Paid /\ s \in Server /\ generations \in Nat /\ spawned \in Nat
      /\ op.attempts \in 0..1 /\ op.greets \in 0..1
  BY DEF IInv, TypeOK, Spawn
<1>1. /\ pc = "connect" /\ pc' = "connect" /\ process[s] = NoProcess
      /\ generations' = new /\ spawned' = spawned + 1
      /\ process' = [process EXCEPT ![s] = new]
      /\ initialized' = [initialized EXCEPT ![s] = FALSE]
      /\ running' = running \cup {new}
      /\ UNCHANGED <<routes, pending, frames, nextId, op, operations, greeted, called>>
  BY DEF Spawn
<1>2. new \in Nat \ {NoProcess}
  BY <1>0 DEF NoProcess
<1> HIDE DEF s, new
<1>3. /\ process' \in [Server -> Nat] /\ process'[s] = new
      /\ \A t \in Server \ {s} : process'[t] = process[t]
      /\ running' \in SUBSET (Nat \ {NoProcess})
  BY <1>0, <1>1, <1>2 DEF TypeOK
<1>4. /\ initialized' \in [Server -> BOOLEAN] /\ ~initialized'[s]
      /\ \A t \in Server \ {s} : initialized'[t] = initialized[t]
  BY <1>0, <1>1 DEF TypeOK
<1>5. InitializedWasGreeted'
  <2> SUFFICES ASSUME NEW t \in Server, initialized'[t] PROVE process'[t] \in greeted'
    BY Zenon DEF InitializedWasGreeted
  <2>1. t # s
    BY <1>4
  <2> QED
    BY <1>1, <1>3, <1>4, <2>1 DEF IInv, InitializedWasGreeted
<1>6. NoProcessIsLost'
  <2>a. DOMAIN process = Server /\ DOMAIN process' = Server
    BY <1>0, <1>3 DEF TypeOK
  <2> SUFFICES ASSUME NEW g \in running' PROVE \E t \in Server : process'[t] = g
    BY <2>a DEF NoProcessIsLost
  <2>1. CASE g = new
    BY <1>0, <1>3, <2>1
  <2>2. CASE g # new
    <3>1. g \in running
      BY <1>1, <2>2
    <3>2. g # NoProcess
      BY <1>0, <3>1 DEF TypeOK
    <3>3. PICK t \in Server : process[t] = g
      BY <2>a, <3>1 DEF IInv, NoProcessIsLost
    <3> QED
      BY <1>1, <1>3, <3>2, <3>3
  <2> QED
    BY <2>1, <2>2
<1>7. \A t \in Server : Clean(t)'
  BY <1>1 DEF IInv, OneRequest, Clean
<1>8. Links(s)
  BY <1>0, <1>1, <1>3, <1>4, <1>5, <1>6, <1>7 DEF Links, TypeOK
<1>9. /\ spawned' <= 4 /\ spawned' \in Nat
      /\ (spawned + Missing(op.server) <= 1 + 2 * op.attempts + op.greets)'
  <2>1. spawned + 1 <= 1 + 2 * op.attempts + op.greets
    BY <1>0, <1>1 DEF Paid, Missing, s
  <2>2. Missing(op.server)' = 0
    BY <1>1, <1>2, <1>3 DEF Missing, s
  <2> QED
    BY <1>0, <1>1, <2>1, <2>2
<1> QED
  BY <1>0, <1>1, <1>2, <1>8, <1>9, QuietStepKeepsInvariant DEF TypeOK, s, IInv, OneCall

LEMMA SpawnFailsKeepsInvariant ==
    ASSUME IInv, SpawnFails PROVE IInv'
  BY FailsKeepsInvariant DEF SpawnFails

LEMMA AlreadyGreetedKeepsInvariant ==
    ASSUME IInv, AlreadyGreeted PROVE IInv'
<1>1. /\ pc = "connect" /\ pc' = "request" /\ UNCHANGED links
      /\ UNCHANGED <<routes, nextId, op, generations, operations, greeted, spawned, called>>
  BY DEF AlreadyGreeted
<1>2. Links(op.server)
  BY <1>1, UnchangedLinks
<1>3. spawned <= 4 /\ (spawned + Missing(op.server) <= 1 + 2 * op.attempts + op.greets)'
  BY <1>1 DEF IInv, Paid, Missing, links
<1> QED
  BY <1>1, <1>2, <1>3, QuietStepKeepsInvariant DEF IInv, TypeOK, OneCall

\* A request goes out when nothing is owed.
LEMMA SendKeepsInvariant ==
    ASSUME IInv, pc \in {"connect", "request"},
           NEW method \in {"initialize", "tools/list", "tools/call",
                           "resources/list", "resources/read"},
           Send(method), called' \in Nat, called' <= 1,
           op.kind = "call" => called' = called \/ method = "tools/call",
           op.kind = "call" => called = 0
    PROVE  IInv'
<1> DEFINE Elem == Nat \ {Notification}
<1>s. PICK s \in Server : s = op.server
  BY DEF IInv, TypeOK
<1>0. TypeOK /\ Paid /\ OneCall /\ nextId \in Elem
  BY DEF IInv, TypeOK, Notification
<1>1. /\ op' = [op EXCEPT !.method = method, !.id = nextId]
      /\ nextId' = (IF nextId >= MaxId THEN nextId ELSE nextId + 1) /\ pc' = "await"
      /\ pending' = [pending EXCEPT ![s] = Append(@, nextId)]
      /\ UNCHANGED <<process, initialized, running, frames, routes, generations,
                     operations, greeted, spawned>>
  BY <1>s DEF Send
<1>2. /\ op'.server = s /\ op'.kind = op.kind /\ op'.todo = op.todo /\ op'.id = nextId
      /\ op'.attempts = op.attempts /\ op'.greets = op.greets /\ op'.method = method
      /\ op' \in OpType
  BY <1>0, <1>1, <1>s DEF TypeOK, OpType
<1>3. \A t \in Server : Clean(t)
  BY DEF IInv, OneRequest
<1>4. /\ pending \in [Server -> Seq(Elem)] /\ pending[s] = << >>
      /\ << >> \in Seq(Elem) /\ Append(<< >>, nextId) = <<nextId>> /\ <<nextId>> \in Seq(Elem)
  BY <1>0, <1>3 DEF TypeOK, Clean
<1>5. /\ pending' \in [Server -> Seq(Elem)] /\ pending'[s] = <<nextId>>
      /\ \A t \in Server \ {s} : pending'[t] = pending[t]
  <2> HIDE DEF Elem
  <2> QED BY <1>0, <1>1, <1>4
<1>6. TypeOK'
  <2>1. op'.server \in Server /\ op'.kind \in Kind
    BY <1>0, <1>2 DEF TypeOK
  <2>a. nextId' \in Nat \ {0} /\ pc' \in {"idle", "ensure", "connect", "request", "await"}
    BY <1>0, <1>1 DEF TypeOK
  <2>2. /\ generations' \in Nat /\ operations' \in Nat
        /\ spawned' \in Nat /\ routes' \in SUBSET Server /\ running' \in SUBSET (Nat \ {NoProcess})
        /\ process' \in [Server -> Nat] /\ initialized' \in [Server -> BOOLEAN]
        /\ frames' \in [Server -> Seq([id : Nat, reply : Reply])]
        /\ greeted' \in SUBSET Nat
    BY <1>0, <1>1 DEF TypeOK
  <2>3. pending' \in [Server -> Seq(Nat \ {Notification})] /\ op' \in OpType /\ TypeOK
    BY <1>0, <1>2, <1>5
  <2> HIDE DEF Elem
  <2> QED
    BY <2>a, <2>1, <2>2, <2>3, TypeParts, Zenon
<1>7. Owed(s)'
  <2>1. \A k \in DOMAIN frames'[s] : frames'[s][k].id = Notification
    BY <1>0, <1>1, <1>3 DEF Clean
  <2>2. Len(<<nextId>>) = 1 /\ DOMAIN <<nextId>> = {1} /\ <<nextId>>[1] = nextId
    OBVIOUS
  <2>3. nextId # Notification
    BY <1>0
  <2> QED
    BY <1>2, <1>5, <2>1, <2>2, <2>3 DEF Owed
<1>8. OneRequest'
  <2> SUFFICES ASSUME NEW t \in Server, t # s PROVE Clean(t)'
    BY <1>1, <1>2, <1>7, Zenon DEF OneRequest
  <2> QED
    BY <1>1, <1>3, <1>5 DEF Clean
<1>9. OneCall'
  BY <1>0, <1>1, <1>2 DEF OneCall
<1>10. Paid'
  BY <1>0, <1>1, <1>2, <1>s DEF Paid, Missing
<1>11. InitializedWasGreeted' /\ NoProcessIsLost'
  BY <1>1 DEF IInv, InitializedWasGreeted, NoProcessIsLost
<1> QED
  BY <1>6, <1>8, <1>9, <1>10, <1>11 DEF IInv

LEMMA GreetKeepsInvariant ==
    ASSUME IInv, Greet PROVE IInv'
<1>1. pc = "connect" /\ Send("initialize") /\ called' = called
  BY DEF Greet
<1>2. called \in Nat /\ called <= 1 /\ (op.kind = "call" => called = 0)
  BY <1>1 DEF IInv, TypeOK, OneCall
<1> QED
  BY <1>1, <1>2, SendKeepsInvariant

LEMMA RequestKeepsInvariant ==
    ASSUME IInv, Request PROVE IInv'
<1>1. /\ pc = "request" /\ Send(Method(op.kind))
      /\ called' = IF op.kind = "call" THEN called + 1 ELSE called
  BY DEF Request
<1>2. op.kind \in Kind
  BY <1>1 DEF IInv, TypeOK
<1>3. /\ Method(op.kind) \in {"tools/list", "tools/call", "resources/list", "resources/read"}
      /\ op.kind = "call" => Method(op.kind) = "tools/call"
  BY <1>2 DEF Kind, Method, Discovers
<1>4. called \in Nat /\ called <= 1 /\ (op.kind = "call" => called = 0)
  BY <1>1 DEF IInv, TypeOK, OneCall
<1> QED
  BY <1>1, <1>3, <1>4, SendKeepsInvariant

\* With the answer read, nothing is left: it was the only one.
LEMMA AnswerIsLast ==
    ASSUME IInv, pc = "await", frames[op.server] # << >>,
           Head(frames[op.server]).id = op.id,
           frames' = [frames EXCEPT ![op.server] = Tail(@)], pending' = pending
    PROVE  /\ frames' \in [Server -> Seq([id : Nat, reply : Reply])]
           /\ pending' \in [Server -> Seq(Nat \ {Notification})]
           /\ \A t \in Server : Clean(t)'
<1> DEFINE Frame == [id : Nat, reply : Reply]
<1>s. PICK s \in Server : s = op.server
  BY DEF IInv, TypeOK
<1>1. /\ frames \in [Server -> Seq(Frame)] /\ frames[s] \in Seq(Frame) /\ frames[s] # << >>
      /\ frames' = [frames EXCEPT ![s] = Tail(@)]
  BY <1>s DEF IInv, TypeOK
<1>2. Owed(s)
  BY <1>s DEF IInv, OneRequest
<1> HIDE DEF Frame
<1>3. /\ Tail(frames[s]) \in Seq(Frame) /\ Len(frames[s]) \in Nat \ {0}
      /\ DOMAIN frames[s] = 1..Len(frames[s])
      /\ DOMAIN Tail(frames[s]) = 1..(Len(frames[s]) - 1)
      /\ \A k \in 1..(Len(frames[s]) - 1) : Tail(frames[s])[k] = frames[s][k + 1]
  <2>1. Tail(frames[s]) \in Seq(Frame) /\ Len(Tail(frames[s])) = Len(frames[s]) - 1
    BY <1>1, HeadTailProperties
  <2>2. Len(frames[s]) \in Nat \ {0}
    BY <1>1, EmptySeq, Zenon
  <2>3. DOMAIN frames[s] = 1..Len(frames[s]) /\ DOMAIN Tail(frames[s]) = 1..Len(Tail(frames[s]))
    BY <1>1, <2>1, LenProperties
  <2> QED
    BY <1>1, <2>1, <2>2, <2>3, HeadTailProperties
<1>4. 1 \in DOMAIN frames[s] /\ frames[s][1].id = op.id
  BY <1>1, <1>3, <1>s
<1>5. pending[s] = << >>
  BY <1>2, <1>4 DEF Owed
<1>6. \A k \in DOMAIN frames[s] : k # 1 => frames[s][k].id = Notification
  BY <1>2, <1>4 DEF Owed
<1>7. /\ frames' \in [Server -> Seq(Frame)] /\ frames'[s] = Tail(frames[s])
      /\ \A t \in Server \ {s} : frames'[t] = frames[t]
  BY <1>1, <1>3
<1>8. \A k \in DOMAIN frames'[s] : frames'[s][k].id = Notification
  <2> SUFFICES ASSUME NEW k \in 1..(Len(frames[s]) - 1)
               PROVE frames'[s][k].id = Notification
    BY <1>3, <1>7
  <2>1. k + 1 \in DOMAIN frames[s] /\ k + 1 # 1
    BY <1>3
  <2>2. frames[s][k + 1].id = Notification
    BY <1>6, <2>1
  <2>3. frames'[s][k] = frames[s][k + 1]
    BY <1>3, <1>7
  <2> QED
    BY <2>2, <2>3
<1>9. ASSUME NEW t \in Server PROVE Clean(t)'
  <2>1. CASE t = s
    BY <1>5, <1>8, <2>1 DEF Clean
  <2>2. CASE t # s
    BY <1>s, <1>7, <2>2 DEF IInv, OneRequest, Clean
  <2> QED
    BY <2>1, <2>2
<1>10. pending' \in [Server -> Seq(Nat \ {Notification})]
  BY DEF IInv, TypeOK
<1> QED
  BY <1>7, <1>9, <1>10 DEF Frame

\* The same for everything a step with a link promises.
LEMMA AnswerLinks ==
    ASSUME IInv, pc = "await", frames[op.server] # << >>,
           Head(frames[op.server]).id = op.id,
           frames' = [frames EXCEPT ![op.server] = Tail(@)],
           UNCHANGED <<process, initialized, running, pending, greeted>>
    PROVE  Links(op.server)
<1>1. InitializedWasGreeted' /\ NoProcessIsLost'
  BY DEF IInv, InitializedWasGreeted, NoProcessIsLost
<1> QED
  BY <1>1, AnswerIsLast DEF Links, IInv, TypeOK

LEMMA ReadGreetingKeepsInvariant ==
    ASSUME IInv, ReadGreeting PROVE IInv'
<1>s. PICK s \in Server : s = op.server
  BY DEF IInv, TypeOK, ReadGreeting, Read
<1>1. /\ pc = "await" /\ pc' = "request" /\ op.method = "initialize"
      /\ frames[s] # << >> /\ Head(frames[s]).id = op.id
      /\ initialized' = [initialized EXCEPT ![s] = TRUE]
      /\ greeted' = greeted \cup {process[s]}
      /\ frames' = [frames EXCEPT ![s] = Tail(@)]
      /\ UNCHANGED <<process, running, pending, routes, op, spawned, nextId, generations,
                     operations, called>>
  BY <1>s DEF ReadGreeting, Read
<1>2. TypeOK /\ OneCall /\ Paid
  BY DEF IInv
<1>3. /\ initialized' \in [Server -> BOOLEAN]
      /\ \A t \in Server \ {s} : initialized'[t] = initialized[t]
  BY <1>1, <1>2 DEF TypeOK
<1>4. InitializedWasGreeted'
  <2> SUFFICES ASSUME NEW t \in Server, initialized'[t] PROVE process[t] \in greeted'
    BY <1>1, Zenon DEF InitializedWasGreeted
  <2>1. CASE t = s
    BY <1>1, <2>1
  <2>2. CASE t # s
    BY <1>1, <1>3, <2>2 DEF IInv, InitializedWasGreeted
  <2> QED
    BY <2>1, <2>2
<1>5. Links(op.server)
  <2>1. NoProcessIsLost'
    BY <1>1 DEF IInv, NoProcessIsLost
  <2> QED
    BY <1>s, <1>1, <1>2, <1>3, <1>4, <2>1, AnswerIsLast DEF Links, TypeOK
<1>6. greeted' \in SUBSET Nat
  BY <1>1, <1>2, ZenonT(60) DEF TypeOK
<1>7. /\ op.kind = "call" => called = 0
      /\ spawned' <= 4
      /\ (spawned + Missing(op.server) <= 1 + 2 * op.attempts + op.greets)'
  BY <1>1, <1>2 DEF OneCall, Paid, Missing
<1> QED
  BY <1>1, <1>2, <1>5, <1>6, <1>7, QuietStepKeepsInvariant DEF TypeOK

LEMMA ReadPageKeepsInvariant ==
    ASSUME IInv, ReadPage PROVE IInv'
<1>0. /\ TypeOK /\ OneCall /\ Paid /\ pc = "await"
  BY DEF IInv, ReadPage, Read
<1>1. /\ UNCHANGED <<nextId, generations, operations, called, greeted>>
      /\ Links(op.server)
  BY AnswerLinks DEF ReadPage, Read
<1>2. CASE Finish(TRUE)
  BY <1>0, <1>1, <1>2, FinishKeepsInvariant DEF TypeOK
<1>3. CASE /\ op.method \in {"tools/list", "resources/list"}
           /\ pc' = "request" /\ op' = op
           /\ UNCHANGED <<routes, spawned>>
  <2>1. op \in OpType
    BY <1>0 DEF TypeOK, OpType
  <2>2. /\ op' \in OpType /\ op'.kind = op.kind /\ op'.server = op.server /\ op'.todo = op.todo
        /\ op'.attempts = op.attempts /\ op'.greets = op.greets
    BY <1>3, <2>1 DEF OpType
  <2>3. process' = process
    BY DEF ReadPage
  <2>4. op'.server \in Server /\ op'.kind \in Kind
    BY <1>0, <2>2 DEF TypeOK
  <2>5. TypeOK'
    BY <1>0, <1>1, <1>3, <2>2, <2>4 DEF TypeOK, OpType, Links
  <2>6. OneRequest'
    BY <1>1, <1>3 DEF OneRequest, Links
  <2>7. OneCall'
    BY <1>0, <1>1, <1>3, <2>2 DEF OneCall
  <2>8. Paid'
    BY <1>0, <1>3, <2>2, <2>3 DEF Paid, Missing
  <2> QED
    BY <1>1, <2>5, <2>6, <2>7, <2>8, Zenon DEF IInv, Links
<1> QED
  BY <1>2, <1>3 DEF ReadPage

LEMMA ReadFaultKeepsInvariant ==
    ASSUME IInv, ReadFault PROVE IInv'
<1> DEFINE frame == Head(frames[op.server])
<1>1. /\ pc = "await" /\ frames[op.server] # << >>
      /\ UNCHANGED <<nextId, generations, operations, called, greeted>>
  BY DEF ReadFault, Read
<1>2. CASE FaultOf(frame) = "rpc"
  <2>1. frame.id = op.id
    BY <1>2 DEF FaultOf
  <2>2. /\ frames' = [frames EXCEPT ![op.server] = Tail(@)]
        /\ UNCHANGED <<process, initialized, running, pending>> /\ Finish(FALSE)
    BY <1>2 DEF ReadFault
  <2>3. Links(op.server)
    BY <1>1, <2>1, <2>2, AnswerLinks
  <2> QED
    BY <1>1, <2>2, <2>3, FinishKeepsInvariant DEF IInv, TypeOK
<1>3. CASE FaultOf(frame) # "rpc"
  <2>1. Fails("invalid")
    BY <1>3 DEF ReadFault, FaultOf
  <2> QED
    BY <1>1, <2>1, FailsKeepsInvariant DEF ShouldReset
<1> QED
  BY <1>2, <1>3

LEMMA BrokenCallKeepsInvariant ==
    ASSUME IInv, LinkBreaks \/ TimesOut PROVE IInv'
<1>1. PICK fault \in {"transport", "timeout"} : pc = "await" /\ Fails(fault)
  BY DEF LinkBreaks, TimesOut
<1>2. ShouldReset(fault)
  BY DEF ShouldReset
<1> QED
  BY <1>1, <1>2, FailsKeepsInvariant DEF LinkBreaks, TimesOut

LEMMA ShutdownKeepsInvariant ==
    ASSUME IInv, Shutdown PROVE IInv'
<1>1. /\ pc = "idle" /\ pc' = "idle" /\ running' = running \ {process[s] : s \in Server}
      /\ process' = [s \in Server |-> NoProcess] /\ initialized' = [s \in Server |-> FALSE]
      /\ pending' = [s \in Server |-> << >>] /\ frames' = [s \in Server |-> << >>]
      /\ UNCHANGED <<routes, nextId, op, generations, operations, greeted, spawned, called>>
  BY DEF Shutdown
<1>2. TypeOK'
  <2>1. /\ process' \in [Server -> Nat] /\ initialized' \in [Server -> BOOLEAN]
        /\ running' \in SUBSET (Nat \ {NoProcess})
    BY <1>1 DEF IInv, TypeOK, NoProcess
  <2>2. /\ pending' \in [Server -> Seq(Nat \ {Notification})]
        /\ frames' \in [Server -> Seq([id : Nat, reply : Reply])]
    BY <1>1
  <2> QED
    BY <1>1, <2>1, <2>2 DEF IInv, TypeOK
<1>3. InitializedWasGreeted'
  BY <1>1 DEF InitializedWasGreeted
<1>4. NoProcessIsLost'
  <2>1. running' = {}
    BY <1>1 DEF IInv, TypeOK, NoProcessIsLost
  <2> QED
    BY <2>1 DEF NoProcessIsLost
<1>5. OneRequest'
  BY <1>1 DEF OneRequest, Clean
<1>6. OneCall' /\ Paid'
  BY <1>1 DEF IInv, OneCall, Paid
<1> QED
  BY <1>2, <1>3, <1>4, <1>5, <1>6 DEF IInv

(***************************************************************************)
(* The invariant and what it says.                                         *)
(***************************************************************************)

LEMMA InitInvariant == Init => IInv
<1> SUFFICES ASSUME Init PROVE IInv
  OBVIOUS
<1>1. NoOp \in OpType
  BY DEF NoOp, OpType
<1>2. TypeOK
  <2>1. /\ pending \in [Server -> Seq(Nat \ {Notification})]
        /\ frames \in [Server -> Seq([id : Nat, reply : Reply])]
    BY DEF Init
  <2> QED
    BY <1>1, <2>1 DEF Init, TypeOK, OpType, NoProcess
<1>3. OneRequest
  BY DEF Init, OneRequest, Clean
<1>4. OneCall /\ Paid
  BY DEF Init, OneCall, Paid, NoOp
<1> QED
  BY <1>2, <1>3, <1>4 DEF Init, IInv, InitializedWasGreeted, NoProcessIsLost

LEMMA StepKeepsInvariant == IInv /\ [Next]_vars => IInv'
<1> SUFFICES ASSUME IInv, [Next]_vars PROVE IInv'
  OBVIOUS
<1>1. CASE Begin
  BY <1>1, BeginKeepsInvariant
<1>2. CASE Manager
  BY <1>2, NoticeExitKeepsInvariant, SpawnKeepsInvariant, SpawnFailsKeepsInvariant,
     GreetKeepsInvariant, AlreadyGreetedKeepsInvariant, RequestKeepsInvariant,
     ReadGreetingKeepsInvariant, ReadPageKeepsInvariant, ReadFaultKeepsInvariant,
     BrokenCallKeepsInvariant DEF Manager
<1>3. CASE Shutdown
  BY <1>3, ShutdownKeepsInvariant
<1>4. CASE \E s \in Server : Answers(s) \/ Notifies(s) \/ Exits(s)
  BY <1>4, AnswersKeepsInvariant, NotifiesKeepsInvariant, ExitsKeepsInvariant
<1>5. CASE UNCHANGED vars
  <2>1. Elsewhere /\ running' = running /\ pending' = pending /\ frames' = frames
    BY <1>5 DEF vars, Elsewhere
  <2>2. OneRequest'
    BY <2>1 DEF IInv, OneRequest, Clean, Owed, Elsewhere
  <2> QED
    BY <2>1, <2>2, ElsewhereKeepsInvariant DEF IInv, TypeOK
<1> QED
  BY <1>1, <1>2, <1>3, <1>4, <1>5 DEF Next

THEOREM Invariant == Spec => []IInv
<1>1. Init => IInv
  BY InitInvariant
<1>2. IInv /\ [Next]_vars => IInv'
  BY StepKeepsInvariant
<1> QED
  BY <1>1, <1>2, PTL DEF Spec

\* Every reachable state of the manager is well typed.
THEOREM TypeCorrect == Spec => []TypeOK
<1>1. IInv => TypeOK
  BY DEF IInv
<1> QED
  BY <1>1, Invariant, PTL

\* An answer to a request that was given up never meets the next request.
THEOREM AnswersAreFresh == Spec => []NoStaleAnswers
<1>1. IInv => NoStaleAnswers
  <2> SUFFICES ASSUME IInv, NEW s \in Server
               PROVE {pending[s][i] : i \in DOMAIN pending[s]}
                       \cup {frames[s][i].id : i \in DOMAIN frames[s]}
                     \subseteq {Notification}
                         \cup (IF pc = "await" /\ op.server = s THEN {op.id} ELSE {})
    BY DEF NoStaleAnswers
  <2>1. CASE pc = "await" /\ op.server = s
    BY <2>1 DEF IInv, OneRequest, Owed
  <2>2. CASE ~(pc = "await" /\ op.server = s)
    <3>1. pending[s] = << >> /\ \A i \in DOMAIN frames[s] : frames[s][i].id = Notification
      BY <2>2 DEF IInv, OneRequest, Clean
    <3> QED
      BY <3>1
  <2> QED
    BY <2>1, <2>2
<1> QED
  BY <1>1, Invariant, PTL

\* Only a process that has answered a greeting itself is taken for initialized,
\* and no process runs that the manager does not hold.
THEOREM ProcessesAreKnown == Spec => []EveryProcessIsKnown
<1>1. IInv => EveryProcessIsKnown
  BY DEF IInv, EveryProcessIsKnown
<1> QED
  BY <1>1, Invariant, PTL

\* However requests fail, a call runs its tool once at most and starts no more
\* processes than its retries pay for.
THEOREM RetriesAreBounded == Spec => []NestedRetriesAreBounded
<1>1. IInv => NestedRetriesAreBounded
  <2> SUFFICES ASSUME IInv PROVE ToolsRunOnce /\ SpawnsAreBounded
    BY DEF NestedRetriesAreBounded
  <2>1. called <= 1 /\ spawned <= 4 /\ spawned \in Nat
    BY DEF IInv, OneCall, Paid, TypeOK
  <2>2. ASSUME op.kind = "call" PROVE spawned <= 2
    <3>1. pc # "idle" /\ op.attempts = 0 /\ op.greets \in 0..1 /\ op.server \in Server
      BY <2>2 DEF IInv, OneCall, TypeOK
    <3> QED
      BY <2>1, <2>2, <3>1 DEF IInv, Paid, Missing
  <2> QED
    BY <2>1, <2>2 DEF ToolsRunOnce, SpawnsAreBounded
<1> QED
  BY <1>1, Invariant, PTL

(***************************************************************************)
(* A best-effort discovery goes on.                                        *)
(***************************************************************************)

\* Between two calls nothing is in progress.
Rests == pc = "idle" => op = NoOp

\* A step ends the call in progress only when nothing is left of it.
EndsWhole ==
    /\ pc' = "idle" => op' = NoOp
    /\ op.kind = "discover_best_effort" /\ pc' = "idle" => op.todo = {}

LEMMA FinishEndsWhole == ASSUME NEW ok, Finish(ok) PROVE EndsWhole
  BY DEF Finish, EndsWhole

LEMMA FailsEndsWhole == ASSUME NEW fault, Fails(fault) PROVE EndsWhole
<1>1. ASSUME NEW attempts, NEW greets, Again(attempts, greets) PROVE EndsWhole
  BY <1>1 DEF Again, EndsWhole
<1>2. Finish(FALSE) => EndsWhole
  BY FinishEndsWhole
<1> QED
  BY <1>1, <1>2 DEF Fails

LEMMA NextEndsWhole ==
    ASSUME Rests, [Next]_vars PROVE EndsWhole
<1>1. ASSUME UNCHANGED <<pc, op>> PROVE EndsWhole
  BY <1>1 DEF Rests, EndsWhole, NoOp
<1>2. ASSUME pc' # "idle" PROVE EndsWhole
  BY <1>2 DEF EndsWhole
<1>3. CASE Begin
  BY <1>2, <1>3 DEF Begin
<1>4. CASE Manager
  <2>1. CASE NoticeExit \/ Spawn \/ Greet \/ AlreadyGreeted \/ Request \/ ReadGreeting
    BY <1>2, <2>1 DEF NoticeExit, Spawn, Greet, AlreadyGreeted, Request, ReadGreeting, Send
  <2>2. CASE SpawnFails \/ LinkBreaks \/ TimesOut
    BY <2>2, FailsEndsWhole DEF SpawnFails, LinkBreaks, TimesOut
  <2>3. CASE ReadPage
    BY <1>2, <2>3, FinishEndsWhole DEF ReadPage
  <2>4. CASE ReadFault
    BY <2>4, FailsEndsWhole, FinishEndsWhole DEF ReadFault
  <2> QED
    BY <1>4, <2>1, <2>2, <2>3, <2>4 DEF Manager
<1>5. CASE Shutdown
  BY <1>1, <1>5 DEF Shutdown
<1>6. CASE \E s \in Server : Answers(s) \/ Notifies(s) \/ Exits(s)
  BY <1>1, <1>6 DEF Answers, Notifies, Exits
<1>7. CASE UNCHANGED vars
  BY <1>1, <1>7 DEF vars
<1> QED
  BY <1>3, <1>4, <1>5, <1>6, <1>7 DEF Next

\* Whatever fails on the way, a best-effort discovery has asked every server
\* when it ends.
THEOREM BestEffortAsksAll == Spec => BestEffortAsksEveryServer
<1>1. Init => Rests
  BY DEF Init, Rests
<1>2. Rests /\ [Next]_vars => Rests'
  BY NextEndsWhole DEF EndsWhole, Rests
<1>3. Rests /\ [Next]_vars =>
          [op.kind = "discover_best_effort" /\ pc' = "idle" => op.todo = {}]_vars
  BY NextEndsWhole DEF EndsWhole
<1> QED
  BY <1>1, <1>2, <1>3, PTL DEF Spec, BestEffortAsksEveryServer

=============================================================================
