----------------------------- MODULE McpManager -----------------------------
(***************************************************************************)
(* McpServerManager of runtime/src/mcp_stdio.rs: it starts the configured  *)
(* tool servers as child processes, greets them, and asks them one request *)
(* at a time over their pipes.  Each request has a timeout; a request that *)
(* is given up may still be answered, so its process is replaced.          *)
(*                                                                         *)
(* A tool is known by the server it is routed to: tool_index is the set of *)
(* servers with routes.  Killing a process succeeds.                       *)
(***************************************************************************)
EXTENDS Naturals, Sequences, FiniteSets

CONSTANTS Server,
          MaxOperations,   \* bound: calls of the manager
          MaxId,           \* the largest request id: the counter stays there
          MaxFrames        \* bound: unread frames of a process

ASSUME McpAssumption ==
    MaxOperations \in Nat /\ MaxId \in Nat \ {0} /\ MaxFrames \in Nat \ {0}

NoProcess == 0

VARIABLES process,      \* generation of the process the manager holds, per server
          initialized,  \* it has answered `initialize`
          routes,       \* servers with tools in tool_index
          running,      \* generations alive in the operating system
          pending,      \* requests a server's process has not answered yet
          frames,       \* frames it has written and nobody has read
          nextId,       \* next_request_id
          pc,           \* idle, ensure, connect, request, await
          op,           \* the call in progress
          generations,  \* processes started so far
          operations,   \* calls so far
          greeted,      \* generations that have answered `initialize`
          spawned,      \* processes started for one server by the call in progress
          called        \* tools/call requests sent by the call in progress

vars == <<process, initialized, routes, running, pending, frames, nextId, pc, op,
          generations, operations, greeted, spawned, called>>

links == <<process, initialized, running, pending, frames>>

Kind == {"discover", "discover_best_effort", "call", "list", "read"}
Discovers(kind) == kind \in {"discover", "discover_best_effort"}

Method(kind) ==
    CASE Discovers(kind) -> "tools/list" [] kind = "call" -> "tools/call"
      [] kind = "list" -> "resources/list" [] kind = "read" -> "resources/read"

\* A response as run_process_request and its callers see it.  An id of 0 is a
\* notification, which is no response.
Reply == {"result", "more", "no_result", "rpc_error", "garbage"}
Notification == 0

\* McpServerManagerError
Fault == {"io", "transport", "timeout", "invalid", "rpc"}
IsRetryable(fault) == fault \in {"transport", "timeout"}

\* Variant: a timeout leaves the process alone.
ShouldReset_NotOnTimeout(fault) == fault \in {"transport", "invalid"}

ShouldReset(fault) == fault \in {"transport", "timeout", "invalid"}

NoOp == [kind |-> "none", server |-> "none", todo |-> {}, attempts |-> 0, greets |-> 0,
         id |-> 0, method |-> "none"]

Init ==
    /\ process = [s \in Server |-> NoProcess] /\ initialized = [s \in Server |-> FALSE]
    /\ routes = {} /\ running = {}
    /\ pending = [s \in Server |-> << >>] /\ frames = [s \in Server |-> << >>]
    /\ nextId = 1 /\ pc = "idle" /\ op = NoOp
    /\ generations = 0 /\ operations = 0
    /\ greeted = {} /\ spawned = 0 /\ called = 0

----------------------------------------------------------------------------
(* Processes *)

\* Variant: the old process is dropped and lives on.
Reset_WithoutKilling(s) ==
    /\ process' = [process EXCEPT ![s] = NoProcess]
    /\ initialized' = [initialized EXCEPT ![s] = FALSE]
    /\ running' = running
    /\ pending' = [pending EXCEPT ![s] = << >>]
    /\ frames' = [frames EXCEPT ![s] = << >>]

\* reset_server: the process goes, and with it what was asked and said.
Reset(s) ==
    /\ process' = [process EXCEPT ![s] = NoProcess]
    /\ initialized' = [initialized EXCEPT ![s] = FALSE]
    /\ running' = running \ {process[s]}
    /\ pending' = [pending EXCEPT ![s] = << >>]
    /\ frames' = [frames EXCEPT ![s] = << >>]

\* A process writes the answer to the oldest request, and may name another page
\* as often as it is asked.
Answers(s) == \E reply \in Reply :
    /\ process[s] \in running /\ pending[s] # << >> /\ Len(frames[s]) < MaxFrames
    /\ frames' = [frames EXCEPT ![s] = Append(@, [id |-> Head(pending[s]), reply |-> reply])]
    /\ pending' = [pending EXCEPT ![s] = Tail(@)]
    /\ UNCHANGED <<process, initialized, routes, running, nextId, pc, op, generations,
                   operations, greeted, spawned, called>>

\* A process says something nobody asked for.
Notifies(s) ==
    /\ process[s] \in running /\ Len(frames[s]) < MaxFrames
    /\ frames' = [frames EXCEPT ![s] = Append(@, [id |-> Notification, reply |-> "garbage"])]
    /\ UNCHANGED <<process, initialized, routes, running, pending, nextId, pc, op,
                   generations, operations, greeted, spawned, called>>

\* A process ends by itself.
Exits(s) ==
    /\ process[s] \in running
    /\ running' = running \ {process[s]}
    /\ UNCHANGED <<process, initialized, routes, pending, frames, nextId, pc, op,
                   generations, operations, greeted, spawned, called>>

----------------------------------------------------------------------------
(* The call in progress, on server op.server *)

\* A call begins.  discover_tools goes from server to server; the order is
\* left open here.
Begin == \E kind \in Kind, s \in Server :
    /\ pc = "idle" /\ operations < MaxOperations
    /\ kind = "call" => s \in routes
    /\ op' = [NoOp EXCEPT !.kind = kind, !.server = s,
                          !.todo = IF Discovers(kind) THEN Server \ {s} ELSE {}]
    /\ pc' = "ensure" /\ operations' = operations + 1
    /\ spawned' = 0 /\ called' = 0
    /\ UNCHANGED <<links, routes, nextId, generations, greeted>>

\* Variant: every discovery ends at the first failure.
Finish_AtAFailure(ok) ==
    /\ routes' = IF ~Discovers(op.kind) THEN routes
                 ELSE IF ok THEN routes \cup {op.server}
                 ELSE IF op.kind = "discover" THEN routes ELSE routes \ {op.server}
    /\ IF op.todo # {} /\ ok
       THEN \E s \in op.todo :
                /\ op' = [NoOp EXCEPT !.kind = op.kind, !.server = s, !.todo = op.todo \ {s}]
                /\ pc' = "ensure" /\ spawned' = 0
       ELSE op' = NoOp /\ pc' = "idle" /\ UNCHANGED spawned

\* The rest of a call is done with one server: routes are replaced, and a
\* discovery goes on with the next unless it is strict and has failed.
Finish(ok) ==
    /\ routes' = IF ~Discovers(op.kind) THEN routes
                 ELSE IF ok THEN routes \cup {op.server}
                 ELSE IF op.kind = "discover" THEN routes ELSE routes \ {op.server}
    /\ IF op.todo # {} /\ (ok \/ op.kind = "discover_best_effort")
       THEN \E s \in op.todo :
                /\ op' = [NoOp EXCEPT !.kind = op.kind, !.server = s, !.todo = op.todo \ {s}]
                /\ pc' = "ensure" /\ spawned' = 0
       ELSE op' = NoOp /\ pc' = "idle" /\ UNCHANGED spawned

\* Another try from the beginning, on a fresh process.
Again(attempts, greets) ==
    /\ Reset(op.server)
    /\ op' = [op EXCEPT !.attempts = attempts, !.greets = greets]
    /\ pc' = IF greets = 0 THEN "ensure" ELSE "connect"
    /\ UNCHANGED <<routes, spawned>>

\* Variant: a tool call is tried again like everything else.
Fails_RetriesCalls(fault) ==
    IF op.method = "initialize" /\ IsRetryable(fault) /\ op.greets = 0
    THEN Again(op.attempts, 1)
    ELSE IF IsRetryable(fault) /\ op.attempts = 0
    THEN Again(1, 0)
    ELSE /\ IF ShouldReset(fault) THEN Reset(op.server) ELSE UNCHANGED links
         /\ Finish(FALSE)

\* The two retry loops, one inside the other: the greeting of a process is
\* tried twice, everything but a tool call as well.
Fails(fault) ==
    IF op.method = "initialize" /\ IsRetryable(fault) /\ op.greets = 0
    THEN Again(op.attempts, 1)
    ELSE IF op.kind # "call" /\ IsRetryable(fault) /\ op.attempts = 0
    THEN Again(1, 0)
    ELSE /\ IF ShouldReset(fault) THEN Reset(op.server) ELSE UNCHANGED links
         /\ Finish(FALSE)

\* ensure_server_ready begins with a look at the process.
NoticeExit ==
    /\ pc = "ensure" /\ pc' = "connect"
    /\ IF process[op.server] # NoProcess /\ process[op.server] \notin running
       THEN Reset(op.server) ELSE UNCHANGED links
    /\ UNCHANGED <<routes, nextId, op, generations, operations, greeted, spawned, called>>

Spawn == LET s == op.server IN
    /\ pc = "connect" /\ process[s] = NoProcess
    /\ generations' = generations + 1 /\ spawned' = spawned + 1
    /\ process' = [process EXCEPT ![s] = generations + 1]
    /\ initialized' = [initialized EXCEPT ![s] = FALSE]
    /\ running' = running \cup {generations + 1}
    /\ UNCHANGED <<routes, pending, frames, nextId, pc, op, operations, greeted, called>>

SpawnFails ==
    /\ pc = "connect" /\ process[op.server] = NoProcess
    /\ Fails("io")
    /\ UNCHANGED <<nextId, generations, operations, greeted, called>>

\* A request is written under the id of take_request_id.
Send(method) ==
    /\ op' = [op EXCEPT !.method = method, !.id = nextId]
    /\ nextId' = IF nextId >= MaxId THEN nextId ELSE nextId + 1
    /\ pc' = "await"
    /\ pending' = [pending EXCEPT ![op.server] = Append(@, nextId)]
    /\ UNCHANGED <<process, initialized, running, frames, routes, generations,
                   operations, greeted, spawned>>

Greet ==
    /\ pc = "connect" /\ process[op.server] # NoProcess /\ ~initialized[op.server]
    /\ Send("initialize") /\ UNCHANGED called

AlreadyGreeted ==
    /\ pc = "connect" /\ process[op.server] # NoProcess /\ initialized[op.server]
    /\ pc' = "request"
    /\ UNCHANGED <<links, routes, nextId, op, generations, operations, greeted, spawned, called>>

Request ==
    /\ pc = "request" /\ Send(Method(op.kind))
    /\ called' = IF op.kind = "call" THEN called + 1 ELSE called

\* What a caller takes for an answer: call_tool passes on errors of the tool.
Accepted == {"result", "more"} \cup
            (IF op.method = "tools/call" THEN {"no_result", "rpc_error"} ELSE {})

\* A frame is read.
Read(ok) ==
    /\ pc = "await" /\ frames[op.server] # << >>
    /\ LET frame == Head(frames[op.server]) IN ok <=> frame.id = op.id /\ frame.reply \in Accepted
    /\ UNCHANGED <<nextId, generations, operations, called>>

ReadGreeting ==
    /\ Read(TRUE) /\ op.method = "initialize"
    /\ initialized' = [initialized EXCEPT ![op.server] = TRUE]
    /\ greeted' = greeted \cup {process[op.server]}
    /\ frames' = [frames EXCEPT ![op.server] = Tail(@)]
    /\ pc' = "request"
    /\ UNCHANGED <<process, running, pending, routes, op, spawned>>

\* A page, or all there is.
ReadPage ==
    /\ Read(TRUE) /\ op.method # "initialize"
    /\ frames' = [frames EXCEPT ![op.server] = Tail(@)]
    /\ UNCHANGED <<process, initialized, running, pending, greeted>>
    /\ IF Head(frames[op.server]).reply = "more" /\ op.method \in {"tools/list", "resources/list"}
       THEN pc' = "request" /\ UNCHANGED <<op, routes, spawned>>
       ELSE Finish(TRUE)

\* Bytes that do not parse and ids that do not match are InvalidData.
FaultOf(frame) ==
    IF frame.id = op.id /\ frame.reply = "rpc_error" THEN "rpc" ELSE "invalid"

\* The frame is consumed; the outcome is an error, which may replace the process.
ReadFault == LET frame == Head(frames[op.server]) IN
    /\ Read(FALSE) /\ UNCHANGED greeted
    /\ IF FaultOf(frame) = "rpc"
       THEN /\ frames' = [frames EXCEPT ![op.server] = Tail(@)]
            /\ UNCHANGED <<process, initialized, running, pending>>
            /\ Finish(FALSE)
       ELSE Fails(FaultOf(frame))

\* The process is gone: the write or the read fails.
LinkBreaks ==
    /\ pc = "await" /\ process[op.server] \notin running
    /\ Fails("transport")
    /\ UNCHANGED <<nextId, generations, operations, greeted, called>>

\* Variant: the greeting has no timeout.
TimesOut_NotForGreetings ==
    /\ pc = "await" /\ op.method # "initialize"
    /\ Fails("timeout")
    /\ UNCHANGED <<nextId, generations, operations, greeted, called>>

\* The timeout may win over any answer.
TimesOut ==
    /\ pc = "await"
    /\ Fails("timeout")
    /\ UNCHANGED <<nextId, generations, operations, greeted, called>>

\* shutdown, when no call is in progress.
Shutdown ==
    /\ pc = "idle" /\ \E s \in Server : process[s] # NoProcess
    /\ process' = [s \in Server |-> NoProcess] /\ initialized' = [s \in Server |-> FALSE]
    /\ running' = running \ {process[s] : s \in Server}
    /\ pending' = [s \in Server |-> << >>] /\ frames' = [s \in Server |-> << >>]
    /\ UNCHANGED <<routes, nextId, pc, op, generations, operations, greeted, spawned, called>>

Manager == \/ NoticeExit \/ Spawn \/ SpawnFails \/ Greet \/ AlreadyGreeted \/ Request
           \/ ReadGreeting \/ ReadPage \/ ReadFault \/ LinkBreaks \/ TimesOut

Next == \/ Begin \/ Manager \/ Shutdown
        \/ \E s \in Server : Answers(s) \/ Notifies(s) \/ Exits(s)

\* The call in progress goes on by itself: a request that is not answered is
\* ended by its timeout.
Spec == Init /\ [][Next]_vars /\ WF_vars(Manager)

----------------------------------------------------------------------------
TypeOK ==
    /\ process \in [Server -> Nat] /\ initialized \in [Server -> BOOLEAN]
    /\ routes \in SUBSET Server /\ running \in SUBSET (Nat \ {NoProcess})
    /\ pending \in [Server -> Seq(Nat \ {Notification})]
    /\ frames \in [Server -> Seq([id : Nat, reply : Reply])]
    /\ nextId \in Nat \ {0} /\ pc \in {"idle", "ensure", "connect", "request", "await"}
    /\ op \in [kind : Kind \cup {"none"}, server : Server \cup {"none"}, todo : SUBSET Server,
               attempts : 0..1, greets : 0..1, id : Nat,
               method : {"none", "initialize", "tools/list", "tools/call",
                         "resources/list", "resources/read"}]
    /\ pc # "idle" => op.server \in Server /\ op.kind \in Kind
    /\ generations \in Nat /\ operations \in Nat
    /\ greeted \in SUBSET Nat /\ spawned \in Nat /\ called \in Nat

\* What a process still owes, or has said and nobody has read, belongs to the
\* one request that is being waited for: the answer to a request that was given
\* up is never left in the way of the next.
NoStaleAnswers ==
    \A s \in Server :
        LET owed == {pending[s][i] : i \in DOMAIN pending[s]}
                      \cup {frames[s][i].id : i \in DOMAIN frames[s]}
        IN  owed \subseteq {Notification}
                             \cup (IF pc = "await" /\ op.server = s THEN {op.id} ELSE {})

\* A process that is taken for initialized has answered a greeting itself, not
\* the one before it.
InitializedWasGreeted ==
    \A s \in Server : initialized[s] => process[s] \in greeted

\* No process is left behind: what runs is what the manager holds.
NoProcessIsLost == running \subseteq {process[s] : s \in DOMAIN process}

\* The manager and the operating system agree on the processes.
EveryProcessIsKnown == InitializedWasGreeted /\ NoProcessIsLost

\* However the two retry loops meet, a call starts at most four processes for
\* a server, and two when it calls a tool.
SpawnsAreBounded == spawned <= (IF op.kind = "call" THEN 2 ELSE 4)

\* A tool is run once at most for a call, whatever fails.
ToolsRunOnce == called <= 1

\* Both, of the request retried in the loop that retries the greeting.
NestedRetriesAreBounded == SpawnsAreBounded /\ ToolsRunOnce

\* A best-effort discovery does not end before every server has been asked,
\* whatever goes wrong with the ones before it.
BestEffortAsksEveryServer ==
    [][op.kind = "discover_best_effort" /\ pc' = "idle" => op.todo = {}]_vars

\* A listing goes on with its next page.
NextPage == ReadPage /\ pc' = "request"

\* Every call comes to an end, whatever is lost, late or wrong, and however often
\* the process has to be replaced.  The one thing that can keep it going is a
\* server that names another page each time: nothing in the program counts them.
CallsEnd == <>[](pc # "idle") => []<><<NextPage>>_vars

=============================================================================
