------------------------------ MODULE Browser ------------------------------
(***************************************************************************)
(* The browser tools (tools/src/steel_browser.rs) and the driver process   *)
(* they talk to over pipes (browser/steel-driver.js).  One driver sits in  *)
(* a slot behind a lock; a call holds the lock from its request to the     *)
(* answer.  The tools of a turn, the threads that evil mode starts and the *)
(* handler of Ctrl+C meet there.  The driver answers one line after the    *)
(* other, but the end of its input and signals reach it at any time.       *)
(*                                                                         *)
(* A page and what is done to it are one request, "use".  A session of the *)
(* cloud browser ("steel") is a number and is billed until it is released. *)
(***************************************************************************)
EXTENDS Naturals, Sequences

CONSTANTS Hijacks,      \* evil mode may start a thread of its own
          MaxCalls,     \* bound: calls of the turns
          MaxDrivers,   \* bound: drivers spawned
          MaxSessions   \* bound: cloud sessions created

Thread == {"loop", "hijack"}

VARIABLES
    program,   \* "running", or how it ended: "left", "interrupted", "killed"
    tui,       \* Ctrl+C in a turn of the terminal interface ends the program
    thread,    \* thread -> the call it makes
    calls,     \* calls begun
    lock,      \* the mutex of sidecar_slot: who holds it
    slot,      \* there is a Sidecar in it
    noted,     \* SIDECAR_PID, or 0
    guard,     \* what the handler of Ctrl+C does next, with the pid it swapped out
    driver,    \* the driver process: its number and state
    stdin,     \* request lines the driver has not taken
    open,      \* the program's end of stdin
    reply,     \* the answer the program has not read
    live,      \* the driver's liveState
    job,       \* the request that the driver works on
    ending,    \* sessions that a shutdown of the driver is releasing
    heard,     \* the driver has seen the end of its input
    signalled, \* a SIGINT has not been delivered to the driver
    cloud,     \* sessions that are billed
    created,   \* sessions created
    faults     \* history: what went wrong outside this code

threadVars == <<program, tui, thread, calls, lock, slot, noted, guard>>
pipeVars == <<stdin, open, reply>>
innerVars == <<live, job, ending, heard, signalled>>
vars == <<threadVars, driver, pipeVars, innerVars, cloud, created, faults>>

NotLive == [backend |-> "none", session |-> 0]
Local == [backend |-> "local", session |-> 0]
Steel(s) == [backend |-> "steel", session |-> s]
NoJob == [method |-> "none", backend |-> "none", stage |-> "none", session |-> 0]
NoReply == [from |-> "none", ok |-> FALSE, live |-> "none"]
Request(method, backend) == [method |-> method, backend |-> backend]

Idle == [op |-> "none", backend |-> "local", method |-> "none", pc |-> "ready"]

Init ==
    /\ program = "running" /\ tui \in BOOLEAN
    /\ thread = [t \in Thread |-> Idle] /\ calls = 0
    /\ lock = "free" /\ slot = FALSE /\ noted = 0
    /\ guard = [pc |-> "waits", aim |-> 0]
    /\ driver = [no |-> 0, state |-> "none"]
    /\ stdin = << >> /\ open = FALSE /\ reply = NoReply
    /\ live = NotLive /\ job = NoJob /\ ending = {} /\ heard = FALSE /\ signalled = FALSE
    /\ cloud = {} /\ created = 0 /\ faults = {}

----------------------------------------------------------------------------
(* The driver process *)

Running == driver.state = "running"

\* What is left when the process is gone, by exit or by a kill: its answer may
\* still be in the pipe, and its cloud session is billed on.
DriverEnds ==
    /\ driver' = [driver EXCEPT !.state = "exited"]
    /\ stdin' = << >> /\ live' = NotLive /\ job' = NoJob /\ ending' = {}

Answers(method, ok) ==
    /\ reply' = [from |-> method, ok |-> ok, live |-> live'.backend]
    /\ job' = NoJob

\* liveHandle up to its first wait.  "stop" and "start" begin with releaseLive,
\* which forgets the session before it releases it.
TakeRequest ==
    /\ Running /\ job = NoJob /\ stdin # << >>
    /\ stdin' = Tail(stdin)
    /\ LET r == Head(stdin)
           Waits(stage) == /\ job' = [method |-> r.method, backend |-> r.backend,
                                      stage |-> stage, session |-> live.session]
                           /\ UNCHANGED reply
       IN  CASE r.method \in {"start", "stop"} /\ live.backend = "steel" ->
                    live' = NotLive /\ Waits("release")
             [] r.method = "start" /\ live.backend # "steel" ->
                    live' = NotLive /\ Waits("attach")
             [] r.method = "stop" /\ live.backend # "steel" ->
                    live' = NotLive /\ Answers("stop", TRUE)
             [] r.method \in {"use", "status"} /\ live = NotLive ->
                    UNCHANGED live /\ Answers(r.method, r.method = "status")
             [] OTHER -> UNCHANGED live /\ Waits("act")
    /\ UNCHANGED <<threadVars, driver, open, ending, heard, signalled, cloud, created, faults>>

\* sessions.release; its errors are ignored.
Releases(s) ==
    \/ cloud' = cloud \ {s} /\ UNCHANGED faults
    \/ UNCHANGED cloud /\ faults' = faults \cup {"release failed"}

JobReleases ==
    /\ Running /\ job.stage = "release"
    /\ Releases(job.session)
    /\ UNCHANGED live
    /\ IF job.method = "stop" THEN Answers("stop", TRUE)
       ELSE job' = [job EXCEPT !.stage = "attach"] /\ UNCHANGED reply
    /\ UNCHANGED <<threadVars, driver, stdin, open, ending, heard, signalled, created>>

\* connectLocalChrome, and the first snapshot, whose failure leaves liveState.
AttachLocal ==
    /\ Running /\ job.stage = "attach" /\ job.backend = "local"
    /\ \/ live' = Local /\ \E ok \in BOOLEAN : Answers("start", ok)
       \/ UNCHANGED live /\ Answers("start", FALSE)
    /\ UNCHANGED <<threadVars, driver, stdin, open, ending, heard, signalled, cloud,
                   created, faults>>

CreateSession ==
    /\ Running /\ job.stage = "attach" /\ job.backend = "steel"
    /\ UNCHANGED live
    /\ \/ Answers("start", FALSE) /\ UNCHANGED <<cloud, created>>
       \/ /\ created < MaxSessions
          /\ created' = created + 1 /\ cloud' = cloud \cup {created'}
          /\ job' = [job EXCEPT !.stage = "connect", !.session = created']
          /\ UNCHANGED reply
    /\ UNCHANGED <<threadVars, driver, stdin, open, ending, heard, signalled, faults>>

\* connectOverCDP, and picking a page.  When it fails nobody holds the session.
ConnectSession ==
    /\ Running /\ job.stage = "connect"
    /\ \/ live' = Steel(job.session) /\ Answers("start", TRUE) /\ UNCHANGED faults
       \/ /\ UNCHANGED live /\ Answers("start", FALSE)
          /\ faults' = faults \cup {"connect failed"}
    /\ UNCHANGED <<threadVars, driver, stdin, open, ending, heard, signalled, cloud, created>>

\* A page may refuse anything but to say where it is; a shutdown may have taken it
\* away in between.
Act ==
    /\ Running /\ job.stage = "act"
    /\ UNCHANGED live
    /\ \E ok \in BOOLEAN : Answers(job.method, ok) /\ (job.method = "status" => ok = (live # NotLive))
    /\ UNCHANGED <<threadVars, driver, stdin, open, ending, heard, signalled, cloud,
                   created, faults>>

\* shutdown of startRepl: a session is released, without it the process exits
\* at once, whatever the request in progress waits for.
Shutdown ==
    IF live.backend = "steel"
    THEN /\ ending' = ending \cup {live.session} /\ live' = NotLive
         /\ UNCHANGED <<driver, stdin, job>>
    ELSE DriverEnds

\* Variant: only signals end the driver.
HearsEnd_Never == FALSE /\ UNCHANGED vars

\* readline closes when it has passed on every line.
HearsEnd ==
    /\ Running /\ ~open /\ ~heard
    /\ stdin = << >> \/ job # NoJob
    /\ heard' = TRUE /\ Shutdown
    /\ UNCHANGED <<threadVars, open, reply, signalled, cloud, created, faults>>

HearsSignal ==
    /\ Running /\ signalled
    /\ signalled' = FALSE /\ Shutdown
    /\ UNCHANGED <<threadVars, open, reply, heard, cloud, created, faults>>

ShutdownReleases ==
    /\ Running /\ \E s \in ending : Releases(s)
    /\ DriverEnds
    /\ UNCHANGED <<threadVars, open, reply, heard, signalled, created>>

Crash ==
    /\ Running /\ "crash" \notin faults
    /\ DriverEnds /\ faults' = faults \cup {"crash"}
    /\ UNCHANGED <<threadVars, open, reply, heard, signalled, cloud, created>>

----------------------------------------------------------------------------
(* The program: a call is a request or two, under the lock *)

programVars == <<program, tui, calls, guard>>
worldVars == <<innerVars, cloud, created>>

Step(t, pc) == thread' = [thread EXCEPT ![t].pc = pc]
Wants(t, method) ==
    thread' = [thread EXCEPT ![t].method = method, ![t].pc = "lock"]

\* The thread of evil mode starts a browser, uses it and ends, whatever came of it.
CallEnds(t) ==
    IF t = "hijack" /\ thread[t].op = "start"
    THEN thread' = [thread EXCEPT ![t].op = "use", ![t].method = "use", ![t].pc = "lock"]
    ELSE IF t = "loop" /\ thread[t].op # "leave" THEN thread' = [thread EXCEPT ![t] = Idle]
    ELSE Step(t, "done")

FirstRequest(op, backend) ==
    CASE op = "start" /\ backend = "local" -> "status"
      [] op = "leave" -> "drop"
      [] OTHER -> op

Call(t, op, backend) ==
    /\ program = "running" /\ thread[t].pc = "ready" /\ calls < MaxCalls
    /\ IF t = "hijack" THEN Hijacks /\ op = "start" /\ backend = "local"
       ELSE op \in {"start", "use", "status", "stop"}
    /\ op # "start" => backend = "local"
    /\ calls' = calls + 1
    /\ thread' = [thread EXCEPT ![t] = [op |-> op, backend |-> backend,
                                       method |-> FirstRequest(op, backend), pc |-> "lock"]]
    /\ UNCHANGED <<program, tui, lock, slot, noted, guard, driver, pipeVars, worldVars, faults>>

\* The drop of LiveCli.  Before it the turn has waited for the handler of Ctrl+C.
Leave ==
    /\ program = "running" /\ thread["loop"].pc = "ready" /\ guard.pc = "waits"
    /\ thread' = [thread EXCEPT !["loop"] = [op |-> "leave", backend |-> "local",
                                            method |-> "drop", pc |-> "lock"]]
    /\ UNCHANGED <<programVars, lock, slot, noted, driver, pipeVars, worldVars, faults>>

Has(t, pc) == program = "running" /\ thread[t].pc = pc

Ask(t) ==
    /\ stdin' = IF Running THEN Append(stdin, Request(thread[t].method, thread[t].backend))
                ELSE stdin
    /\ Step(t, "reply")

\* with_sidecar, when a driver is in the slot: rpc writes its line.
Send(t) ==
    /\ Has(t, "lock") /\ lock = "free" /\ slot /\ thread[t].method # "drop"
    /\ lock' = t /\ reply' = NoReply
    /\ Ask(t)
    /\ UNCHANGED <<programVars, slot, noted, driver, open, worldVars, faults>>

\* Only "start" spawns, and may fail to.  BrowserStop takes the lack of a driver for
\* success and drops what is there by then.
NoDriver(t) ==
    /\ Has(t, "lock") /\ lock = "free" /\ ~slot
    /\ CASE thread[t].op = "start" /\ thread[t].method = "status" -> Wants(t, "start")
         [] thread[t].method = "stop" -> Wants(t, "drop")
         [] OTHER -> CallEnds(t)
    /\ UNCHANGED <<programVars, lock, slot, noted, driver, pipeVars, worldVars, faults>>

\* Sidecar::spawn; the process is there before its pid is noted.
Spawn(t) ==
    /\ Has(t, "lock") /\ lock = "free" /\ ~slot /\ thread[t].method = "start"
    /\ driver.no < MaxDrivers
    /\ lock' = t
    /\ driver' = [no |-> driver.no + 1, state |-> "running"]
    /\ stdin' = << >> /\ open' = TRUE /\ reply' = NoReply
    /\ heard' = FALSE /\ signalled' = FALSE /\ UNCHANGED <<live, job, ending>>
    /\ Step(t, "note")
    /\ UNCHANGED <<programVars, slot, noted, cloud, created, faults>>

NotePid(t) ==
    /\ Has(t, "note")
    /\ noted' = driver.no /\ slot' = TRUE
    /\ Ask(t)
    /\ UNCHANGED <<programVars, lock, driver, open, reply, worldVars, faults>>

\* The answer, or the end of the driver's output, which is an error.  BrowserStop may
\* also fail to note the profile.
Receive(t) ==
    /\ Has(t, "reply") /\ (reply # NoReply \/ ~Running)
    /\ lock' = "free"
    /\ CASE thread[t].op = "start" /\ thread[t].method = "status" ->
              IF reply.ok /\ reply.live = "local" THEN CallEnds(t) ELSE Wants(t, "start")
         [] thread[t].op = "stop" /\ reply.ok -> Wants(t, "drop") \/ CallEnds(t)
         [] OTHER -> CallEnds(t)
    /\ UNCHANGED <<programVars, slot, noted, driver, pipeVars, worldVars, faults>>

\* Drop of Sidecar: the pid is forgotten, "stop" is written, stdin closed.
DropAsks(t) ==
    /\ Has(t, "lock") /\ lock = "free" /\ slot /\ thread[t].method = "drop"
    /\ lock' = t /\ noted' = 0 /\ open' = FALSE
    /\ stdin' = IF Running THEN Append(stdin, Request("stop", "local")) ELSE stdin
    /\ Step(t, "reap")
    /\ UNCHANGED <<programVars, slot, driver, reply, worldVars, faults>>

\* After 20 looks at it the driver is killed.
DropKills(t) ==
    /\ Has(t, "reap") /\ Running
    /\ DriverEnds /\ faults' = faults \cup {"killed"}
    /\ UNCHANGED <<threadVars, open, reply, heard, signalled, cloud, created>>

Reap(t) ==
    /\ Has(t, "reap") /\ ~Running
    /\ driver' = [driver EXCEPT !.state = "none"]
    /\ slot' = FALSE /\ lock' = "free"
    /\ CallEnds(t)
    /\ UNCHANGED <<programVars, noted, pipeVars, worldVars, faults>>

Ends(how) ==
    /\ program' = how /\ open' = FALSE
    /\ UNCHANGED <<tui, thread, calls, lock, slot, noted, driver, stdin, reply, worldVars>>

Left == Has("loop", "done") /\ Ends("left") /\ UNCHANGED <<guard, faults>>

Killed ==
    /\ program = "running"
    /\ Ends("killed") /\ faults' = faults \cup {"program killed"} /\ UNCHANGED guard

----------------------------------------------------------------------------
(* Ctrl+C in a turn: every process of the terminal gets it *)

CtrlC ==
    /\ program = "running" /\ thread["loop"].op # "leave" /\ "ctrl-c" \notin faults
    /\ signalled' = Running
    /\ guard' = [guard EXCEPT !.pc = IF tui THEN "swap" ELSE @]
    /\ faults' = faults \cup {"ctrl-c"}
    /\ UNCHANGED <<program, tui, thread, calls, lock, slot, noted, driver, pipeVars,
                   live, job, ending, heard, cloud, created>>

Guard(pc) == program = "running" /\ guard.pc = pc

SwapPid ==
    /\ Guard("swap")
    /\ guard' = [pc |-> "kill", aim |-> noted] /\ noted' = 0
    /\ UNCHANGED <<program, tui, thread, calls, lock, slot, driver, pipeVars, worldVars, faults>>

KillPid ==
    /\ Guard("kill")
    /\ guard' = [guard EXCEPT !.pc = "take"]
    /\ IF guard.aim = driver.no /\ Running THEN DriverEnds
       ELSE UNCHANGED <<driver, stdin, live, job, ending>>
    /\ UNCHANGED <<program, tui, thread, calls, lock, slot, noted, open, reply, heard,
                   signalled, cloud, created, faults>>

\* try_lock; what is taken is killed and dropped.
TakeSlot ==
    /\ Guard("take")
    /\ guard' = [guard EXCEPT !.pc = "exit"]
    /\ IF lock = "free" /\ slot
       THEN /\ slot' = FALSE /\ noted' = 0 /\ open' = FALSE
            /\ driver' = [driver EXCEPT !.state = "none"]
            /\ stdin' = << >> /\ live' = NotLive /\ job' = NoJob /\ ending' = {}
       ELSE UNCHANGED <<slot, noted, open, driver, stdin, live, job, ending>>
    /\ UNCHANGED <<program, tui, thread, calls, lock, reply, heard, signalled, cloud,
                   created, faults>>

ExitsAtOnce == Guard("exit") /\ Ends("interrupted") /\ UNCHANGED <<guard, faults>>

----------------------------------------------------------------------------
Driver ==
    \/ TakeRequest \/ JobReleases \/ AttachLocal \/ CreateSession \/ ConnectSession \/ Act
    \/ HearsEnd \/ HearsSignal \/ ShutdownReleases \/ Crash

Calls(t) ==
    \/ \E op \in {"start", "use", "status", "stop"}, backend \in {"local", "steel"} :
           Call(t, op, backend)
    \/ Send(t) \/ NoDriver(t) \/ Spawn(t) \/ NotePid(t) \/ Receive(t)
    \/ DropAsks(t) \/ DropKills(t) \/ Reap(t)

Next ==
    \/ Driver
    \/ \E t \in Thread : Calls(t)
    \/ Leave \/ Left \/ Killed
    \/ CtrlC \/ SwapPid \/ KillPid \/ TakeSlot \/ ExitsAtOnce

\* Node's event loop goes on to the next line, sees the end of its input and the
\* end of a release.  The request in progress may take for ever.
Fairness == WF_vars(TakeRequest) /\ WF_vars(HearsEnd) /\ WF_vars(ShutdownReleases)

Spec == Init /\ [][Next]_vars /\ Fairness

----------------------------------------------------------------------------
\* No driver outlives the program, however it ends: also one whose pid was not
\* noted yet when the handler of Ctrl+C looked, and one that a thread of evil mode
\* spawned behind the last drop.
DriversEnd == program # "running" ~> ~Running

(* What a comment says and the code does not keep *)

\* shutdown_browser: "Release any live Steel session.  Safe to call on CLI
\* shutdown."  The end of the driver's input ends it before the release is through.
ShutdownReleasesSessions ==
    program = "left" /\ ~Running /\ faults = {} => cloud = {}

\* BrowserStop: "Disconnect the browser sidecar."  It gives up at a dead driver,
\* which keeps its place in the slot, so that no other is ever started.
StopDisconnects ==
    [][\A t \in Thread : thread[t].op = "stop" /\ thread'[t].pc = "ready" => ~slot']_vars

=============================================================================
