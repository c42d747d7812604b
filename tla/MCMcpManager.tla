---------------------------- MODULE MCMcpManager ----------------------------
(***************************************************************************)
(* The processes that the program talks to over pipes.  subject says which *)
(* and never changes: McpManager with one tool server and two calls, which *)
(* meet retries, stale frames and greetings; with two servers and one      *)
(* call, which meets the discovery of several; or the browser's driver.    *)
(***************************************************************************)
EXTENDS McpManager

VARIABLES
    subject,   \* "server", "two servers" or "driver"
    program, tui, thread, asked, lock, slot, noted, guard, driver, stdin, open, reply, live,
    job, ending, heard, signalled, cloud, created, faults    \* of Browser

Pair == INSTANCE McpManager
    WITH Server <- {"s", "t"}, MaxOperations <- 1, MaxFrames <- 1

Driver == INSTANCE Browser
    WITH Hijacks <- TRUE, MaxCalls <- 2, MaxDrivers <- 2, MaxSessions <- 1, calls <- asked

driverVars == <<program, tui, thread, asked, lock, slot, noted, guard, driver, stdin, open,
                reply, live, job, ending, heard, signalled, cloud, created, faults>>
eachVars == <<subject, vars, driverVars>>

EachInit ==
    /\ Driver!Init
    /\ \/ subject = "driver" /\ Init
       \/ subject = "server" /\ Init /\ ~tui
       \/ subject = "two servers" /\ Pair!Init /\ ~tui

EachNext ==
    \/ subject = "server" /\ Next /\ UNCHANGED <<subject, driverVars>>
    \/ subject = "two servers" /\ Pair!Next /\ UNCHANGED <<subject, driverVars>>
    \/ subject = "driver" /\ Driver!Next /\ UNCHANGED <<subject, vars>>

EachSpec ==
    /\ EachInit /\ [][EachNext]_eachVars
    /\ WF_vars(subject = "server" /\ Manager) /\ WF_vars(subject = "two servers" /\ Pair!Manager)
    /\ WF_driverVars(subject = "driver" /\ Driver!TakeRequest)
    /\ WF_driverVars(subject = "driver" /\ Driver!HearsEnd)
    /\ WF_driverVars(subject = "driver" /\ Driver!ShutdownReleases)

\* Browser: no driver outlives the program.
DriversEnd == Driver!DriversEnd
=============================================================================
