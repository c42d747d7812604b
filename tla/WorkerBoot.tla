----------------------------- MODULE WorkerBoot -----------------------------
(***************************************************************************)
(* The worker registry of runtime/src/worker_boot.rs: what it believes of  *)
(* each coding agent it has started, inferred from screen text, and the    *)
(* worker-state.json it leaves for pollers.  Every operation holds the     *)
(* registry's lock from its first read to its last write, so each is one   *)
(* action; callers may make any call at any time.                          *)
(*                                                                         *)
(* A screen is the set of cues the detectors find in its text, where no    *)
(* permission prompt hides them.  Messages and timestamps are left out.    *)
(***************************************************************************)
EXTENDS Naturals, Sequences, FiniteSets

CONSTANTS Worker,       \* worker ids
          Dir,
          Cwd,          \* worker -> its directory
          Prompt,
          NoPrompt,
          EmitMayFail,  \* the state file's directory may be full or read-only
          MaxEvents     \* bound: events per worker

ASSUME WorkerBootAssumption ==
    /\ Cwd \in [Worker -> Dir]
    /\ NoPrompt \notin Prompt
    /\ EmitMayFail \in BOOLEAN /\ MaxEvents \in Nat

VARIABLES
    created,    \* ids in the registry
    worker,     \* id -> Worker
    file,       \* directory -> .claw/worker-state.json
    accepted    \* history: id -> a running cue answered the prompt sent last

vars == <<created, worker, file, accepted>>

Status == {"spawning", "trust_required", "tool_permission_required",
           "ready_for_prompt", "running", "finished", "failed"}
FailureKind == {"none", "trust_gate", "tool_permission_gate", "prompt_delivery",
                "provider", "startup_no_evidence"}
EventKind == {"spawning", "startup_preflight_warning", "trust_required",
              "tool_permission_required", "trust_resolved", "ready_for_prompt",
              "prompt_misdelivery", "prompt_replay_armed", "running", "restarted",
              "finished", "failed", "startup_no_evidence"}
Classification == {"none", "trust_required", "tool_permission_required",
                   "prompt_misdelivery", "prompt_acceptance_timeout",
                   "transport_dead", "worker_crashed", "unknown"}
\* astray: the prompt's echo beside a shell error or another directory;
\* wrong_task: the prompt's echo, or another's, without the expected receipt.
Cue == {"trust_prompt", "running", "ready", "astray", "wrong_task"}

\* An event, with the flags the state file shows beside it.
Event == [kind : EventKind, status : Status, cleared : BOOLEAN,
          inFlight : BOOLEAN, why : Classification]

WorkerRecord ==
    [status : Status, autoTrust : BOOLEAN, cleared : BOOLEAN, autoRecover : BOOLEAN,
     attempts : Nat, inFlight : BOOLEAN, sent : BOOLEAN,
     lastPrompt : Prompt \cup {NoPrompt}, receipt : BOOLEAN,
     replay : Prompt \cup {NoPrompt}, error : FailureKind, events : Seq(Event)]

Fresh(autoTrust, autoRecover) ==
    [status |-> "spawning", autoTrust |-> autoTrust, cleared |-> FALSE,
     autoRecover |-> autoRecover, attempts |-> 0, inFlight |-> FALSE, sent |-> FALSE,
     lastPrompt |-> NoPrompt, receipt |-> FALSE, replay |-> NoPrompt,
     error |-> "none", events |-> << >>]

Absent == [state |-> "absent"]
Torn == [state |-> "torn"]
Whole(id, event) == [state |-> "whole", by |-> id, event |-> event]

----------------------------------------------------------------------------
(* Operators on one worker *)

\* push_event also sets the status.
PushVerdict(w, kind, status, why) ==
    [w EXCEPT !.status = status,
              !.events = Append(@, [kind |-> kind, status |-> status,
                                    cleared |-> w.cleared, inFlight |-> w.inFlight,
                                    why |-> why])]

PushEvent(w, kind, status) == PushVerdict(w, kind, status, "none")

Seen(w, kind) == \E i \in 1..Len(w.events) : w.events[i].kind = kind

\* prompt_misdelivery_is_relevant and detect_prompt_misdelivery
Misdelivered(w, screen) ==
    /\ w.inFlight /\ w.lastPrompt # NoPrompt
    /\ \/ "wrong_task" \in screen /\ w.receipt
       \/ "astray" \in screen

BlockedOnTrust(w, screen) ==
    "trust_prompt" \in screen /\ ~w.cleared

TrustSeen(w) ==
    PushEvent([w EXCEPT !.error = "trust_gate"], "trust_required", "trust_required")

\* Variant: no event.
TrustResolved_Silently(w) ==
    [w EXCEPT !.cleared = TRUE, !.error = "none", !.status = "spawning"]

TrustResolved(w) ==
    PushEvent([w EXCEPT !.cleared = TRUE, !.error = "none"], "trust_resolved", "spawning")

\* What observe has made of the worker once it is past the trust gate.
PastTrustGate(w, screen) ==
    IF BlockedOnTrust(w, screen) THEN TrustResolved(TrustSeen(w)) ELSE w

Undelivered(w) ==
    LET failed == PushEvent([w EXCEPT !.error = "prompt_delivery", !.inFlight = FALSE],
                            "prompt_misdelivery", "failed")
    IN  IF w.autoRecover
        THEN PushEvent([failed EXCEPT !.replay = w.lastPrompt],
                       "prompt_replay_armed", "ready_for_prompt")
        ELSE failed

AcceptsPrompt(w, screen) == "running" \in screen /\ w.inFlight

\* Variant: only the error is cleared.
WithRunningCue_KeepsStatus(w, screen) ==
    IF AcceptsPrompt(w, screen)
    THEN [w EXCEPT !.inFlight = FALSE, !.error = "none"] ELSE w

\* Neither an event nor the state file tells of it.
WithRunningCue(w, screen) ==
    IF AcceptsPrompt(w, screen)
    THEN [w EXCEPT !.inFlight = FALSE, !.status = "running", !.error = "none"] ELSE w

\* Variant: the prompt stays in flight.
WithReadyCue_KeepsInFlight(w, screen) ==
    IF "ready" \in screen /\ w.status # "ready_for_prompt"
    THEN PushEvent([w EXCEPT !.error = IF @ = "trust_gate" THEN "none" ELSE @],
                   "ready_for_prompt", "ready_for_prompt")
    ELSE w

WithReadyCue(w, screen) ==
    IF "ready" \in screen /\ w.status # "ready_for_prompt"
    THEN PushEvent([w EXCEPT !.inFlight = FALSE,
                             !.error = IF @ = "trust_gate" THEN "none" ELSE @],
                   "ready_for_prompt", "ready_for_prompt")
    ELSE w

\* classify_startup_failure; late: more than 30 s since the worker was created.
Classify(w, transportHealthy, mcpHealthy, late) ==
    LET accepts == w.status = "running" /\ ~w.inFlight
        blockedOn(status) == w.status = status /\ Seen(w, status)
    IN  IF ~transportHealthy THEN "transport_dead"
        ELSE IF blockedOn("trust_required") THEN "trust_required"
        ELSE IF blockedOn("tool_permission_required") THEN "tool_permission_required"
        ELSE IF w.sent /\ ~accepts /\ w.status = "running" THEN "prompt_acceptance_timeout"
        ELSE IF w.sent /\ ~accepts /\ late THEN "prompt_misdelivery"
        ELSE IF ~mcpHealthy THEN "worker_crashed" ELSE "unknown"

----------------------------------------------------------------------------
(* The registry *)

NewEvents(old, new) == SubSeq(new.events, Len(old.events) + 1, Len(new.events))

\* emit_state_file, once per event.  The result of the write is ignored and
\* what it left in the temporary file is renamed; so is the rename's.
EmitOutcomes(id, events) ==
    IF events = << >> THEN {file[Cwd[id]]}
    ELSE IF EmitMayFail
         THEN {file[Cwd[id]], Torn} \cup {Whole(id, events[i]) : i \in DOMAIN events}
         ELSE {Whole(id, events[Len(events)])}

Emit(id, events) ==
    \E outcome \in EmitOutcomes(id, events) : file' = [file EXCEPT ![Cwd[id]] = outcome]

Become(id, new) ==
    /\ Len(new.events) <= MaxEvents
    /\ worker' = [worker EXCEPT ![id] = new]
    /\ Emit(id, NewEvents(worker[id], new))
    /\ UNCHANGED created

Init ==
    /\ created = {}
    /\ worker = [id \in Worker |-> Fresh(FALSE, FALSE)]
    /\ file = [d \in Dir |-> Absent]
    /\ accepted = [id \in Worker |-> FALSE]

Create(id) ==
    /\ id \notin created /\ created' = created \cup {id}
    /\ \E autoTrust, autoRecover \in BOOLEAN :
          LET new == PushEvent(Fresh(autoTrust, autoRecover), "spawning", "spawning") IN
          /\ Len(new.events) <= MaxEvents
          /\ worker' = [worker EXCEPT ![id] = new]
          /\ Emit(id, new.events)
    /\ UNCHANGED accepted

Warned(w) == PushEvent(w, "startup_preflight_warning", w.status)

\* A warning for the git metadata and for each untracked path the prompt names;
\* bound: two.
ObserveStartupPreflight(id) ==
    /\ id \in created
    /\ Become(id, Warned(worker[id])) \/ Become(id, Warned(Warned(worker[id])))
    /\ UNCHANGED accepted

\* The tool permission prompt hides what else is on the screen.
ObserveToolPrompt(id) ==
    /\ id \in created
    /\ Become(id, PushEvent([worker[id] EXCEPT !.error = "tool_permission_gate"],
                            "tool_permission_required", "tool_permission_required"))
    /\ UNCHANGED accepted

ObserveTrustPrompt(id) ==
    /\ id \in created
    /\ BlockedOnTrust(worker[id], {"trust_prompt"}) /\ ~worker[id].autoTrust
    /\ Become(id, TrustSeen(worker[id]))
    /\ UNCHANGED accepted

\* The screen, free of tool permission prompts, gets past the trust gate.
ReadsOn(id, screen) ==
    /\ id \in created
    /\ BlockedOnTrust(worker[id], screen) => worker[id].autoTrust

ObserveMisdelivery(id, screen) ==
    LET w == PastTrustGate(worker[id], screen) IN
    /\ ReadsOn(id, screen) /\ Misdelivered(w, screen)
    /\ Become(id, Undelivered(w))
    /\ UNCHANGED accepted

ObserveProgress(id, screen) ==
    LET w == PastTrustGate(worker[id], screen) IN
    /\ ReadsOn(id, screen) /\ ~Misdelivered(w, screen)
    /\ Become(id, WithReadyCue(WithRunningCue(w, screen), screen))
    /\ accepted' = [accepted EXCEPT ![id] = @ \/ AcceptsPrompt(w, screen)]

ResolveTrust(id) ==
    /\ id \in created /\ worker[id].status = "trust_required"
    /\ Become(id, TrustResolved(worker[id]))
    /\ UNCHANGED accepted

\* A prompt given wins over the one to replay.
SendPrompt(id) ==
    /\ id \in created /\ worker[id].status = "ready_for_prompt"
    /\ \E prompt \in Prompt \cup {NoPrompt}, receipt \in BOOLEAN :
          LET next == IF prompt # NoPrompt THEN prompt ELSE worker[id].replay IN
          /\ next # NoPrompt
          /\ Become(id, PushEvent([worker[id] EXCEPT
                  !.attempts = @ + 1, !.inFlight = TRUE, !.sent = TRUE,
                  !.lastPrompt = next, !.receipt = receipt, !.replay = NoPrompt,
                  !.error = "none"], "running", "running"))
    /\ accepted' = [accepted EXCEPT ![id] = FALSE]

\* Variant: the armed replay survives.
Restarted_KeepsReplay(w) ==
    PushEvent([w EXCEPT !.status = "spawning", !.cleared = FALSE, !.lastPrompt = NoPrompt,
                  !.error = "none", !.attempts = 0,
                  !.inFlight = FALSE, !.sent = FALSE], "restarted", "spawning")

\* The events and the expected receipt stay.
Restarted(w) ==
    PushEvent([w EXCEPT !.status = "spawning", !.cleared = FALSE, !.lastPrompt = NoPrompt,
                  !.replay = NoPrompt, !.error = "none", !.attempts = 0,
                  !.inFlight = FALSE, !.sent = FALSE], "restarted", "spawning")

Restart(id) ==
    /\ id \in created
    /\ Become(id, Restarted(worker[id]))
    /\ accepted' = [accepted EXCEPT ![id] = FALSE]

Terminate(id) ==
    /\ id \in created
    /\ Become(id, PushEvent([worker[id] EXCEPT !.inFlight = FALSE], "finished", "finished"))
    /\ UNCHANGED accepted

\* failure: finish "unknown" with no output, or finish "error".
ObserveCompletion(id) ==
    /\ id \in created
    /\ \E failure \in BOOLEAN :
          Become(id, IF failure
              THEN PushEvent([worker[id] EXCEPT !.error = "provider", !.inFlight = FALSE],
                             "failed", "failed")
              ELSE PushEvent([worker[id] EXCEPT !.error = "none", !.inFlight = FALSE],
                             "finished", "finished"))
    /\ UNCHANGED accepted

ObserveStartupTimeout(id) ==
    /\ id \in created
    /\ \E transportHealthy, mcpHealthy, late \in BOOLEAN :
          Become(id, PushVerdict([worker[id] EXCEPT !.error = "startup_no_evidence",
                                                   !.inFlight = FALSE],
                                 "startup_no_evidence", "failed",
                                 Classify(worker[id], transportHealthy, mcpHealthy, late)))
    /\ UNCHANGED accepted

Observe(id) ==
    \/ ObserveToolPrompt(id) \/ ObserveTrustPrompt(id)
    \/ \E screen \in SUBSET Cue :
          ObserveMisdelivery(id, screen) \/ ObserveProgress(id, screen)

Next == \E id \in Worker :
    \/ Create(id) \/ ObserveStartupPreflight(id) \/ Observe(id)
    \/ ResolveTrust(id) \/ SendPrompt(id) \/ Restart(id) \/ Terminate(id)
    \/ ObserveCompletion(id) \/ ObserveStartupTimeout(id)

Spec == Init /\ [][Next]_vars

----------------------------------------------------------------------------
(* Properties *)

\* The type invariant.
TypeOK ==
    /\ created \subseteq Worker
    /\ worker \in [Worker -> WorkerRecord]
    /\ file \in [Dir -> {Absent, Torn} \cup [state : {"whole"}, by : Worker, event : Event]]
    /\ accepted \in [Worker -> BOOLEAN]

Happened(id, kinds) ==
    {i \in 1..Len(worker[id].events) : worker[id].events[i].kind \in kinds}

\* The latest of some kinds of events, 0 when there was none.
Latest(id, kinds) ==
    CHOOSE i \in Happened(id, kinds) \cup {0} :
        \A j \in Happened(id, kinds) : j <= i

\* Whatever screens, restarts and timeouts come in between, a prompt is sent
\* only when the one before it was accepted, given up or found misdelivered.
OnePromptInFlight ==
    [][\A id \in Worker :
          worker'[id].attempts > worker[id].attempts => ~worker[id].inFlight]_vars

\* A worker await_ready calls blocked says what blocks it now: no error of an
\* earlier failure is left standing and none is cleared too early.
BlockedWorkersSayWhy ==
    \A id \in created :
        /\ worker[id].status = "trust_required" => worker[id].error = "trust_gate"
        /\ worker[id].status = "tool_permission_required" =>
              worker[id].error = "tool_permission_gate"
        /\ worker[id].status = "failed" =>
              worker[id].error \in {"prompt_delivery", "provider", "startup_no_evidence"}

\* A prompt is armed for replay exactly from the misdelivery to the next
\* dispatch or restart, and it is the prompt that went astray.
ReplayFollowsMisdelivery ==
    \A id \in created :
        LET last == Latest(id, {"running", "restarted", "prompt_replay_armed"}) IN
        /\ worker[id].replay # NoPrompt <=>
              last # 0 /\ worker[id].events[last].kind = "prompt_replay_armed"
        /\ worker[id].replay \in {NoPrompt, worker[id].lastPrompt}

\* The state file is the last event of the worker that wrote it last.  Where
\* its status is out of date, the worker has accepted its prompt since.
StaleFileMeansRunning ==
    \A d \in Dir :
        file[d].state = "whole" =>
            LET w == worker[file[d].by] IN
            /\ file[d].event = w.events[Len(w.events)]
            /\ w.status \in {file[d].event.status, "running"}

----------------------------------------------------------------------------
(* What the comments say, which the code does not keep *)

\* main.rs: the state file shows the current status to its pollers.
FileShowsStatus ==
    \A d \in Dir :
        file[d].state = "whole" => file[d].event.status = worker[file[d].by].status

\* main.rs: the state file is written atomically.
FileIsWhole == \A d \in Dir : file[d].state # "torn"

\* observe_completion: Finished and Failed are terminal; a restart begins anew.
TerminalStatesStay ==
    [][\A id \in created :
          worker[id].status \in {"finished", "failed"} =>
              \/ worker'[id].status \in {"finished", "failed"}
              \/ worker'[id].events[Len(worker'[id].events)].kind = "restarted"]_vars

\* classify_startup_failure: a prompt counts as misdelivered when it was sent
\* and not accepted.
MisdeliveredWasNotAccepted ==
    \A id \in created :
        LET w == worker[id] IN
        w.events[Len(w.events)].why = "prompt_misdelivery" => ~accepted[id]

=============================================================================
