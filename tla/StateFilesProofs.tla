-------------------------- MODULE StateFilesProofs --------------------------
(***************************************************************************)
(* Proofs about the writers of state files that MCStateFiles puts side by  *)
(* side: a step of EachNext is one of the writer whose turn it is, and     *)
(* leaves the variables of the others alone.                               *)
(*                                                                         *)
(*   I    the workers: every operation maps a sound worker to a sound      *)
(*        worker, and adds to its log what it did to its status            *)
(*   II   the sessions of a workspace, from SessionsProofs                 *)
(*   III  the file of one session, from SessionLogProofs                   *)
(*   IV   the subagents                                                    *)
(***************************************************************************)
EXTENDS MCStateFiles, SequenceTheorems, TLAPS

----------------------------------------------------------------------------
(* I.  The workers.  The invariant says that all workers are sound, and     *)
(* what the files show.                                                     *)

SaysWhy(w) ==
    /\ w.status = "trust_required" => w.error = "trust_gate"
    /\ w.status = "tool_permission_required" => w.error = "tool_permission_gate"
    /\ w.status = "failed" =>
          w.error \in {"prompt_delivery", "provider", "startup_no_evidence"}

\* The events that arm a replay or end it, and the last of them in a log.
ReplayKinds == {"running", "restarted", "prompt_replay_armed"}
LastOne(trail, i) ==
    /\ i \in 1..Len(trail) /\ trail[i].kind \in ReplayKinds
    /\ \A j \in 1..Len(trail) : trail[j].kind \in ReplayKinds => j <= i

Arms(trail) == \E i \in Nat : LastOne(trail, i) /\ trail[i].kind = "prompt_replay_armed"
Disarms(trail) ==
    \/ \A j \in 1..Len(trail) : trail[j].kind \notin ReplayKinds
    \/ \E i \in Nat : LastOne(trail, i) /\ trail[i].kind # "prompt_replay_armed"

\* The replay is what the log says it is.
ReplayIsLogged(w) ==
    /\ w.replay \in {NoPrompt, w.lastPrompt}
    /\ w.replay = NoPrompt => Disarms(w.events)
    /\ w.replay # NoPrompt => Arms(w.events)

\* What is ready for a prompt has none in flight, what is blocked says why.
Sound(w) ==
    /\ w \in WorkerRecord
    /\ w.status = "ready_for_prompt" => ~w.inFlight
    /\ SaysWhy(w)
    /\ ReplayIsLogged(w)

\* A change of status is an event, but for the one that nothing tells of.
Follows(w, new) ==
    \/ new.events = w.events /\ new.status \in {w.status, "running"}
    \/ /\ Len(new.events) > Len(w.events)
       /\ new.status \in {new.events[Len(new.events)].status, "running"}

\* The file of a directory is the last event of a worker there, whose status is
\* still the event's unless it went on to run.
Tells(f, d) ==
    /\ f.by \in created /\ Cwd[f.by] = d
    /\ Len(worker[f.by].events) > 0
    /\ f.event = worker[f.by].events[Len(worker[f.by].events)]
    /\ worker[f.by].status \in {f.event.status, "running"}

FilesTell == \A d \in Dir : file[d].state = "whole" => Tells(file[d], d)

IInv ==
    /\ TypeOK
    /\ \A id \in Worker : Sound(worker[id])
    /\ ~EmitMayFail => FilesTell

LEMMA AppendToLog ==
    ASSUME NEW trail \in Seq(Event), NEW e \in Event
    PROVE  LET new == Append(trail, e) IN
           /\ e.kind \notin ReplayKinds /\ Arms(trail) => Arms(new)
           /\ e.kind \notin ReplayKinds /\ Disarms(trail) => Disarms(new)
           /\ e.kind = "prompt_replay_armed" => Arms(new)
           /\ e.kind \in {"running", "restarted"} => Disarms(new)
<1> DEFINE new == Append(trail, e)
<1>1. /\ new \in Seq(Event) /\ Len(new) = Len(trail) + 1 /\ new[Len(trail) + 1] = e
      /\ \A i \in 1..Len(trail) : new[i] = trail[i]
      /\ Len(trail) \in Nat
  OBVIOUS
<1> HIDE DEF new
<1>2. e.kind \notin ReplayKinds => \A i \in Nat : LastOne(trail, i) => LastOne(new, i)
  BY <1>1 DEF LastOne
<1>3. e.kind \in ReplayKinds => LastOne(new, Len(trail) + 1)
  BY <1>1 DEF LastOne
<1>4. e.kind \notin ReplayKinds /\ Arms(trail) => Arms(new)
  BY <1>1, <1>2 DEF Arms, LastOne
<1>5. e.kind \notin ReplayKinds /\ Disarms(trail) => Disarms(new)
  <2>1. CASE \A j \in 1..Len(trail) : trail[j].kind \notin ReplayKinds
    BY <1>1, <2>1 DEF Disarms
  <2>2. CASE \E i \in Nat : LastOne(trail, i) /\ trail[i].kind # "prompt_replay_armed"
    BY <1>1, <1>2, <2>2 DEF Disarms, LastOne
  <2> QED
    BY <2>1, <2>2 DEF Disarms
<1>6. e.kind = "prompt_replay_armed" => Arms(new)
  BY <1>1, <1>3 DEF Arms, ReplayKinds
<1>7. e.kind \in {"running", "restarted"} => Disarms(new)
  BY <1>1, <1>3 DEF Disarms, ReplayKinds
<1> QED
  BY <1>4, <1>5, <1>6, <1>7 DEF new

\* What an event does to the log.
Logs(w, new, kind, status) ==
    /\ new.replay = w.replay /\ new.lastPrompt = w.lastPrompt
    /\ kind \notin ReplayKinds /\ Arms(w.events) => Arms(new.events)
    /\ kind \notin ReplayKinds /\ Disarms(w.events) => Disarms(new.events)
    /\ kind = "prompt_replay_armed" => Arms(new.events)
    /\ kind \in {"running", "restarted"} => Disarms(new.events)
    /\ Len(new.events) = Len(w.events) + 1 /\ Len(w.events) \in Nat
    /\ new.events[Len(new.events)].status = status

\* push_event changes the status and the log and nothing else.
LEMMA PushVerdictType ==
    ASSUME NEW w \in WorkerRecord, NEW kind \in EventKind, NEW status \in Status,
           NEW why \in Classification
    PROVE  LET new == PushVerdict(w, kind, status, why) IN
           /\ new \in WorkerRecord
           /\ new.status = status /\ new.inFlight = w.inFlight /\ new.error = w.error
           /\ new.attempts = w.attempts /\ new.cleared = w.cleared
           /\ Logs(w, new, kind, status)
<1> DEFINE e == [kind |-> kind, status |-> status, cleared |-> w.cleared,
                 inFlight |-> w.inFlight, why |-> why]
<1>1. e \in Event
  BY DEF WorkerRecord, Event
<1>2. Append(w.events, e) \in Seq(Event)
  BY <1>1 DEF WorkerRecord
<1> HIDE DEF e
<1>3. PushVerdict(w, kind, status, why)
        = [w EXCEPT !.status = status, !.events = Append(@, e)]
  BY DEF PushVerdict, e
<1>4. w.events \in Seq(Event) /\ e.kind = kind /\ e.status = status
  BY DEF WorkerRecord, e
<1> DEFINE trail == Append(w.events, e)
<1>5. Len(trail) = Len(w.events) + 1 /\ Len(w.events) \in Nat /\ trail[Len(trail)] = e
  BY <1>4
<1>6. /\ e.kind \notin ReplayKinds /\ Arms(w.events) => Arms(trail)
      /\ e.kind \notin ReplayKinds /\ Disarms(w.events) => Disarms(trail)
      /\ e.kind = "prompt_replay_armed" => Arms(trail)
      /\ e.kind \in {"running", "restarted"} => Disarms(trail)
  BY <1>1, <1>4, AppendToLog
<1> HIDE DEF trail
<1> DEFINE new == [w EXCEPT !.status = status, !.events = trail]
<1>7. /\ new \in WorkerRecord
      /\ new.status = status /\ new.inFlight = w.inFlight /\ new.error = w.error
      /\ new.attempts = w.attempts /\ new.cleared = w.cleared
      /\ new.replay = w.replay /\ new.lastPrompt = w.lastPrompt /\ new.events = trail
  BY <1>2 DEF WorkerRecord, trail
<1> HIDE DEF new
<1>8. Logs(w, new, kind, status)
  BY <1>4, <1>5, <1>6, <1>7 DEF Logs
<1> QED
  BY <1>3, <1>7, <1>8 DEF new, trail

LEMMA PushEventType ==
    ASSUME NEW w \in WorkerRecord, NEW kind \in EventKind, NEW status \in Status
    PROVE  LET new == PushEvent(w, kind, status) IN
           /\ new \in WorkerRecord
           /\ new.status = status /\ new.inFlight = w.inFlight /\ new.error = w.error
           /\ new.attempts = w.attempts /\ new.cleared = w.cleared
           /\ Logs(w, new, kind, status)
  BY PushVerdictType DEF PushEvent, Classification

(***************************************************************************)
(* The operations on one worker.                                           *)
(***************************************************************************)

\* What every operation but send_prompt and restart does to a sound worker.
Keeps(w, new) == Sound(new) /\ new.attempts = w.attempts /\ Follows(w, new)

\* What is written before the event leaves the log and the replay alone.
Spares(w, v) ==
    /\ v \in WorkerRecord /\ v.attempts = w.attempts
    /\ v.events = w.events /\ v.replay = w.replay /\ v.lastPrompt = w.lastPrompt

LEMMA PushedIsSound ==
    ASSUME NEW w, Sound(w), NEW v, Spares(w, v),
           NEW kind \in EventKind \ ReplayKinds, NEW status \in Status,
           NEW why \in Classification,
           status = "ready_for_prompt" => ~v.inFlight,
           SaysWhy([status |-> status, error |-> v.error])
    PROVE  Keeps(w, PushVerdict(v, kind, status, why))
<1> DEFINE new == PushVerdict(v, kind, status, why)
<1>1. /\ new \in WorkerRecord /\ new.status = status /\ new.inFlight = v.inFlight
      /\ new.error = v.error /\ new.attempts = v.attempts /\ Logs(v, new, kind, status)
  BY PushVerdictType DEF Spares
<1> HIDE DEF new
<1>2. ReplayIsLogged(new)
  BY <1>1 DEF Sound, Spares, ReplayIsLogged, Logs
<1>3. Follows(w, new)
  BY <1>1 DEF Spares, Logs, Follows
<1>4. SaysWhy(new)
  BY <1>1 DEF SaysWhy
<1> QED
  BY <1>1, <1>2, <1>3, <1>4 DEF Keeps, Sound, Spares, new

LEMMA KeepsChain ==
    ASSUME NEW w, Sound(w), NEW v, Keeps(w, v), NEW new, Keeps(v, new)
    PROVE  Keeps(w, new)
<1>1. /\ Len(w.events) \in Nat /\ Len(v.events) \in Nat /\ Len(new.events) \in Nat
  BY DEF Keeps, Sound, WorkerRecord
<1>2. Follows(w, new)
  BY <1>1 DEF Keeps, Follows
<1> QED
  BY <1>2 DEF Keeps

LEMMA KeepsSame == ASSUME NEW w, Sound(w) PROVE Keeps(w, w)
  BY DEF Keeps, Follows

\* Giving a prompt up or setting an error, and the event that says so.
LEMMA FailureIsSound ==
    ASSUME NEW w, Sound(w), NEW error \in FailureKind,
           NEW kind \in EventKind \ ReplayKinds,
           NEW status \in Status \ {"ready_for_prompt"}, NEW why \in Classification,
           NEW inFlight \in BOOLEAN,
           SaysWhy([status |-> status, error |-> error])
    PROVE  Keeps(w, PushVerdict([w EXCEPT !.error = error, !.inFlight = inFlight],
                                kind, status, why))
<1> DEFINE v == [w EXCEPT !.error = error, !.inFlight = inFlight]
<1>1. Spares(w, v) /\ v.error = error
  BY DEF Sound, WorkerRecord, Spares
<1> HIDE DEF v
<1>2. Keeps(w, PushVerdict(v, kind, status, why))
  BY <1>1, PushedIsSound
<1> QED
  BY <1>2 DEF v

LEMMA EventNames ==
    /\ {"trust_required", "trust_resolved", "startup_preflight_warning",
        "prompt_misdelivery", "ready_for_prompt", "tool_permission_required",
        "finished", "failed", "startup_no_evidence", "spawning"}
           \subseteq EventKind \ ReplayKinds
    /\ "none" \in Classification
    /\ {"failed", "finished", "ready_for_prompt"} \subseteq Status
    /\ {"provider", "startup_no_evidence", "none"} \subseteq FailureKind
  BY DEF EventKind, ReplayKinds, Classification, Status, FailureKind

LEMMA TrustSeenIsSound ==
    ASSUME NEW w, Sound(w) PROVE Keeps(w, TrustSeen(w))
<1> DEFINE v == [w EXCEPT !.error = "trust_gate"]
<1>1. Spares(w, v) /\ v.error = "trust_gate"
  BY DEF Sound, WorkerRecord, FailureKind, Spares
<1> HIDE DEF v
<1>2. Keeps(w, PushVerdict(v, "trust_required", "trust_required", "none"))
  BY <1>1, PushedIsSound, EventNames DEF SaysWhy, Status
<1> QED
  BY <1>2 DEF TrustSeen, PushEvent, v

LEMMA TrustResolvedIsSound ==
    ASSUME NEW w, Sound(w) PROVE Keeps(w, TrustResolved(w))
<1> DEFINE v == [w EXCEPT !.cleared = TRUE, !.error = "none"]
<1>1. Spares(w, v) /\ v.error = "none"
  BY DEF Sound, WorkerRecord, FailureKind, Spares
<1> HIDE DEF v
<1>2. Keeps(w, PushVerdict(v, "trust_resolved", "spawning", "none"))
  BY <1>1, PushedIsSound, EventNames DEF SaysWhy, Status
<1> QED
  BY <1>2 DEF TrustResolved, PushEvent, v

LEMMA WarnedIsSound ==
    ASSUME NEW w, Sound(w) PROVE Keeps(w, Warned(w))
<1>1. Spares(w, w) /\ w.status \in Status /\ SaysWhy([status |-> w.status, error |-> w.error])
  BY DEF Sound, WorkerRecord, Spares, SaysWhy
<1>2. Keeps(w, PushVerdict(w, "startup_preflight_warning", w.status, "none"))
  BY <1>1, PushedIsSound, EventNames DEF Sound
<1> QED
  BY <1>2 DEF Warned, PushEvent

LEMMA PastTrustGateIsSound ==
    ASSUME NEW w, Sound(w), NEW screen PROVE Keeps(w, PastTrustGate(w, screen))
<1>1. Keeps(w, TrustSeen(w))
  BY TrustSeenIsSound
<1>2. Keeps(TrustSeen(w), TrustResolved(TrustSeen(w)))
  BY <1>1, TrustResolvedIsSound DEF Keeps
<1>3. Keeps(w, TrustResolved(TrustSeen(w)))
  BY <1>1, <1>2, KeepsChain
<1> QED
  BY <1>3, KeepsSame DEF PastTrustGate

\* The prompt that is armed is the one that was sent last.
LEMMA UndeliveredIsSound ==
    ASSUME NEW w, Sound(w), w.lastPrompt # NoPrompt PROVE Keeps(w, Undelivered(w))
<1> DEFINE v == [w EXCEPT !.error = "prompt_delivery", !.inFlight = FALSE]
           failed == PushVerdict(v, "prompt_misdelivery", "failed", "none")
           armed == [failed EXCEPT !.replay = w.lastPrompt]
           ready == PushVerdict(armed, "prompt_replay_armed", "ready_for_prompt", "none")
<1>1. Spares(w, v) /\ v.error = "prompt_delivery" /\ ~v.inFlight
  BY DEF Sound, WorkerRecord, FailureKind, Spares
<1> HIDE DEF v
<1>2. Keeps(w, failed)
  BY <1>1, PushedIsSound, EventNames DEF SaysWhy, Status
<1>3. /\ failed \in WorkerRecord /\ ~failed.inFlight
      /\ failed.lastPrompt = w.lastPrompt
      /\ Len(failed.events) > Len(w.events)
  <2>1. v \in WorkerRecord /\ "prompt_misdelivery" \in EventKind
    BY <1>1, EventNames DEF Spares
  <2>2. /\ failed \in WorkerRecord /\ failed.inFlight = v.inFlight
        /\ Logs(v, failed, "prompt_misdelivery", "failed")
    BY <2>1, PushVerdictType, EventNames
  <2> HIDE DEF failed
  <2> QED
    BY <1>1, <2>2 DEF Spares, Logs
<1> HIDE DEF failed
<1>4. /\ armed \in WorkerRecord /\ ~armed.inFlight /\ armed.attempts = failed.attempts
      /\ armed.replay = w.lastPrompt /\ armed.lastPrompt = w.lastPrompt
      /\ armed.events = failed.events
  BY <1>3 DEF Sound, WorkerRecord
<1> HIDE DEF armed
<1>5. "prompt_replay_armed" \in EventKind /\ "ready_for_prompt" \in Status
  BY DEF EventKind, Status
<1>6. /\ ready \in WorkerRecord /\ ready.inFlight = armed.inFlight
      /\ ready.attempts = armed.attempts /\ ready.status = "ready_for_prompt"
      /\ Logs(armed, ready, "prompt_replay_armed", "ready_for_prompt")
  BY <1>4, <1>5, PushVerdictType, EventNames
<1> HIDE DEF ready
<1>7. ReplayIsLogged(ready)
  BY <1>4, <1>6 DEF ReplayIsLogged, Logs
<1>8. Follows(w, ready)
  <2>1. Len(w.events) \in Nat
    BY DEF Sound, WorkerRecord
  <2> QED
    BY <1>3, <1>4, <1>6, <2>1 DEF Follows, Logs
<1>9. Keeps(w, ready)
  BY <1>2, <1>4, <1>6, <1>7, <1>8 DEF Keeps, Sound, SaysWhy
<1>10. Undelivered(w) = IF w.autoRecover THEN ready ELSE failed
  BY DEF Undelivered, PushEvent, ready, armed, failed, v
<1> QED
  BY <1>2, <1>9, <1>10

\* The one change of status that no event tells of.
LEMMA WithRunningCueIsSound ==
    ASSUME NEW w, Sound(w), NEW screen PROVE Keeps(w, WithRunningCue(w, screen))
<1> DEFINE v == [w EXCEPT !.inFlight = FALSE, !.status = "running", !.error = "none"]
<1>1. /\ Spares(w, v) /\ ~v.inFlight /\ v.status = "running"
  BY DEF Sound, WorkerRecord, FailureKind, Status, Spares
<1> HIDE DEF v
<1>2. Keeps(w, v)
  BY <1>1 DEF Keeps, Sound, SaysWhy, Spares, ReplayIsLogged, Follows
<1> QED
  BY <1>2, KeepsSame DEF WithRunningCue, v

LEMMA WithReadyCueIsSound ==
    ASSUME NEW w, Sound(w), NEW screen PROVE Keeps(w, WithReadyCue(w, screen))
<1> DEFINE v == [w EXCEPT !.inFlight = FALSE,
                          !.error = IF @ = "trust_gate" THEN "none" ELSE @]
<1>1. Spares(w, v) /\ ~v.inFlight
  <2> DEFINE error == IF w.error = "trust_gate" THEN "none" ELSE w.error
  <2>1. error \in FailureKind
    BY DEF Sound, WorkerRecord, FailureKind
  <2>2. v = [w EXCEPT !.inFlight = FALSE, !.error = error]
    OBVIOUS
  <2> HIDE DEF error
  <2> QED
    BY <2>1, <2>2 DEF Sound, WorkerRecord, Spares
<1> HIDE DEF v
<1>2. Keeps(w, PushVerdict(v, "ready_for_prompt", "ready_for_prompt", "none"))
  BY <1>1, PushedIsSound, EventNames DEF SaysWhy, Status
<1> QED
  BY <1>2, KeepsSame DEF WithReadyCue, PushEvent, v

\* A restart or a dispatch ends the replay and says so.
Ends(w, new) == Sound(new) /\ Follows(w, new)

LEMMA RestartedIsSound ==
    ASSUME NEW w, Sound(w)
    PROVE  Ends(w, Restarted(w)) /\ Restarted(w).attempts = 0
<1> DEFINE v == [w EXCEPT !.status = "spawning", !.cleared = FALSE,
                          !.lastPrompt = NoPrompt, !.replay = NoPrompt,
                          !.error = "none", !.attempts = 0,
                          !.inFlight = FALSE, !.sent = FALSE]
           new == PushVerdict(v, "restarted", "spawning", "none")
<1>1. /\ v \in WorkerRecord /\ v.attempts = 0 /\ ~v.inFlight
      /\ v.replay = NoPrompt /\ v.events = w.events
  BY DEF Sound, WorkerRecord, FailureKind, Status
<1> HIDE DEF v
<1>2. "restarted" \in EventKind /\ "spawning" \in Status /\ "none" \in Classification
  BY DEF EventKind, Status, Classification
<1>3. /\ new \in WorkerRecord /\ new.status = "spawning" /\ new.attempts = v.attempts
      /\ Logs(v, new, "restarted", "spawning")
  BY <1>1, <1>2, PushVerdictType
<1> HIDE DEF new
<1>4. ReplayIsLogged(new) /\ Follows(w, new)
  BY <1>1, <1>3 DEF ReplayIsLogged, Logs, Follows
<1>5. Restarted(w) = new
  BY DEF Restarted, PushEvent, new, v
<1> QED
  BY <1>1, <1>3, <1>4, <1>5 DEF Ends, Sound, SaysWhy

LEMMA SentIsSound ==
    ASSUME NEW w, Sound(w), NEW prompt \in Prompt, NEW receipt \in BOOLEAN
    PROVE  Ends(w, PushEvent([w EXCEPT
                  !.attempts = @ + 1, !.inFlight = TRUE, !.sent = TRUE,
                  !.lastPrompt = prompt, !.receipt = receipt, !.replay = NoPrompt,
                  !.error = "none"], "running", "running"))
<1> DEFINE attempts == w.attempts + 1
           v == [w EXCEPT !.attempts = attempts, !.inFlight = TRUE, !.sent = TRUE,
                          !.lastPrompt = prompt, !.receipt = receipt,
                          !.replay = NoPrompt, !.error = "none"]
           new == PushVerdict(v, "running", "running", "none")
<1>1. w \in WorkerRecord /\ attempts \in Nat
  BY DEF Sound, WorkerRecord
<1> HIDE DEF attempts
<1>2. v \in WorkerRecord /\ v.replay = NoPrompt /\ v.events = w.events
  BY <1>1 DEF WorkerRecord, FailureKind
<1> HIDE DEF v
<1>3. "running" \in EventKind /\ "running" \in Status
  BY DEF EventKind, Status
<1>4. /\ new \in WorkerRecord /\ new.status = "running"
      /\ Logs(v, new, "running", "running")
  BY <1>2, <1>3, PushVerdictType, EventNames
<1> HIDE DEF new
<1>5. ReplayIsLogged(new) /\ Follows(w, new)
  BY <1>2, <1>4 DEF ReplayIsLogged, Logs, Follows
<1>6. Ends(w, new)
  BY <1>4, <1>5 DEF Ends, Sound, SaysWhy
<1> QED
  BY <1>6 DEF new, PushEvent, v, attempts

LEMMA ClassifyType ==
    ASSUME NEW w, NEW transportHealthy, NEW mcpHealthy, NEW late
    PROVE  Classify(w, transportHealthy, mcpHealthy, late) \in Classification
  BY DEF Classify, Classification

(***************************************************************************)
(* The registry.                                                           *)
(***************************************************************************)
LEMMA EmitType ==
    ASSUME TypeOK, NEW id \in Worker, NEW events \in Seq(Event), Emit(id, events)
    PROVE  file' \in [Dir -> {Absent, Torn}
                               \cup [state : {"whole"}, by : Worker, event : Event]]
<1> DEFINE contents == {Absent, Torn} \cup [state : {"whole"}, by : Worker, event : Event]
<1>1. Cwd[id] \in Dir /\ file \in [Dir -> contents]
  BY WorkerBootAssumption DEF TypeOK
<1>2. \A i \in DOMAIN events : Whole(id, events[i]) \in contents
  BY DEF Whole
<1>3. events # << >> => Len(events) \in DOMAIN events
  OBVIOUS
<1> HIDE DEF contents
<1>4. Torn \in contents
  BY DEF contents
<1>5. EmitOutcomes(id, events) \subseteq contents
  BY <1>1, <1>2, <1>3, <1>4 DEF EmitOutcomes
<1>6. PICK written \in contents : file' = [file EXCEPT ![Cwd[id]] = written]
  BY <1>5 DEF Emit
<1>7. file' \in [Dir -> contents]
  BY <1>1, <1>6
<1> QED
  BY <1>7 DEF contents

LEMMA NewEventsType ==
    ASSUME NEW old \in WorkerRecord, NEW new \in WorkerRecord
    PROVE  NewEvents(old, new) \in Seq(Event)
<1>1. old.events \in Seq(Event) /\ new.events \in Seq(Event)
  BY DEF WorkerRecord
<1> QED
  BY <1>1 DEF NewEvents

\* What is new in a log is empty or ends as the log does.
LEMMA RestOfLog ==
    ASSUME NEW S, NEW trail \in Seq(S), NEW k \in Nat
    PROVE  LET rest == SubSeq(trail, k + 1, Len(trail)) IN
           /\ Len(trail) <= k => rest = << >>
           /\ Len(trail) > k => rest # << >> /\ rest[Len(rest)] = trail[Len(trail)]
<1> DEFINE rest == SubSeq(trail, k + 1, Len(trail))
<1>1. Len(trail) \in Int /\ k + 1 \in Int /\ Len(trail) \in Nat
  OBVIOUS
<1>2. Len(trail) <= k => rest = << >>
  <2> SUFFICES ASSUME Len(trail) <= k PROVE rest = << >>
    OBVIOUS
  <2>1. Len(trail) < k + 1
    BY <1>1
  <2> QED
    BY <1>1, <2>1, SubSeqEmpty
<1>3. \A i \in (k + 1)..Len(trail) : trail[i] \in S
  OBVIOUS
<1>4. /\ Len(rest) = IF k + 1 <= Len(trail) THEN Len(trail) - (k + 1) + 1 ELSE 0
      /\ \A i \in 1..(Len(trail) - (k + 1) + 1) : rest[i] = trail[(k + 1) + i - 1]
  BY <1>1, <1>3, SubSeqProperties
<1> HIDE DEF rest
<1>5. Len(trail) > k => rest # << >> /\ rest[Len(rest)] = trail[Len(trail)]
  BY <1>1, <1>4
<1> QED
  BY <1>2, <1>5 DEF rest

\* What an operation emits ends with what is last in the log, if anything.
LEMMA NewEventsEnd ==
    ASSUME NEW old \in WorkerRecord, NEW new \in WorkerRecord
    PROVE  LET emitted == NewEvents(old, new) IN
           /\ Len(new.events) <= Len(old.events) => emitted = << >>
           /\ Len(new.events) > Len(old.events) =>
                  /\ emitted # << >>
                  /\ emitted[Len(emitted)] = new.events[Len(new.events)]
<1>1. new.events \in Seq(Event) /\ Len(old.events) \in Nat
  BY DEF WorkerRecord
<1> QED
  BY <1>1, RestOfLog DEF NewEvents

\* A write that cannot fail leaves the last of the new events.
LEMMA EmitTells ==
    ASSUME TypeOK, ~EmitMayFail, FilesTell, NEW id \in Worker, NEW new \in WorkerRecord,
           Sound(worker[id]),
           worker' = [worker EXCEPT ![id] = new], created' = created \cup {id},
           NEW events \in Seq(Event), Emit(id, events),
           \/ /\ id \in created /\ Follows(worker[id], new)
              /\ events = NewEvents(worker[id], new)
           \/ /\ id \notin created /\ Len(new.events) > 0 /\ events = new.events
              /\ new.status = new.events[Len(new.events)].status
    PROVE  FilesTell'
<1> DEFINE d == Cwd[id]
           old == worker[id]
<1>1. d \in Dir /\ worker \in [Worker -> WorkerRecord]
  BY WorkerBootAssumption DEF TypeOK
<1>2. /\ old.events \in Seq(Event) /\ new.events \in Seq(Event)
      /\ Len(old.events) \in Nat /\ Len(new.events) \in Nat
  BY <1>1 DEF WorkerRecord
<1>3. DOMAIN file = Dir
  BY DEF TypeOK
<1>4. events = << >> => id \in created /\ new.events = old.events
                          /\ new.status \in {old.status, "running"}
  BY <1>1, <1>2, NewEventsEnd DEF Follows
<1>5. events # << >> =>
          /\ Len(new.events) > 0
          /\ events[Len(events)] = new.events[Len(new.events)]
          /\ new.status \in {new.events[Len(new.events)].status, "running"}
  <2>1. CASE id \notin created
    BY <1>2, <2>1
  <2>2. CASE id \in created
    BY <1>1, <1>2, <2>2, NewEventsEnd DEF Follows
  <2> QED
    BY <2>1, <2>2
<1>6. PICK written \in EmitOutcomes(id, events) : file' = [file EXCEPT ![d] = written]
  BY DEF Emit
<1>7. events = << >> => written = file[d]
  BY <1>6 DEF EmitOutcomes
<1>8. events # << >> => written = Whole(id, events[Len(events)])
  BY <1>6 DEF EmitOutcomes
<1> SUFFICES ASSUME NEW e \in Dir, file'[e].state = "whole"
             PROVE  Tells(file[e], e)'
  BY DEF FilesTell
<1>9. CASE e = d /\ events # << >>
  <2>1. file'[e] = Whole(id, events[Len(events)])
    BY <1>3, <1>6, <1>8, <1>9
  <2>2. file'[e].by = id /\ file'[e].event = new.events[Len(new.events)]
    BY <2>1, <1>5, <1>9 DEF Whole
  <2>3. worker'[id] = new
    BY <1>1
  <2> QED
    BY <2>2, <2>3, <1>5, <1>9 DEF Tells
<1>10. CASE e # d \/ events = << >>
  <2>1. file'[e] = file[e]
    BY <1>3, <1>6, <1>7, <1>10
  <2> DEFINE by == file[e].by
  <2>2. Tells(file[e], e)
    BY <2>1 DEF FilesTell
  <2>3. CASE by # id
    <3>1. worker'[by] = worker[by] /\ by \in created'
      BY <2>2, <2>3 DEF Tells
    <3> QED
      BY <2>1, <2>2, <3>1 DEF Tells
  <2>4. CASE by = id
    <3>1. id \in created /\ e = d
      BY <2>2, <2>4 DEF Tells
    <3>2. new.events = old.events /\ new.status \in {old.status, "running"}
      BY <3>1, <1>4, <1>10
    <3>3. worker'[id] = new
      BY <1>1
    <3> QED
      BY <2>1, <2>2, <2>4, <3>1, <3>2, <3>3 DEF Tells
  <2> QED
    BY <2>3, <2>4
<1> QED
  BY <1>9, <1>10

LEMMA BecomeKeepsIInv ==
    ASSUME IInv, NEW id \in created, NEW new, Ends(worker[id], new), Become(id, new),
           accepted' \in [Worker -> BOOLEAN]
    PROVE  IInv'
<1>1. id \in Worker /\ new \in WorkerRecord /\ worker[id] \in WorkerRecord
  BY DEF Ends, Sound, IInv, TypeOK
<1>2. worker' = [worker EXCEPT ![id] = new] /\ created' = created
  BY DEF Become
<1>3. NewEvents(worker[id], new) \in Seq(Event)
  BY <1>1, NewEventsType
<1>4. file' \in [Dir -> {Absent, Torn}
                          \cup [state : {"whole"}, by : Worker, event : Event]]
  BY <1>1, <1>3, EmitType DEF IInv, Become
<1>5. TypeOK'
  BY <1>1, <1>2, <1>4 DEF IInv, TypeOK
<1>6. \A other \in Worker : Sound(worker'[other])
  BY <1>2 DEF IInv, TypeOK, Ends
<1>7. ~EmitMayFail => FilesTell'
  <2>1. created' = created \cup {id}
    BY <1>2
  <2> QED
    BY <1>1, <1>2, <1>3, <2>1, EmitTells DEF IInv, Become, Ends
<1> QED
  BY <1>5, <1>6, <1>7 DEF IInv

LEMMA BecomeKeepsAttempts ==
    ASSUME IInv, NEW id \in Worker, NEW new, Become(id, new),
           new.attempts > worker[id].attempts => ~worker[id].inFlight
    PROVE  \A other \in Worker :
              worker'[other].attempts > worker[other].attempts => ~worker[other].inFlight
<1>1. worker' = [worker EXCEPT ![id] = new] /\ worker \in [Worker -> WorkerRecord]
  BY DEF Become, IInv, TypeOK
<1>2. \A other \in Worker : worker[other].attempts \in Nat
  BY <1>1 DEF WorkerRecord
<1> QED
  BY <1>1, <1>2

\* Both, for the operations that leave the attempts alone.
AttemptsGrowWhenClear ==
    \A id \in Worker :
        worker'[id].attempts > worker[id].attempts => ~worker[id].inFlight

LEMMA KeptWorkerKeepsAll ==
    ASSUME IInv, NEW id \in created, NEW new, Keeps(worker[id], new), Become(id, new),
           accepted' \in [Worker -> BOOLEAN]
    PROVE  IInv' /\ AttemptsGrowWhenClear
<1>1. IInv'
  BY BecomeKeepsIInv DEF Keeps, Ends
<1>2. id \in Worker /\ worker[id].attempts \in Nat
  BY DEF IInv, TypeOK, Sound, WorkerRecord
<1>3. AttemptsGrowWhenClear
  BY <1>2, BecomeKeepsAttempts DEF Keeps, AttemptsGrowWhenClear
<1> QED
  BY <1>1, <1>3

LEMMA SoundWorkers ==
    IInv => \A id \in Worker : Sound(worker[id]) /\ worker[id] \in WorkerRecord
  BY DEF IInv, Sound

LEMMA FreshIsLogged ==
    ASSUME NEW a, NEW b PROVE ReplayIsLogged(Fresh(a, b))
  BY DEF Fresh, ReplayIsLogged, Disarms

LEMMA InitIsSound == Init => IInv
<1> SUFFICES ASSUME Init PROVE IInv
  OBVIOUS
<1>1. \A a, b \in BOOLEAN : Fresh(a, b) \in WorkerRecord
  BY DEF Fresh, WorkerRecord, Status, FailureKind
<1>2. \A id \in Worker : Sound(worker[id])
  BY <1>1, FreshIsLogged DEF Init, Sound, SaysWhy, Fresh
<1>3. TypeOK
  BY <1>1 DEF Init, TypeOK
<1>4. FilesTell
  BY DEF Init, FilesTell, Absent
<1> QED
  BY <1>2, <1>3, <1>4 DEF IInv

LEMMA CreateKeepsAll ==
    ASSUME IInv, NEW id \in Worker, Create(id)
    PROVE  IInv' /\ AttemptsGrowWhenClear
<1>1. PICK a, b \in BOOLEAN :
          /\ worker' = [worker EXCEPT ![id] = PushEvent(Fresh(a, b), "spawning", "spawning")]
          /\ Emit(id, PushEvent(Fresh(a, b), "spawning", "spawning").events)
  BY DEF Create
<1> DEFINE new == PushEvent(Fresh(a, b), "spawning", "spawning")
<1>2. Fresh(a, b) \in WorkerRecord /\ Fresh(a, b).attempts = 0 /\ Fresh(a, b).error = "none"
  BY DEF Fresh, WorkerRecord, Status, FailureKind
<1>3. /\ new \in WorkerRecord /\ new.attempts = 0
      /\ new.status = "spawning" /\ Logs(Fresh(a, b), new, "spawning", "spawning")
  BY <1>2, PushEventType DEF EventKind, Status
<1> HIDE DEF new
<1>4. Sound(new)
  <2>1. ReplayIsLogged(new)
    BY <1>3, FreshIsLogged DEF ReplayIsLogged, Logs, ReplayKinds
  <2> QED
    BY <1>3, <2>1 DEF Sound, SaysWhy
<1>5. worker' = [worker EXCEPT ![id] = new] /\ Emit(id, new.events)
  BY <1>1 DEF new
<1>6. new.events \in Seq(Event)
  BY <1>3 DEF WorkerRecord
<1>7. TypeOK'
  <2>1. file' \in [Dir -> {Absent, Torn}
                            \cup [state : {"whole"}, by : Worker, event : Event]]
    BY <1>5, <1>6, EmitType DEF IInv
  <2> QED
    BY <1>3, <1>5, <2>1 DEF IInv, TypeOK, Create
<1>8. \A other \in Worker : Sound(worker'[other])
  BY <1>4, <1>5 DEF IInv, TypeOK
<1>9. AttemptsGrowWhenClear
  <2>1. \A other \in Worker : worker[other].attempts \in Nat
    BY SoundWorkers DEF WorkerRecord
  <2> QED
    BY <1>3, <1>5, <2>1 DEF IInv, TypeOK, AttemptsGrowWhenClear
<1>10. ~EmitMayFail => FilesTell'
  <2>1. id \notin created /\ created' = created \cup {id}
    BY DEF Create
  <2>2. Len(new.events) > 0 /\ new.status = new.events[Len(new.events)].status
    BY <1>3 DEF Logs
  <2> QED
    BY <1>3, <1>5, <1>6, <2>1, <2>2, EmitTells DEF IInv
<1> QED
  BY <1>7, <1>8, <1>9, <1>10 DEF IInv

LEMMA ObserveKeepsAll ==
    ASSUME IInv, NEW id \in Worker, Observe(id)
    PROVE  IInv' /\ AttemptsGrowWhenClear
<1>1. Sound(worker[id]) /\ accepted \in [Worker -> BOOLEAN] /\ worker[id] \in WorkerRecord
  BY SoundWorkers DEF IInv, TypeOK
<1>2. CASE ObserveToolPrompt(id)
  <2> DEFINE v == [worker[id] EXCEPT !.error = "tool_permission_gate"]
             new == PushVerdict(v, "tool_permission_required",
                                "tool_permission_required", "none")
  <2>1. Spares(worker[id], v) /\ v.error = "tool_permission_gate"
    BY <1>1 DEF WorkerRecord, FailureKind, Spares
  <2> HIDE DEF v
  <2>2. Keeps(worker[id], new)
    BY <1>1, <2>1, PushedIsSound, EventNames DEF SaysWhy, Status
  <2>3. id \in created /\ Become(id, new) /\ accepted' = accepted
    BY <1>2 DEF ObserveToolPrompt, PushEvent, v
  <2> QED
    BY <1>1, <2>2, <2>3, KeptWorkerKeepsAll
<1>3. CASE ObserveTrustPrompt(id)
  BY <1>1, <1>3, TrustSeenIsSound, KeptWorkerKeepsAll DEF ObserveTrustPrompt
<1>4. ASSUME NEW screen \in SUBSET Cue, ObserveMisdelivery(id, screen)
      PROVE  IInv' /\ AttemptsGrowWhenClear
  <2> DEFINE w == PastTrustGate(worker[id], screen)
  <2>1. Keeps(worker[id], w)
    BY <1>1, PastTrustGateIsSound
  <2>2. w.lastPrompt # NoPrompt /\ id \in created
    BY <1>4 DEF ObserveMisdelivery, Misdelivered, ReadsOn
  <2>3. Become(id, Undelivered(w)) /\ accepted' = accepted
    BY <1>4 DEF ObserveMisdelivery
  <2> HIDE DEF w
  <2>4. Keeps(worker[id], Undelivered(w))
    BY <1>1, <2>1, <2>2, UndeliveredIsSound, KeepsChain DEF Keeps
  <2> QED
    BY <1>1, <2>2, <2>3, <2>4, KeptWorkerKeepsAll
<1>5. ASSUME NEW screen \in SUBSET Cue, ObserveProgress(id, screen)
      PROVE  IInv' /\ AttemptsGrowWhenClear
  <2> DEFINE w == PastTrustGate(worker[id], screen)
             v == WithRunningCue(w, screen)
             new == WithReadyCue(v, screen)
  <2>1. Keeps(worker[id], w)
    BY <1>1, PastTrustGateIsSound
  <2>2. /\ Become(id, new) /\ id \in created
        /\ accepted' = [accepted EXCEPT ![id] = @ \/ AcceptsPrompt(w, screen)]
    BY <1>5 DEF ObserveProgress, ReadsOn
  <2>3. accepted' \in [Worker -> BOOLEAN]
    BY <1>1, <2>2 DEF AcceptsPrompt
  <2> HIDE DEF w
  <2>4. Keeps(w, v)
    BY <2>1, WithRunningCueIsSound DEF Keeps
  <2> HIDE DEF v
  <2>5. Keeps(v, new)
    BY <2>4, WithReadyCueIsSound DEF Keeps
  <2> HIDE DEF new
  <2>6. Keeps(worker[id], new)
    BY <1>1, <2>1, <2>4, <2>5, KeepsChain DEF Keeps
  <2> QED
    BY <2>2, <2>3, <2>6, KeptWorkerKeepsAll
<1> QED
  BY <1>2, <1>3, <1>4, <1>5 DEF Observe

LEMMA SendPromptKeepsAll ==
    ASSUME IInv, NEW id \in Worker, SendPrompt(id)
    PROVE  IInv' /\ AttemptsGrowWhenClear
<1>1. Sound(worker[id]) /\ accepted \in [Worker -> BOOLEAN] /\ worker[id] \in WorkerRecord
  BY SoundWorkers DEF IInv, TypeOK
<1>2. PICK prompt \in Prompt \cup {NoPrompt}, receipt \in BOOLEAN :
        LET following == IF prompt # NoPrompt THEN prompt ELSE worker[id].replay IN
        /\ following # NoPrompt
        /\ Become(id, PushEvent([worker[id] EXCEPT
                !.attempts = @ + 1, !.inFlight = TRUE, !.sent = TRUE,
                !.lastPrompt = following, !.receipt = receipt, !.replay = NoPrompt,
                !.error = "none"], "running", "running"))
  BY DEF SendPrompt
<1> DEFINE following == IF prompt # NoPrompt THEN prompt ELSE worker[id].replay
<1>3. following \in Prompt
  BY <1>1, <1>2 DEF WorkerRecord
<1> DEFINE new == PushEvent([worker[id] EXCEPT
                !.attempts = @ + 1, !.inFlight = TRUE, !.sent = TRUE,
                !.lastPrompt = following, !.receipt = receipt, !.replay = NoPrompt,
                !.error = "none"], "running", "running")
<1>4. Become(id, new)
  BY <1>2
<1> HIDE DEF following
<1>5. Ends(worker[id], new)
  BY <1>1, <1>3, SentIsSound
<1> HIDE DEF new
<1>6. accepted' \in [Worker -> BOOLEAN] /\ ~worker[id].inFlight /\ id \in created
  BY <1>1 DEF SendPrompt, Sound
<1>7. IInv'
  BY <1>4, <1>5, <1>6, BecomeKeepsIInv
<1>8. AttemptsGrowWhenClear
  BY <1>4, <1>6, BecomeKeepsAttempts DEF AttemptsGrowWhenClear
<1> QED
  BY <1>7, <1>8

LEMMA NextKeepsAll ==
    ASSUME IInv, Next PROVE IInv' /\ AttemptsGrowWhenClear
<1> PICK id \in Worker :
        \/ Create(id) \/ ObserveStartupPreflight(id) \/ Observe(id)
        \/ ResolveTrust(id) \/ SendPrompt(id) \/ Restart(id) \/ Terminate(id)
        \/ ObserveCompletion(id) \/ ObserveStartupTimeout(id)
  BY DEF Next
<1>1. Sound(worker[id]) /\ accepted \in [Worker -> BOOLEAN] /\ worker[id] \in WorkerRecord
  BY SoundWorkers DEF IInv, TypeOK
<1>2. CASE Create(id)
  BY <1>2, CreateKeepsAll
<1>3. CASE ObserveStartupPreflight(id)
  <2>1. Keeps(worker[id], Warned(worker[id]))
    BY <1>1, WarnedIsSound
  <2>2. Keeps(Warned(worker[id]), Warned(Warned(worker[id])))
    BY <2>1, WarnedIsSound DEF Keeps
  <2>3. Keeps(worker[id], Warned(Warned(worker[id])))
    BY <1>1, <2>1, <2>2, KeepsChain
  <2> QED
    BY <1>1, <1>3, <2>1, <2>3, KeptWorkerKeepsAll DEF ObserveStartupPreflight
<1>4. CASE Observe(id)
  BY <1>4, ObserveKeepsAll
<1>5. CASE ResolveTrust(id)
  BY <1>1, <1>5, TrustResolvedIsSound, KeptWorkerKeepsAll DEF ResolveTrust
<1>6. CASE SendPrompt(id)
  BY <1>6, SendPromptKeepsAll
<1>7. CASE Restart(id)
  <2>1. Ends(worker[id], Restarted(worker[id])) /\ Restarted(worker[id]).attempts = 0
    BY <1>1, RestartedIsSound
  <2>2. /\ Become(id, Restarted(worker[id])) /\ accepted' \in [Worker -> BOOLEAN]
        /\ id \in created
    BY <1>1, <1>7 DEF Restart
  <2>3. worker[id].attempts \in Nat
    BY <1>1 DEF WorkerRecord
  <2>4. IInv'
    BY <2>1, <2>2, BecomeKeepsIInv
  <2>5. AttemptsGrowWhenClear
    BY <2>1, <2>2, <2>3, BecomeKeepsAttempts DEF AttemptsGrowWhenClear
  <2> QED
    BY <2>4, <2>5
<1>8. CASE Terminate(id)
  <2>1. Keeps(worker[id], PushEvent([worker[id] EXCEPT !.inFlight = FALSE],
                                    "finished", "finished"))
    <3> DEFINE v == [worker[id] EXCEPT !.inFlight = FALSE]
    <3>1. Spares(worker[id], v)
      BY <1>1 DEF WorkerRecord, Spares
    <3> HIDE DEF v
    <3>2. Keeps(worker[id], PushVerdict(v, "finished", "finished", "none"))
      BY <1>1, <3>1, PushedIsSound, EventNames DEF SaysWhy, Status
    <3> QED
      BY <3>2 DEF PushEvent, v
  <2> QED
    BY <1>1, <1>8, <2>1, KeptWorkerKeepsAll DEF Terminate
<1>9. CASE ObserveCompletion(id)
  <2>1. Keeps(worker[id],
              PushEvent([worker[id] EXCEPT !.error = "provider", !.inFlight = FALSE],
                        "failed", "failed"))
    BY <1>1, FailureIsSound, EventNames DEF PushEvent, SaysWhy
  <2>2. Keeps(worker[id],
              PushEvent([worker[id] EXCEPT !.error = "none", !.inFlight = FALSE],
                        "finished", "finished"))
    BY <1>1, FailureIsSound, EventNames DEF PushEvent, SaysWhy
  <2> QED
    BY <1>1, <1>9, <2>1, <2>2, KeptWorkerKeepsAll DEF ObserveCompletion
<1>10. CASE ObserveStartupTimeout(id)
  <2>1. PICK t, m, late \in BOOLEAN :
          Become(id, PushVerdict([worker[id] EXCEPT !.error = "startup_no_evidence",
                                                   !.inFlight = FALSE],
                                 "startup_no_evidence", "failed",
                                 Classify(worker[id], t, m, late)))
    BY <1>10 DEF ObserveStartupTimeout
  <2> DEFINE why == Classify(worker[id], t, m, late)
  <2>2. why \in Classification
    BY ClassifyType
  <2> HIDE DEF why
  <2>3. Keeps(worker[id],
              PushVerdict([worker[id] EXCEPT !.error = "startup_no_evidence",
                                            !.inFlight = FALSE],
                          "startup_no_evidence", "failed", why))
    BY <1>1, <2>2, FailureIsSound, EventNames DEF SaysWhy
  <2>4. accepted' = accepted /\ id \in created
    BY <1>10 DEF ObserveStartupTimeout
  <2> QED
    BY <1>1, <2>1, <2>3, <2>4, KeptWorkerKeepsAll DEF why
<1> QED
  BY <1>2, <1>3, <1>4, <1>5, <1>6, <1>7, <1>8, <1>9, <1>10

LEMMA StutterKeepsAll ==
    ASSUME IInv, UNCHANGED vars PROVE IInv'
  BY DEF vars, IInv, TypeOK, FilesTell, Tells

LEMMA Inductive == Spec => []IInv
<1>1. Init => IInv
  BY InitIsSound
<1>2. IInv /\ [Next]_vars => IInv'
  BY NextKeepsAll, StutterKeepsAll
<1> QED
  BY <1>1, <1>2, PTL DEF Spec

\* Every reachable state of the registry is well typed.
THEOREM TypeCorrect == Spec => []TypeOK
<1>1. IInv => TypeOK
  BY DEF IInv
<1> QED
  BY <1>1, Inductive, PTL

\* Whatever is seen on the screens and whoever calls, a worker reported as
\* blocked carries the failure that blocks it.
THEOREM BlockedSayWhy == Spec => []BlockedWorkersSayWhy
<1>1. IInv => BlockedWorkersSayWhy
  BY DEF IInv, TypeOK, Sound, SaysWhy, BlockedWorkersSayWhy
<1> QED
  BY <1>1, Inductive, PTL

\* No worker is given a prompt while an earlier one is still in flight.
THEOREM OneInFlight == Spec => OnePromptInFlight
<1>1. IInv /\ [Next]_vars => [AttemptsGrowWhenClear]_vars
  BY NextKeepsAll
<1> QED
  BY <1>1, Inductive, PTL DEF Spec, OnePromptInFlight, AttemptsGrowWhenClear

\* Latest looks up the last of some events, wherever there is one.
LEMMA LatestIsTheLast ==
    ASSUME NEW id \in Worker, worker[id].events \in Seq(Event)
    PROVE  /\ \A i \in Nat : LastOne(worker[id].events, i) =>
                                 Latest(id, ReplayKinds) = i
           /\ (\A j \in 1..Len(worker[id].events) :
                  worker[id].events[j].kind \notin ReplayKinds) =>
                  Latest(id, ReplayKinds) = 0
<1> DEFINE trail == worker[id].events
           S == Happened(id, ReplayKinds)
<1>1. S = {i \in 1..Len(trail) : trail[i].kind \in ReplayKinds} /\ Len(trail) \in Nat
  BY DEF Happened
<1>2. ASSUME NEW i \in Nat, LastOne(trail, i) PROVE Latest(id, ReplayKinds) = i
  <2>1. i \in S /\ \A j \in S : j <= i
    BY <1>1, <1>2 DEF LastOne
  <2>2. \A k \in S \cup {0} : (\A j \in S : j <= k) => k = i
    BY <1>1, <2>1
  <2> HIDE DEF S
  <2> QED
    BY <2>1, <2>2 DEF Latest, S
<1>3. ASSUME \A j \in 1..Len(trail) : trail[j].kind \notin ReplayKinds
      PROVE  Latest(id, ReplayKinds) = 0
  <2>1. S = {}
    BY <1>1, <1>3
  <2> HIDE DEF S
  <2> QED
    BY <2>1 DEF Latest, S
<1> QED
  BY <1>2, <1>3

\* Whatever is observed, sent and restarted in between, a prompt waits for its
\* replay exactly when the log says so, and it is the prompt that was sent last.
THEOREM ReplaysAreArmed == Spec => []ReplayFollowsMisdelivery
<1>1. IInv => ReplayFollowsMisdelivery
  <2> SUFFICES ASSUME IInv, NEW id \in created
               PROVE  LET last == Latest(id, ReplayKinds) IN
                      /\ worker[id].replay # NoPrompt <=>
                            /\ last # 0
                            /\ worker[id].events[last].kind = "prompt_replay_armed"
                      /\ worker[id].replay \in {NoPrompt, worker[id].lastPrompt}
    BY DEF ReplayFollowsMisdelivery, ReplayKinds
  <2> DEFINE trail == worker[id].events
  <2>1. id \in Worker /\ trail \in Seq(Event) /\ ReplayIsLogged(worker[id])
    BY SoundWorkers DEF IInv, TypeOK, Sound, WorkerRecord
  <2>2. CASE worker[id].replay = NoPrompt
    BY <2>1, <2>2, LatestIsTheLast DEF ReplayIsLogged, Disarms
  <2>3. CASE worker[id].replay # NoPrompt
    BY <2>1, <2>3, LatestIsTheLast DEF ReplayIsLogged, Arms, LastOne
  <2> QED
    BY <2>2, <2>3
<1> QED
  BY <1>1, Inductive, PTL

\* As long as its writes succeed, the state file is the last event of the worker
\* that wrote it, and is out of date only on a worker that runs its prompt.
THEOREM StaleMeansRunning == ~EmitMayFail => (Spec => []StaleFileMeansRunning)
<1> SUFFICES ASSUME ~EmitMayFail PROVE Spec => []StaleFileMeansRunning
  OBVIOUS
<1>1. IInv => StaleFileMeansRunning
  BY DEF IInv, FilesTell, Tells, StaleFileMeansRunning
<1> QED
  BY <1>1, Inductive, PTL


----------------------------------------------------------------------------
(* II.  The sessions of a workspace *)

StoreP == INSTANCE SessionsProofs WITH MaxNames <- 4, MaxPrompts <- 2

LogP == INSTANCE SessionLogProofs
    WITH Process <- TwoProcesses, RotateAfter <- 3, MaxRotatedFiles <- 1,
         Failures <- {"crash", "io"}, MaxRecords <- 2, MaxSaves <- 3, MaxCrashes <- 2

\* Store and StoreP are the same module with the same constants.
LEMMA SameStore ==
    /\ Store!Init => StoreP!Init
    /\ Store!Next => StoreP!Next
    /\ UNCHANGED storeVars => UNCHANGED StoreP!vars
    /\ StoreP!OneSessionIsOpen => OneSessionIsOpen
    /\ StoreP!AnswersStay => AnswersStay
<1>1. UNCHANGED storeVars => UNCHANGED StoreP!vars
  BY DEF storeVars, StoreP!vars
<1> USE DEF
     Store!Name, StoreP!Name, Store!PromptNo, StoreP!PromptNo, Store!Session,
     StoreP!Session, Store!Nothing, StoreP!Nothing, Store!NoHandle, StoreP!NoHandle,
     Store!Phase, StoreP!Phase, Store!vars, StoreP!vars, Store!Open, StoreP!Open,
     Store!Init, StoreP!Init, Store!Files, StoreP!Files, Store!NewSession,
     StoreP!NewSession, Store!Latest, StoreP!Latest, Store!Resolved, StoreP!Resolved,
     Store!NoExclusion, StoreP!NoExclusion, Store!SaveIn, StoreP!SaveIn, Store!Save,
     StoreP!Save, Store!SaveNew, StoreP!SaveNew, Store!NewName, StoreP!NewName,
     Store!Become, StoreP!Become, Store!Start, StoreP!Start, Store!Close, StoreP!Close,
     Store!Exit, StoreP!Exit, Store!Killed, StoreP!Killed, Store!EndInError,
     StoreP!EndInError, Store!CommandFails, StoreP!CommandFails, Store!Say, StoreP!Say,
     Store!Asks, StoreP!Asks, Store!Appended, StoreP!Appended, Store!Turn, StoreP!Turn,
     Store!TurnFails, StoreP!TurnFails, Store!Reload, StoreP!Reload, Store!Clear,
     StoreP!Clear, Store!ClearFails, StoreP!ClearFails, Store!LoadHandle,
     StoreP!LoadHandle, Store!ResumeOrSwitch, StoreP!ResumeOrSwitch, Store!ResumeFails,
     StoreP!ResumeFails, Store!Fork, StoreP!Fork, Store!ForkFails,
     StoreP!ForkFails, Store!Remove, StoreP!Remove,
     Store!Delete, StoreP!Delete, Store!DeleteResumed, StoreP!DeleteResumed,
     Store!ClearResumed, StoreP!ClearResumed, Store!Next, StoreP!Next,
     Store!OneSessionIsOpen, StoreP!OneSessionIsOpen, Store!AnswersStay,
     StoreP!AnswersStay
<1>2. Store!Init => StoreP!Init
  BY Zenon
<1>3. Store!Next => StoreP!Next
  BY Zenon
<1>4. StoreP!OneSessionIsOpen => OneSessionIsOpen
  BY Zenon DEF OneSessionIsOpen
<1>5. StoreP!AnswersStay => AnswersStay
  BY Zenon DEF AnswersStay
<1> QED
  BY <1>1, <1>2, <1>3, <1>4, <1>5

LEMMA StoreSteps ==
    /\ EachInit => StoreP!Init
    /\ [EachNext]_eachVars => [StoreP!Next]_(StoreP!vars)
<1>1. EachInit => StoreP!Init
  BY SameStore DEF EachInit
<1>2. [EachNext]_eachVars => StoreP!Next \/ UNCHANGED StoreP!vars
  BY SameStore DEF EachNext, eachVars
<1> QED
  BY <1>1, <1>2

\* At the prompt handle, runtime and file are of one session, also when the
\* other writers of state files move in between.
THEOREM OneIsOpenAmongAll == EachSpec => []OneSessionIsOpen
<1>1. StoreP!Spec => []StoreP!OneSessionIsOpen
  BY StoreP!OneIsOpen
<1> QED
  BY <1>1, StoreSteps, SameStore, PTL DEF EachSpec, StoreP!Spec

\* No session is written over another.
THEOREM NoAnswerIsLostAmongAll == EachSpec => []AnswersStay
<1>1. StoreP!Spec => []StoreP!AnswersStay
  BY StoreP!NoAnswerIsLost
<1> QED
  BY <1>1, StoreSteps, SameStore, PTL DEF EachSpec, StoreP!Spec

----------------------------------------------------------------------------
(* III.  The file of one session *)

\* Log and LogP are the same module with the same constants.
LEMMA SameLog ==
    /\ Log!Init => LogP!Init
    /\ Log!Next => LogP!Next
    /\ UNCHANGED logVars => UNCHANGED LogP!vars
    /\ LogP!FileMirrorsSession => FileMirrorsSession
    /\ LogP!AcknowledgedSurvives => AcknowledgedSurvives
<1>1. UNCHANGED logVars => UNCHANGED LogP!vars
  BY DEF logVars, LogP!vars, LogP!disk
<1> USE DEF
     Log!disk, LogP!disk, Log!vars, LogP!vars, Log!Kind, LogP!Kind, Log!Chunk, LogP!Chunk,
     Log!Meta, LogP!Meta, Log!Newline, LogP!Newline, Log!Torn, LogP!Torn, Log!Summary,
     LogP!Summary, Log!IsRecord, LogP!IsRecord, Log!NoSession, LogP!NoSession, Log!Idle,
     LogP!Idle, Log!Readable, LogP!Readable, Log!RecordsOf, LogP!RecordsOf, Log!Parse,
     LogP!Parse, Log!Lines, LogP!Lines, Log!Snapshot, LogP!Snapshot, Log!Size, LogP!Size,
     Log!FreshInode, LogP!FreshInode, Log!Init, LogP!Init, Log!Ready, LogP!Ready,
     Log!NeedsBootstrap, LogP!NeedsBootstrap, Log!StartAppend, LogP!StartAppend,
     Log!PushMessage, LogP!PushMessage, Log!PushPromptEntry, LogP!PushPromptEntry,
     Log!RecordCompaction, LogP!RecordCompaction, Log!SaveToPath, LogP!SaveToPath,
     Log!Finish, LogP!Finish, Log!Acknowledge, LogP!Acknowledge, Log!Goto, LogP!Goto,
     Log!Rollback, LogP!Rollback, Log!Fail, LogP!Fail, Log!Written, LogP!Written,
     Log!AppendBody, LogP!AppendBody, Log!AppendNewline, LogP!AppendNewline,
     Log!AppendTargetGone, LogP!AppendTargetGone, Log!Rotate, LogP!Rotate, Log!WriteAtomic,
     LogP!WriteAtomic, Log!CleanupRotatedLogs, LogP!CleanupRotatedLogs, Log!IoFails,
     LogP!IoFails, Log!Crash, LogP!Crash, Log!LoadFromPath, LogP!LoadFromPath, Log!Next,
     LogP!Next, Log!WithoutSummary, LogP!WithoutSummary, Log!FileMirrorsSession,
     LogP!FileMirrorsSession, Log!AcknowledgedSurvives, LogP!AcknowledgedSurvives,
     Log!Range, LogP!Range, Log!Last, LogP!Last, Log!Front, LogP!Front, Log!Reverse,
     LogP!Reverse, Log!IsPrefix, LogP!IsPrefix, Log!IsSuffix, LogP!IsSuffix
<1>2. Log!Init => LogP!Init
  BY Zenon
<1>3. Log!Next => LogP!Next
  BY Zenon
<1>4. LogP!FileMirrorsSession => FileMirrorsSession
  BY Zenon DEF FileMirrorsSession
<1>5. LogP!AcknowledgedSurvives => AcknowledgedSurvives
  BY Zenon DEF AcknowledgedSurvives
<1> QED
  BY <1>1, <1>2, <1>3, <1>4, <1>5

LEMMA LogSteps ==
    /\ EachInit => LogP!Init
    /\ [EachNext]_eachVars => [LogP!Next]_(LogP!vars)
<1>1. EachInit => LogP!Init
  BY SameLog DEF EachInit
<1>2. [EachNext]_eachVars => LogP!Next \/ UNCHANGED LogP!vars
  BY SameLog DEF EachNext, eachVars
<1> QED
  BY <1>1, <1>2

LEMMA LogBounds == LogP!Bounds
BY DEF LogP!Bounds

\* Between two operations the session file is what is in memory.
THEOREM FileMirrorsAmongAll == EachSpec => []FileMirrorsSession
<1>1. LogP!Spec => []LogP!FileMirrorsSession
  BY LogBounds, LogP!Mirrors
<1> QED
  BY <1>1, LogSteps, SameLog, PTL DEF EachSpec, LogP!Spec

\* What was acknowledged is in a file, whatever fails.
THEOREM AcknowledgedSurvivesAmongAll == EachSpec => []AcknowledgedSurvives
<1>1. LogP!Spec => []LogP!AcknowledgedSurvives
  BY LogBounds, LogP!Survives
<1> QED
  BY <1>1, LogSteps, SameLog, PTL DEF EachSpec, LogP!Spec

----------------------------------------------------------------------------
(* IV.  The subagents *)

\* What is known of an agent by where it stands.  Before its turn is over there
\* is nothing to report; a report of success is made before anything failed, and
\* of failure after the turn or a write has failed; the manifest says
\* "completed" only of an agent that has ended.
Launching(a) ==
    pc[a] \in {"none", "output", "manifest", "spawn", "run"} =>
        /\ outcome[a] = "none" /\ report[a] = "none" /\ failures[a] = 0
        /\ pc[a] \in {"manifest", "spawn", "run"} => output[a] = << >>

Reporting(a) ==
    /\ pc[a] \in {"append", "list", "disable", "report"} =>
          \/ /\ report[a] = "completed" /\ outcome[a] = "completed" /\ failures[a] = 0
             /\ output[a] = IF pc[a] = "append" THEN << >> ELSE <<"completed">>
          \/ /\ report[a] = "failed" /\ pc[a] \in {"append", "report"}
             /\ failures[a] = 0 => outcome[a] = "failed"
    /\ report[a] # "completed" /\ failures[a] = 0 => disabled[a] = {}
    /\ report[a] = "completed" /\ pc[a] \in {"append", "list"} => disabled[a] = {}

Ended(a) ==
    /\ killed => pc[a] = "ended"
    /\ pc[a] # "ended" => claimed[a] = {}
    /\ claimed[a] \subseteq disabled[a]
    /\ manifest[a] = "completed" =>
          pc[a] = "ended" /\ outcome[a] = "completed" /\ output[a] = <<"completed">>
    /\ pc[a] = "ended" /\ ~killed =>
          /\ failures[a] = 0 =>
                manifest[a] = outcome[a] /\ (report[a] = "completed" => claimed[a] = disabled[a])
          /\ failures[a] = 1 /\ outcome[a] = "completed" => manifest[a] = "failed"

Text == Seq({"no file", "completed", "failed"})
AgentsTyped ==
    /\ pc \in [Agent -> {"none", "output", "manifest", "spawn", "run", "append", "list",
                         "disable", "report", "ended"}]
    /\ output \in [Agent -> Text]
    /\ manifest \in [Agent -> {"no file", "torn", "running", "completed", "failed"}]
    /\ report \in [Agent -> {"none", "completed", "failed"}]
    /\ claimed \in [Agent -> SUBSET Cron] /\ listed \in [Agent -> SUBSET Cron]
    /\ disabled \in [Agent -> SUBSET Cron]
    /\ cron \in [Cron -> {"unused", "on", "off", "deleted"}]
    /\ killed \in BOOLEAN /\ failures \in [Agent -> Nat]
    /\ outcome \in [Agent -> {"none", "completed", "failed"}]

\* What an agent has switched off stays so, and somebody switched it off.
AgentInv ==
    /\ AgentsTyped
    /\ \A a \in Agent : Launching(a) /\ Reporting(a) /\ Ended(a)
    /\ \A a \in Agent : \A c \in disabled[a] : cron[c] \in {"off", "deleted"}
    /\ \A c \in Cron : cron[c] = "off" => \E a \in Agent : c \in disabled[a]
    /\ killed => \A c \in Cron : cron[c] # "off"

LEMMA Sections ==
    ASSUME NEW S
    PROVE  /\ << >> \in Seq(S)
           /\ \A x \in S : <<x>> \in Seq(S)
           /\ \A t \in Seq(S), x \in S : Append(t, x) \in Seq(S)
  OBVIOUS

LEMMA AgentsStart == Agents!Init => AgentInv
<1> SUFFICES ASSUME Agents!Init PROVE AgentInv
  OBVIOUS
<1> USE DEF Agents!Init
<1>1. AgentsTyped
  <2>1. <<"no file">> \in Text
    BY Sections DEF Text
  <2>2. output \in [Agent -> Text]
    BY <2>1 DEF Agents!NoFile
  <2> QED
    BY <2>2 DEF AgentsTyped
<1>2. \A a \in Agent : Launching(a) /\ Reporting(a) /\ Ended(a)
  BY DEF Launching, Reporting, Ended
<1> QED
  BY <1>1, <1>2 DEF AgentInv

\* A step of one agent leaves the others alone, and what is switched off.
Alone(a) ==
    /\ \A b \in Agent \ {a} :
          /\ pc'[b] = pc[b] /\ outcome'[b] = outcome[b] /\ report'[b] = report[b]
          /\ failures'[b] = failures[b] /\ output'[b] = output[b]
          /\ manifest'[b] = manifest[b] /\ claimed'[b] = claimed[b]
          /\ disabled'[b] = disabled[b]
    /\ killed' = killed

LEMMA OthersStay ==
    ASSUME AgentInv, NEW a \in Agent, Alone(a), AgentsTyped',
           Launching(a)', Reporting(a)', Ended(a)',
           disabled[a] \subseteq disabled'[a], 
           \A c \in disabled'[a] : cron'[c] \in {"off", "deleted"},
           \A c \in Cron : \/ cron'[c] = cron[c]
                           \/ cron[c] # "deleted" /\ cron'[c] = "off" /\ c \in disabled'[a]
                              /\ ~killed
    PROVE  AgentInv'
<1>1. \A b \in Agent : (Launching(b) /\ Reporting(b) /\ Ended(b))'
  BY DEF AgentInv, Alone, Launching, Reporting, Ended
<1>2. \A b \in Agent : \A c \in disabled'[b] : cron'[c] \in {"off", "deleted"}
  <2> SUFFICES ASSUME NEW b \in Agent, NEW c \in disabled'[b], b # a
               PROVE  cron'[c] \in {"off", "deleted"}
    OBVIOUS
  <2>1. c \in disabled[b] /\ c \in Cron
    BY DEF AgentInv, Alone, AgentsTyped
  <2> QED
    BY <2>1 DEF AgentInv
<1>3. \A c \in Cron : cron'[c] = "off" => \E b \in Agent : c \in disabled'[b]
  BY DEF AgentInv, Alone
<1>4. killed' => \A c \in Cron : cron'[c] # "off"
  BY DEF AgentInv, Alone
<1> QED
  BY <1>1, <1>2, <1>3, <1>4 DEF AgentInv

LEMMA AgentSteps ==
    ASSUME AgentInv, NEW a \in Agent,
           Agents!Launch(a) \/ Agents!Thread(a) \/ Agents!WriteFails(a)
    PROVE  AgentInv'
<1> USE DEF Agents!At, Agents!Reports, Agents!fileVars, Agents!threadVars
<1>1. AgentsTyped
  BY DEF AgentInv
<1>2. /\ Launching(a) /\ Reporting(a) /\ Ended(a)
      /\ \A c \in disabled[a] : cron[c] \in {"off", "deleted"}
      /\ killed => \A c \in Cron : cron[c] # "off"
  BY DEF AgentInv
<1>3. /\ << >> \in Text
      /\ \A t \in Text : Append(t, "completed") \in Text /\ Append(t, "failed") \in Text
  BY Sections DEF Text
<1>4. Append(<< >>, "completed") = <<"completed">>
  OBVIOUS
<1>5. SUFFICES /\ Alone(a) /\ AgentsTyped'
               /\ Launching(a)' /\ Reporting(a)' /\ Ended(a)'
               /\ disabled[a] \subseteq disabled'[a]
               /\ \A c \in disabled'[a] : cron'[c] \in {"off", "deleted"}
               /\ \A c \in Cron : \/ cron'[c] = cron[c]
                                  \/ cron[c] # "deleted" /\ cron'[c] = "off"
                                     /\ c \in disabled'[a] /\ ~killed
  BY OthersStay
<1> USE DEF AgentsTyped, Alone, Launching, Reporting, Ended
<1>7. CASE Agents!BeginAgent(a)
  <2>1. AgentsTyped'
    BY <1>7, <1>1 DEF Agents!BeginAgent
  <2>2. Alone(a)
    BY <1>7, <1>1 DEF Agents!BeginAgent
  <2>3. Launching(a)'
    BY <1>7, <1>1, <1>2 DEF Agents!BeginAgent
  <2>4. Reporting(a)'
    BY <1>7, <1>1, <1>2 DEF Agents!BeginAgent
  <2>5. Ended(a)'
    BY <1>7, <1>1, <1>2 DEF Agents!BeginAgent
  <2>6. /\ disabled[a] \subseteq disabled'[a]
        /\ \A c \in disabled'[a] : cron'[c] \in {"off", "deleted"}
        /\ \A c \in Cron : \/ cron'[c] = cron[c]
                           \/ cron[c] # "deleted" /\ cron'[c] = "off"
                              /\ c \in disabled'[a] /\ ~killed
    BY <1>7, <1>1, <1>2 DEF Agents!BeginAgent
  <2> QED
    BY <2>1, <2>2, <2>3, <2>4, <2>5, <2>6
<1>8. CASE Agents!WriteOutput(a)
  <2>1. AgentsTyped'
    BY <1>8, <1>1, <1>3, <1>4 DEF Agents!WriteOutput
  <2>2. Alone(a)
    BY <1>8, <1>1 DEF Agents!WriteOutput
  <2>3. Launching(a)'
    BY <1>8, <1>1, <1>2 DEF Agents!WriteOutput
  <2>4. Reporting(a)'
    BY <1>8, <1>1, <1>2, <1>3, <1>4 DEF Agents!WriteOutput
  <2>5. Ended(a)'
    BY <1>8, <1>1, <1>2 DEF Agents!WriteOutput
  <2>6. /\ disabled[a] \subseteq disabled'[a]
        /\ \A c \in disabled'[a] : cron'[c] \in {"off", "deleted"}
        /\ \A c \in Cron : \/ cron'[c] = cron[c]
                           \/ cron[c] # "deleted" /\ cron'[c] = "off"
                              /\ c \in disabled'[a] /\ ~killed
    BY <1>8, <1>1, <1>2 DEF Agents!WriteOutput
  <2> QED
    BY <2>1, <2>2, <2>3, <2>4, <2>5, <2>6
<1>9. CASE Agents!WriteRunning(a)
  <2>1. AgentsTyped'
    BY <1>9, <1>1 DEF Agents!WriteRunning
  <2>2. Alone(a)
    BY <1>9, <1>1 DEF Agents!WriteRunning
  <2>3. Launching(a)'
    BY <1>9, <1>1, <1>2 DEF Agents!WriteRunning
  <2>4. Reporting(a)'
    BY <1>9, <1>1, <1>2 DEF Agents!WriteRunning
  <2>5. Ended(a)'
    BY <1>9, <1>1, <1>2 DEF Agents!WriteRunning
  <2>6. /\ disabled[a] \subseteq disabled'[a]
        /\ \A c \in disabled'[a] : cron'[c] \in {"off", "deleted"}
        /\ \A c \in Cron : \/ cron'[c] = cron[c]
                           \/ cron[c] # "deleted" /\ cron'[c] = "off"
                              /\ c \in disabled'[a] /\ ~killed
    BY <1>9, <1>1, <1>2 DEF Agents!WriteRunning
  <2> QED
    BY <2>1, <2>2, <2>3, <2>4, <2>5, <2>6
<1>10. CASE Agents!Spawn(a)
  <2>1. AgentsTyped'
    BY <1>10, <1>1 DEF Agents!Spawn
  <2>2. Alone(a)
    BY <1>10, <1>1 DEF Agents!Spawn
  <2>3. Launching(a)'
    BY <1>10, <1>1, <1>2 DEF Agents!Spawn
  <2>4. Reporting(a)'
    BY <1>10, <1>1, <1>2 DEF Agents!Spawn
  <2>5. Ended(a)'
    BY <1>10, <1>1, <1>2 DEF Agents!Spawn
  <2>6. /\ disabled[a] \subseteq disabled'[a]
        /\ \A c \in disabled'[a] : cron'[c] \in {"off", "deleted"}
        /\ \A c \in Cron : \/ cron'[c] = cron[c]
                           \/ cron[c] # "deleted" /\ cron'[c] = "off"
                              /\ c \in disabled'[a] /\ ~killed
    BY <1>10, <1>1, <1>2 DEF Agents!Spawn
  <2> QED
    BY <2>1, <2>2, <2>3, <2>4, <2>5, <2>6
<1>11. CASE Agents!TurnOver(a)
  <2>1. AgentsTyped'
    <3> PICK result \in {"completed", "failed"} :
          /\ pc' = [pc EXCEPT ![a] = "append"] /\ report' = [report EXCEPT ![a] = result]
          /\ outcome' = [outcome EXCEPT ![a] = result]
      BY <1>11 DEF Agents!TurnOver
    <3> QED
      BY <1>11, <1>1 DEF Agents!TurnOver
  <2>2. Alone(a)
    BY <1>11, <1>1 DEF Agents!TurnOver
  <2>3. Launching(a)'
    BY <1>11, <1>1, <1>2 DEF Agents!TurnOver
  <2>4. Reporting(a)'
    BY <1>11, <1>1, <1>2 DEF Agents!TurnOver
  <2>5. Ended(a)'
    <3>1. pc[a] = "run" /\ pc'[a] = "append" /\ manifest' = manifest /\ killed' = killed
          /\ claimed' = claimed /\ disabled' = disabled
      BY <1>11, <1>1 DEF Agents!TurnOver
    <3> QED
      BY <1>2, <3>1
  <2>6. /\ disabled[a] \subseteq disabled'[a]
        /\ \A c \in disabled'[a] : cron'[c] \in {"off", "deleted"}
        /\ \A c \in Cron : \/ cron'[c] = cron[c]
                           \/ cron[c] # "deleted" /\ cron'[c] = "off"
                              /\ c \in disabled'[a] /\ ~killed
    BY <1>11, <1>1, <1>2 DEF Agents!TurnOver
  <2> QED
    BY <2>1, <2>2, <2>3, <2>4, <2>5, <2>6
<1>12. CASE Agents!AppendSection(a)
  <2>1. AgentsTyped'
    <3>1. Append(output[a], report[a]) \in Text
      BY <1>12, <1>1, <1>2, <1>3 DEF Agents!AppendSection
    <3>2. output' \in [Agent -> Text]
      BY <1>12, <1>1, <3>1 DEF Agents!AppendSection
    <3> QED
      BY <1>12, <1>1, <3>2 DEF Agents!AppendSection
  <2>2. Alone(a)
    BY <1>12, <1>1 DEF Agents!AppendSection
  <2>3. Launching(a)'
    BY <1>12, <1>1, <1>2 DEF Agents!AppendSection
  <2>4. Reporting(a)'
    BY <1>12, <1>1, <1>2, <1>3, <1>4 DEF Agents!AppendSection
  <2>5. Ended(a)'
    BY <1>12, <1>1, <1>2 DEF Agents!AppendSection
  <2>6. /\ disabled[a] \subseteq disabled'[a]
        /\ \A c \in disabled'[a] : cron'[c] \in {"off", "deleted"}
        /\ \A c \in Cron : \/ cron'[c] = cron[c]
                           \/ cron[c] # "deleted" /\ cron'[c] = "off"
                              /\ c \in disabled'[a] /\ ~killed
    BY <1>12, <1>1, <1>2 DEF Agents!AppendSection
  <2> QED
    BY <2>1, <2>2, <2>3, <2>4, <2>5, <2>6
<1>13. CASE Agents!ListCrons(a)
  <2>1. AgentsTyped'
    <3>1. {c \in Settles[a] : cron[c] = "on"} \in SUBSET Cron
      BY SettlesAssumption
    <3>2. listed' \in [Agent -> SUBSET Cron]
      BY <1>13, <1>1, <3>1 DEF Agents!ListCrons
    <3> QED
      BY <1>13, <1>1, <3>2 DEF Agents!ListCrons
  <2>2. Alone(a)
    BY <1>13, <1>1 DEF Agents!ListCrons
  <2>3. Launching(a)'
    BY <1>13, <1>1, <1>2 DEF Agents!ListCrons
  <2>4. Reporting(a)'
    BY <1>13, <1>1, <1>2 DEF Agents!ListCrons
  <2>5. Ended(a)'
    BY <1>13, <1>1, <1>2 DEF Agents!ListCrons
  <2>6. /\ disabled[a] \subseteq disabled'[a]
        /\ \A c \in disabled'[a] : cron'[c] \in {"off", "deleted"}
        /\ \A c \in Cron : \/ cron'[c] = cron[c]
                           \/ cron[c] # "deleted" /\ cron'[c] = "off"
                              /\ c \in disabled'[a] /\ ~killed
    BY <1>13, <1>1, <1>2 DEF Agents!ListCrons
  <2> QED
    BY <2>1, <2>2, <2>3, <2>4, <2>5, <2>6
<1>14. CASE Agents!DisableCron(a)
  <2> PICK d \in listed[a] :
        /\ pc[a] = "disable" /\ listed' = [listed EXCEPT ![a] = @ \ {d}]
        /\ IF cron[d] = "deleted" THEN UNCHANGED <<cron, disabled>>
           ELSE /\ cron' = [cron EXCEPT ![d] = "off"]
                /\ disabled' = [disabled EXCEPT ![a] = @ \cup {d}]
        /\ UNCHANGED <<pc, output, manifest, claimed, report, killed, outcome, failures>>
    BY <1>14 DEF Agents!DisableCron
  <2>0. d \in Cron
    BY <1>1
  <2>7. listed[a] \ {d} \in SUBSET Cron /\ disabled[a] \cup {d} \in SUBSET Cron
    BY <1>1, <2>0
  <2>1. AgentsTyped'
    <3>1. /\ listed' \in [Agent -> SUBSET Cron] /\ disabled' \in [Agent -> SUBSET Cron]
      BY <1>1, <2>7, ZenonT(60)
    <3>2. cron' \in [Cron -> {"unused", "on", "off", "deleted"}]
      BY <1>1, <2>0
    <3> QED
      BY <1>1, <3>1, <3>2
  <2>2. Alone(a)
    BY <1>1
  <2>3. Launching(a)'
    BY <1>1, <1>2
  <2>4. Reporting(a)'
    BY <1>1, <1>2
  <2>5. Ended(a)'
    BY <1>1, <1>2
  <2>8. ~killed
    BY <1>2, <1>1
  <2>6. /\ disabled[a] \subseteq disabled'[a]
        /\ \A c \in disabled'[a] : cron'[c] \in {"off", "deleted"}
        /\ \A c \in Cron : \/ cron'[c] = cron[c]
                           \/ cron[c] # "deleted" /\ cron'[c] = "off"
                              /\ c \in disabled'[a] /\ ~killed
    <3>1. CASE cron[d] = "deleted"
      BY <1>2, <3>1
    <3>2. CASE cron[d] # "deleted"
      <4>1. cron' = [cron EXCEPT ![d] = "off"] /\ disabled'[a] = disabled[a] \cup {d}
        BY <1>1, <3>2
      <4> QED
        BY <1>1, <1>2, <2>0, <2>8, <3>2, <4>1
    <3> QED
      BY <3>1, <3>2
  <2> QED
    BY <2>1, <2>2, <2>3, <2>4, <2>5, <2>6
<1>15. CASE Agents!AllDisabled(a)
  <2>1. AgentsTyped'
    BY <1>15, <1>1 DEF Agents!AllDisabled
  <2>2. Alone(a)
    BY <1>15, <1>1 DEF Agents!AllDisabled
  <2>3. Launching(a)'
    BY <1>15, <1>1, <1>2 DEF Agents!AllDisabled
  <2>4. Reporting(a)'
    BY <1>15, <1>1, <1>2 DEF Agents!AllDisabled
  <2>5. Ended(a)'
    BY <1>15, <1>1, <1>2 DEF Agents!AllDisabled
  <2>6. /\ disabled[a] \subseteq disabled'[a]
        /\ \A c \in disabled'[a] : cron'[c] \in {"off", "deleted"}
        /\ \A c \in Cron : \/ cron'[c] = cron[c]
                           \/ cron[c] # "deleted" /\ cron'[c] = "off"
                              /\ c \in disabled'[a] /\ ~killed
    BY <1>15, <1>1, <1>2 DEF Agents!AllDisabled
  <2> QED
    BY <2>1, <2>2, <2>3, <2>4, <2>5, <2>6
<1>16. CASE Agents!WriteReport(a)
  <2>1. AgentsTyped'
    <3>1. (IF report[a] = "completed" THEN disabled[a] ELSE {}) \in SUBSET Cron
      BY <1>1
    <3>2. claimed' \in [Agent -> SUBSET Cron]
      BY <1>16, <1>1, <3>1 DEF Agents!WriteReport
    <3>3. manifest' \in [Agent -> {"no file", "torn", "running", "completed", "failed"}]
      BY <1>16, <1>1, <1>2 DEF Agents!WriteReport
    <3> QED
      BY <1>16, <1>1, <3>2, <3>3 DEF Agents!WriteReport
  <2>2. Alone(a)
    BY <1>16, <1>1 DEF Agents!WriteReport
  <2>3. Launching(a)'
    BY <1>16, <1>1, <1>2 DEF Agents!WriteReport
  <2>4. Reporting(a)'
    BY <1>16, <1>1, <1>2 DEF Agents!WriteReport
  <2>5. Ended(a)'
    <3>1. /\ manifest'[a] = report[a] /\ pc'[a] = "ended"
          /\ claimed'[a] = IF report[a] = "completed" THEN disabled[a] ELSE {}
          /\ UNCHANGED <<output, report, disabled, killed, outcome, failures>>
      BY <1>16, <1>1 DEF Agents!WriteReport
    <3>2. CASE report[a] = "completed"
      BY <1>16, <1>2, <3>1, <3>2 DEF Agents!WriteReport
    <3>3. CASE report[a] = "failed"
      BY <1>16, <1>2, <3>1, <3>3 DEF Agents!WriteReport
    <3> QED
      BY <1>16, <1>2, <3>2, <3>3 DEF Agents!WriteReport
  <2>6. /\ disabled[a] \subseteq disabled'[a]
        /\ \A c \in disabled'[a] : cron'[c] \in {"off", "deleted"}
        /\ \A c \in Cron : \/ cron'[c] = cron[c]
                           \/ cron[c] # "deleted" /\ cron'[c] = "off"
                              /\ c \in disabled'[a] /\ ~killed
    BY <1>16, <1>1, <1>2 DEF Agents!WriteReport
  <2> QED
    BY <2>1, <2>2, <2>3, <2>4, <2>5, <2>6
<1>17. CASE Agents!WriteFails(a)
  <2>1. /\ failures' = [failures EXCEPT ![a] = @ + 1]
        /\ UNCHANGED <<output, claimed, listed, disabled, cron, killed, outcome>>
    BY <1>17 DEF Agents!WriteFails
  <2>2. \/ /\ pc[a] \in {"output", "manifest"}
           /\ pc' = [pc EXCEPT ![a] = "ended"] /\ report' = report
        \/ /\ pc[a] \in {"append", "report"} /\ report[a] = "completed"
           /\ pc' = [pc EXCEPT ![a] = "append"] /\ report' = [report EXCEPT ![a] = "failed"]
        \/ /\ pc[a] \in {"append", "report"} /\ report[a] # "completed"
           /\ pc' = [pc EXCEPT ![a] = "ended"] /\ report' = report
    BY <1>17 DEF Agents!WriteFails, Agents!ReportAgain
  <2>3. manifest' = manifest \/ manifest' = [manifest EXCEPT ![a] = "torn"]
    BY <1>17 DEF Agents!WriteFails
  <2>4. AgentsTyped'
    <3>1. failures' \in [Agent -> Nat]
      <4>1. failures \in [Agent -> Nat]
        BY <1>1
      <4> HIDE DEF AgentsTyped
      <4> QED
        BY <2>1, <4>1
    <3>2. manifest' \in [Agent -> {"no file", "torn", "running", "completed", "failed"}]
      BY <1>1, <2>3
    <3>3. /\ pc' \in [Agent -> {"none", "output", "manifest", "spawn", "run", "append",
                                "list", "disable", "report", "ended"}]
          /\ report' \in [Agent -> {"none", "completed", "failed"}]
      BY <1>1, <2>2
    <3> QED
      BY <1>1, <2>1, <3>1, <3>2, <3>3
  <2>5. Alone(a)
    BY <1>1, <2>1, <2>2, <2>3
  <2>6. /\ failures'[a] = failures[a] + 1 /\ failures[a] \in Nat
        /\ manifest'[a] \in {manifest[a], "torn"}
    BY <1>1, <2>1, <2>3
  <2>7. Launching(a)' /\ Reporting(a)' /\ Ended(a)'
    <3>1. CASE /\ pc[a] \in {"output", "manifest"} /\ pc'[a] = "ended"
               /\ report'[a] = report[a]
      BY <1>2, <2>1, <2>6, <3>1
    <3>2. CASE /\ pc[a] \in {"append", "report"} /\ report[a] = "completed"
               /\ pc'[a] = "append" /\ report'[a] = "failed"
      BY <1>2, <2>1, <2>6, <3>2
    <3>3. CASE /\ pc[a] \in {"append", "report"} /\ report[a] # "completed"
               /\ pc'[a] = "ended" /\ report'[a] = report[a]
      BY <1>2, <2>1, <2>6, <3>3
    <3> QED
      BY <1>1, <2>2, <3>1, <3>2, <3>3
  <2>8. disabled' = disabled /\ cron' = cron
    BY <2>1
  <2> QED
    BY <1>2, <2>4, <2>5, <2>7, <2>8
<1> QED
  BY <1>7, <1>8, <1>9, <1>10, <1>11, <1>12, <1>13, <1>14, <1>15, <1>16, <1>17
     DEF Agents!Launch, Agents!Thread

LEMMA AllAgentSteps == AgentInv /\ Agents!Next => AgentInv'
<1> SUFFICES ASSUME AgentInv, Agents!Next PROVE AgentInv'
  OBVIOUS
<1>1. CASE \E a \in Agent : Agents!Launch(a) \/ Agents!Thread(a) \/ Agents!WriteFails(a)
  BY <1>1, AgentSteps
<1> USE DEF Agents!fileVars, Agents!threadVars
<1>2. ASSUME NEW c \in Cron, Agents!CreateCron(c) \/ Agents!DeleteCron(c) PROVE AgentInv'
  <2>1. /\ UNCHANGED <<pc, output, manifest, claimed, report, listed, disabled, killed,
                       outcome, failures>>
        /\ \E to \in {"on", "deleted"} : cron' = [cron EXCEPT ![c] = to]
        /\ cron'[c] = "on" => cron[c] = "unused"
    BY <1>2 DEF Agents!CreateCron, Agents!DeleteCron, AgentInv, AgentsTyped
  <2>2. AgentsTyped'
    <3>1. cron' \in [Cron -> {"unused", "on", "off", "deleted"}]
      <4>1. cron \in [Cron -> {"unused", "on", "off", "deleted"}]
        BY DEF AgentInv, AgentsTyped
      <4>2. PICK to \in {"on", "deleted"} : cron' = [cron EXCEPT ![c] = to]
        BY <2>1
      <4> QED
        BY <4>1, <4>2
    <3>2. AgentsTyped
      BY DEF AgentInv
    <3> QED
      BY <2>1, <3>1, <3>2 DEF AgentsTyped
  <2>3. \A a \in Agent : (Launching(a) /\ Reporting(a) /\ Ended(a))'
    BY <2>1 DEF AgentInv, Launching, Reporting, Ended
  <2>4. \A a \in Agent : \A d \in disabled'[a] : cron'[d] \in {"off", "deleted"}
    BY <2>1 DEF AgentInv, AgentsTyped
  <2>5. \A d \in Cron : cron'[d] = "off" => cron[d] = "off"
    BY <2>1 DEF AgentInv, AgentsTyped
  <2> QED
    BY <2>1, <2>2, <2>3, <2>4, <2>5 DEF AgentInv
<1>3. CASE Agents!Exit
  <2>1. /\ UNCHANGED <<output, manifest, claimed, report, listed, disabled, outcome, failures>>
        /\ killed' = TRUE
        /\ \A a \in Agent : pc'[a] = "ended"
        /\ \A c \in Cron : cron'[c] = "deleted"
    BY <1>3 DEF Agents!Exit
  <2>2. AgentsTyped'
    BY <1>3, <2>1, ZenonT(60) DEF Agents!Exit, AgentInv, AgentsTyped
  <2>3. \A a \in Agent : (Launching(a) /\ Reporting(a) /\ Ended(a))'
    BY <2>1 DEF AgentInv, Launching, Reporting, Ended
  <2>4. \A a \in Agent : \A c \in disabled'[a] : cron'[c] \in {"off", "deleted"}
    BY <2>1 DEF AgentInv, AgentsTyped
  <2> QED
    BY <2>1, <2>2, <2>3, <2>4 DEF AgentInv
<1> QED
  BY <1>1, <1>2, <1>3 DEF Agents!Next

LEMMA AgentsAreTruthful == AgentInv => ManifestTellsTheTruth
<1> SUFFICES ASSUME AgentInv PROVE Agents!ManifestTellsTheTruth
  BY DEF ManifestTellsTheTruth
<1>1. ASSUME NEW a \in Agent
      PROVE  /\ manifest[a] = "completed" =>
                   /\ outcome[a] = "completed" /\ output[a] = <<"completed">>
                   /\ \A c \in claimed[a] : cron[c] \in {"off", "deleted"}
             /\ pc[a] = "ended" /\ ~killed =>
                   /\ failures[a] = 0 => manifest[a] = outcome[a]
                   /\ failures[a] = 1 /\ outcome[a] = "completed" => manifest[a] = "failed"
  BY DEF AgentInv, Ended
<1>2. ASSUME NEW c \in Cron, cron[c] = "off"
      PROVE  \E a \in Agent :
                /\ c \in disabled[a]
                /\ c \in claimed[a] \/ pc[a] \in {"disable", "report"} \/ failures[a] > 0
  <2>1. PICK a \in Agent : c \in disabled[a]
    BY <1>2 DEF AgentInv
  <2>2. ~killed
    BY <1>2 DEF AgentInv
  <2>3. failures[a] \in Nat /\ pc[a] \in {"none", "output", "manifest", "spawn", "run",
                                          "append", "list", "disable", "report", "ended"}
    BY DEF AgentInv, AgentsTyped
  <2>4. ASSUME failures[a] = 0 PROVE c \in claimed[a] \/ pc[a] \in {"disable", "report"}
    <3>1. report[a] = "completed" /\ pc[a] \notin {"append", "list"}
      BY <2>1, <2>4 DEF AgentInv, Reporting
    <3>2. pc[a] \notin {"none", "output", "manifest", "spawn", "run"}
      BY <3>1 DEF AgentInv, Launching
    <3> QED
      BY <2>1, <2>2, <2>3, <2>4, <3>1, <3>2 DEF AgentInv, Ended
  <2> QED
    BY <2>1, <2>3, <2>4
<1> QED
  BY <1>1, <1>2 DEF Agents!ManifestTellsTheTruth

\* Manifest, output file and cron registry agree with what happened, for any
\* agents, entries, writes that fail, and whatever each agent settles.
THEOREM ManifestsAreTrue == EachSpec => []ManifestTellsTheTruth
<1>1. EachInit => AgentInv
  BY AgentsStart DEF EachInit
<1>2. AgentInv /\ [EachNext]_eachVars => AgentInv'
  <2>1. AgentInv /\ UNCHANGED agentVars => AgentInv'
    <3>1. AgentsTyped /\ UNCHANGED agentVars => AgentsTyped'
      BY DEF agentVars, AgentsTyped
    <3>2. ASSUME NEW a \in Agent, UNCHANGED agentVars, Launching(a), Reporting(a), Ended(a)
          PROVE  (Launching(a) /\ Reporting(a) /\ Ended(a))'
      BY <3>2 DEF agentVars, Launching, Reporting, Ended
    <3>3. UNCHANGED agentVars => UNCHANGED <<disabled, cron, killed>>
      BY DEF agentVars
    <3> QED
      BY <3>1, <3>2, <3>3 DEF AgentInv
  <2> QED
    BY <2>1, AllAgentSteps DEF EachNext, eachVars
<1> QED
  BY <1>1, <1>2, AgentsAreTruthful, PTL DEF EachSpec

=============================================================================
