------------------------------ MODULE LiveCli ------------------------------
(***************************************************************************)
(* A prompt through the interactive program: LiveCli::run_turn of          *)
(* rusty-claude-cli/src/main.rs.  A turn runs on a copy of the session;    *)
(* every message it pushes is also appended to the session file; when it   *)
(* succeeds the copy becomes the session and is saved as a whole.  When    *)
(* the provider says that the request is too long, the turn is tried again *)
(* on the compacted transcript, up to four times.                          *)
(*                                                                         *)
(* The steps of a turn are its pushes here (Conversation has the rest of    *)
(* them), and the file is the sequence of its message records (SessionLog  *)
(* has its writes).                                                        *)
(***************************************************************************)
EXTENDS Trident

CONSTANTS MaxPrompts,      \* bound: prompts the user types
          DefaultThreshold,\* auto-compaction threshold of a new runtime
          MaxUses,         \* bound: tool uses in all
          Windows          \* context windows a provider may name in its error

NoWindow == 0
NotShrunk == [messages |-> << >>, removed |-> 0]

\* preserve_schedule, and the default number of messages to preserve.
PreserveSchedule == <<4, 2, 1, 0>>
PreserveRecent == 4

VARIABLES main,        \* messages of self.runtime, the session
          turn,        \* messages of the runtime a turn runs on
          shrunk,      \* what compacting a turn that was too long gives
          file,        \* messages in the session file
          phase,       \* idle, working, too_long (the turn failed so), exited
          round,       \* retries of the turn so far
          threshold,   \* auto-compaction threshold of the turn's runtime
          told,        \* the last context window an error named
          prompts,     \* prompts typed
          nextId       \* tool uses so far

vars == <<main, turn, shrunk, file, phase, round, threshold, told, prompts, nextId>>

Phase == {"idle", "working", "too_long", "exited"}

Init ==
    /\ main = << >> /\ turn = << >> /\ file = << >> /\ shrunk = NotShrunk
    /\ phase = "idle" /\ round = 0
    /\ threshold = DefaultThreshold /\ told = NoWindow
    /\ prompts = 0 /\ nextId = 1

\* prepare_turn_runtime and the first lines of run_turn: a new runtime on a
\* transcript, and the prompt pushed to it.
Begin(messages) ==
    /\ turn' = Append(messages, UserText(1))
    /\ file' = Append(file, UserText(1))
    /\ phase' = "working" /\ threshold' = DefaultThreshold

Submit ==
    /\ phase = "idle" /\ prompts < MaxPrompts
    /\ Begin(main)
    /\ prompts' = prompts + 1 /\ round' = 0
    /\ UNCHANGED <<main, shrunk, told, nextId>>

\* maybe_auto_compact: over the threshold, or not.
MayBeCompacted(messages) ==
    {messages, CompactSession(messages, PreserveRecent, 0).messages}

\* The last message of the turn asks for a tool: its result is to come.
ToolPending == turn # << >> /\ HasToolUse(turn[Len(turn)])

\* A request is with the provider.  The program sets no limit on how many a
\* turn makes.
Asking == phase = "working" /\ ~ToolPending

\* The model uses a tool: the answer is pushed, compaction may follow at once.
UseTool == \E tool \in Tool, input \in Input :
    LET use == [id |-> nextId, tool |-> tool, input |-> input]
        asked == AssistantMessage(<<use>>, 1)
    IN  /\ Asking /\ nextId <= MaxUses
        /\ turn' \in MayBeCompacted(Append(turn, asked))
        /\ file' = Append(file, asked)
        /\ nextId' = nextId + 1
        /\ UNCHANGED <<main, shrunk, phase, round, threshold, told, prompts>>

\* The tool has run, or was refused: its result is pushed.
ToolAnswers ==
    LET answered == ToolResult(turn[Len(turn)].uses[1].id, FALSE, 1) IN
    /\ phase = "working" /\ ToolPending
    /\ turn' = Append(turn, answered) /\ file' = Append(file, answered)
    /\ UNCHANGED <<main, shrunk, phase, round, threshold, told, prompts, nextId>>

\* Variant: what is saved is the session the turn began with.
Answer_SavesBeforeReplacing ==
    /\ Asking
    /\ main' \in MayBeCompacted(Append(turn, AssistantMessage(<< >>, 1)))
    /\ file' = main /\ turn' = << >> /\ phase' = "idle"
    /\ UNCHANGED <<shrunk, round, threshold, told, prompts, nextId>>

\* An answer without a tool: the runtime of the turn replaces the session's, and the
\* whole session is saved.
Answer ==
    /\ Asking
    /\ main' \in MayBeCompacted(Append(turn, AssistantMessage(<< >>, 1)))
    /\ file' = main' /\ turn' = << >> /\ phase' = "idle"
    /\ UNCHANGED <<shrunk, round, threshold, told, prompts, nextId>>

Exit == phase' = "exited" /\ main' = << >> /\ turn' = << >> /\ shrunk' = NotShrunk

\* Where a turn's error leads: either front end gives it to its caller, which
\* ends the program.  The line editor leaves the file as it is, the terminal
\* interface saves the session on its way out.
ExitInError == Exit /\ file' \in {file, main}

\* Any error but the next one.
Fails ==
    /\ phase = "working" /\ ExitInError
    /\ UNCHANGED <<round, threshold, told, prompts, nextId>>

\* What a retry makes of the turn that failed.
Shrink(messages, r) == TridentCompact(messages, PreserveSchedule[r], 0)

\* The request does not fit.  The threshold the error suggests is given to the
\* runtime that has failed, and its transcript is compacted for the next round.
TooLong ==
    /\ Asking
    /\ IF round = Len(PreserveSchedule)
       THEN ExitInError /\ UNCHANGED <<threshold, told>>
       ELSE /\ phase' = "too_long" /\ UNCHANGED <<main, turn, file>>
            /\ shrunk' = Shrink(turn, round + 1)
            /\ \E window \in Windows \cup {NoWindow} :
                   IF window = NoWindow THEN UNCHANGED <<threshold, told>>
                   ELSE threshold' = (window * 7) \div 10 /\ told' = window
    /\ UNCHANGED <<round, prompts, nextId>>

NothingToCompact == round > 0 /\ shrunk.removed = 0

\* Variant: the compacted session is saved before it has proved itself.
Retry_SavesFirst ==
    /\ phase = "too_long" /\ ~NothingToCompact
    /\ main' = shrunk.messages /\ shrunk' = NotShrunk
    /\ turn' = Append(main', UserText(1)) /\ file' = turn'
    /\ phase' = "working" /\ threshold' = DefaultThreshold
    /\ round' = round + 1
    /\ UNCHANGED <<told, prompts, nextId>>

\* The compacted transcript becomes the session, and the turn is run on a copy
\* of it from the beginning.
Retry ==
    /\ phase = "too_long" /\ ~NothingToCompact
    /\ main' = shrunk.messages /\ shrunk' = NotShrunk
    /\ Begin(main')
    /\ round' = round + 1
    /\ UNCHANGED <<told, prompts, nextId>>

\* Variant: the request that could not be made smaller is sent again.
GiveUp_AsksAgain ==
    /\ phase = "too_long" /\ NothingToCompact
    /\ phase' = "working" /\ shrunk' = NotShrunk
    /\ UNCHANGED <<main, turn, file, round, threshold, told, prompts, nextId>>

\* "No further compaction possible."
GiveUp ==
    /\ phase = "too_long" /\ NothingToCompact
    /\ ExitInError
    /\ UNCHANGED <<round, threshold, told, prompts, nextId>>

\* /compact: no Trident here, and nothing below the token limit is touched.
Compact == \E limit \in {0, EstimateTokens(main, 1) + 1} :
    /\ phase = "idle"
    /\ main' = CompactSession(main, PreserveRecent, limit).messages
    /\ file' = main'
    /\ UNCHANGED <<turn, shrunk, phase, round, threshold, told, prompts, nextId>>

\* The program is left, or killed at any moment.
Leave ==
    /\ phase # "exited" /\ Exit
    /\ UNCHANGED <<file, round, threshold, told, prompts, nextId>>

\* /resume: the session is what the file holds.
Resume ==
    /\ phase = "exited" /\ prompts < MaxPrompts
    /\ main' = file /\ phase' = "idle"
    /\ UNCHANGED <<turn, shrunk, file, round, threshold, told, prompts, nextId>>

\* --resume file /compact, from the command line.
ResumeAndCompact ==
    /\ phase = "exited"
    /\ file' = TridentCompact(file, PreserveRecent, 0).messages
    /\ UNCHANGED <<main, turn, shrunk, phase, round, threshold, told, prompts, nextId>>

Provider == UseTool \/ ToolAnswers \/ Answer \/ Fails \/ TooLong

Next == Submit \/ Provider \/ Retry \/ GiveUp \/ Compact \/ Leave
           \/ Resume \/ ResumeAndCompact

\* The provider answers or its request fails, and the loop goes on by itself.
Fairness == WF_vars(Provider) /\ WF_vars(Retry \/ GiveUp)

Spec == Init /\ [][Next]_vars /\ Fairness

----------------------------------------------------------------------------
TypeOK ==
    /\ main \in Seq(Message) /\ turn \in Seq(Message) /\ file \in Seq(Message)
    /\ shrunk \in [messages : Seq(Message), removed : Nat]
    /\ phase \in Phase /\ round \in 0..Len(PreserveSchedule)
    /\ threshold \in Nat /\ told \in Windows \cup {NoWindow}
    /\ prompts \in 0..MaxPrompts /\ nextId \in Nat \ {0}

\* At the prompt the session file holds the session, whatever retries,
\* compactions and failed turns came before: leaving then loses nothing.
FileHoldsTheSession == phase = "idle" => file = main

\* Until a turn has its answer, or the user asks for a compaction, the file is
\* only appended to, however many transcripts the turn is tried on.  The one
\* thing that may replace it is the session, which the terminal interface saves
\* on its way out of a turn that failed: after a retry that is the transcript
\* the retry had compacted.
UnansweredTurnsOnlyAppend ==
    [][Len(file') < Len(file) \/ SubSeq(file', 1, Len(file)) # file
         => \/ phase \in {"idle", "exited"} \/ phase' = "idle"
            \/ phase' = "exited" /\ file' = main]_vars

\* A turn comes to an end, however often the provider finds it too long, however
\* far its transcript shrinks, and whatever fails.  The one thing that can keep
\* it going is an assistant that asks for tools again and again: nothing in the
\* program stops that.
TurnEnds == <>[](phase \in {"working", "too_long"}) => []<><<UseTool>>_vars

----------------------------------------------------------------------------
(* What the comments say, which the code does not keep *)

UserMessages(messages) == Cardinality({i \in DOMAIN messages : messages[i].role = "user"})

\* "Retry the original request with the compacted session": the request holds
\* the prompts the user typed, and no other.
AsksOnce == phase = "working" => UserMessages(turn) <= prompts

\* "a smaller payload"
RetriesShrink ==
    [][phase = "too_long" /\ phase' = "working"
         => EstimateTokens(turn', 1) < EstimateTokens(turn, 1)]_vars

\* "so future auto-compact-trigger checks are accurate"
ThresholdIsKept ==
    phase = "working" /\ told # NoWindow => threshold = (told * 7) \div 10

\* "No more messages to compact -- further rounds won't help"
GivesUpAtTheEnd ==
    phase = "too_long" /\ NothingToCompact =>
        \A later \in (round + 1)..Len(PreserveSchedule) :
            Shrink(turn, later).removed = 0

=============================================================================
