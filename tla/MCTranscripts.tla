--------------------------- MODULE MCTranscripts ---------------------------
(***************************************************************************)
(* What becomes of the answers of the model: how they stream in (Streams),   *)
(* what the conversation loop makes of them with its compaction, and what  *)
(* Trident does to every transcript a loop can write.  subject says which  *)
(* of them moves.                                                          *)
(***************************************************************************)
EXTENDS MCConversation, Trident

CONSTANTS
    RoundMessages, RoundUses, RoundIds, Again,            \* of MCTrident
    Client, Call, ChainLength, MaxChunks, MaxFragments,   \* of OpenAiStream
    MaxFrames, MaxRetries                                 \* of AnthropicStream

ASSUME RoundsAreNumbers == RoundUses \in Nat /\ Again \in SUBSET Nat
ASSUME FramesAreNumbers == MaxFrames \in Nat
ASSUME CallsAreNumbers == Call \in SUBSET Nat /\ IsFiniteSet(Call)

VARIABLES
    subject,                 \* "loop", "trident" or "stream"
    given, open, serial,     \* of MCTrident
    provider,                \* of MCStreams
    client, postTool, attempt, state, events, done, consumer, made, sent, progress, chunks,
    lateness, blocks, answer, body, buffer, parsed, queue, usage, recorded, records,
    attempts, got, reader, arrived

tridentVars == <<given, open, serial>>
streamVars == <<provider, client, postTool, attempt, state, events, done, consumer, made,
                sent, progress, chunks, lateness, blocks, answer, body, buffer, parsed, queue,
                usage, recorded, records, attempts, got, reader, arrived>>
eachVars == <<subject, vars, tridentVars, streamVars>>

FileTools == {"read_file", "edit_file", "bash"}
Files == {"f", "g"}
OpOfTool(t) ==
    IF t = "read_file" THEN "read" ELSE IF t = "edit_file" THEN "write" ELSE "none"
PathOfInput(t, input) == IF t = "bash" THEN "no path" ELSE input

\* The ids of MCTrident tell the tool.
ToolOfId(id) == CASE id % 3 = 0 -> "read_file" [] id % 3 = 1 -> "edit_file" [] OTHER -> "bash"

Rounds == INSTANCE MCTrident
    WITH Tool <- FileTools, Input <- Files,
         MaxMessages <- RoundMessages, MaxUses <- RoundUses, MaxIds <- RoundIds,
         messages <- given

Streams == INSTANCE MCStreams
    WITH subject <- provider, pending <- events, outcome <- made, late <- lateness, pc <- reader

EachInit ==
    /\ Init /\ Rounds!Init /\ Streams!EachInit
    /\ \/ subject = "stream"
       \/ subject \in {"loop", "trident"} /\ provider = "anthropic"

EachNext ==
    \/ subject = "loop" /\ Next /\ UNCHANGED <<subject, tridentVars, streamVars>>
    \/ subject = "trident" /\ Rounds!Next /\ UNCHANGED <<subject, vars, streamVars>>
    \/ subject = "stream" /\ Streams!EachNext /\ UNCHANGED <<subject, vars, tridentVars>>

EachSpec == EachInit /\ [][EachNext]_eachVars /\ WF_vars(subject = "loop" /\ TurnStep)

\* MCTrident: what the stages leave is what was there, in order, after the summary.
SurvivorsInOrder == Rounds!SurvivorsInOrder

\* MCTrident: the newest write of every file outlives stage 1.
NewestWritesSurvive == Rounds!NewestWritesSurvive

\* OpenAiStream: the events of an answer open and close its blocks in turn.
BlocksAreBracketed == Streams!BlocksAreBracketed

\* OpenAiStream: the calls that were sent come out whole.
ToolCallsSurvive == Streams!ToolCallsSurvive

\* AnthropicStream: however the body is cut, the consumer gets its events.
EventsSurviveChunking == Streams!EventsSurviveChunking
=============================================================================
