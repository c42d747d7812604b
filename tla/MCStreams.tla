----------------------------- MODULE MCStreams ------------------------------
(***************************************************************************)
(* The streams of both kinds of provider: subject says which of them is    *)
(* read.                                                                   *)
(***************************************************************************)
EXTENDS OpenAiStream

CONSTANTS MaxFrames, MaxRetries    \* of AnthropicStream

VARIABLES
    subject,                              \* "openai" or "anthropic"
    answer, body, buffer, parsed, queue, usage, recorded, records, attempts, got,
    pc, arrived                           \* of AnthropicStream

messageVars == <<answer, body, buffer, parsed, queue, usage, recorded, records, attempts,
                 got, pc, arrived>>

Messages == INSTANCE AnthropicStream
    WITH frames <- answer, pending <- queue

EachInit ==
    /\ Init /\ Messages!Init
    /\ \/ subject = "openai"
       \/ subject = "anthropic" /\ client = "cli" /\ ~postTool

EachNext ==
    \/ subject = "openai" /\ Next /\ UNCHANGED <<subject, messageVars>>
    \/ subject = "anthropic" /\ Messages!Next /\ UNCHANGED <<subject, vars>>

\* AnthropicStream: however the body is cut, the consumer gets its events.
EventsSurviveChunking == Messages!EventsSurviveChunking
=============================================================================
