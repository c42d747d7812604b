--------------------------- MODULE AnthropicStream ---------------------------
(***************************************************************************)
(* The client of api/src/providers/anthropic.rs: send_with_retry, and the  *)
(* MessageStream it ends with, which cuts the body of the answer into      *)
(* frames with the SseParser of api/src/sse.rs and reports the usage to    *)
(* the prompt cache.  The network hands the body over in chunks of any     *)
(* size and may end it or break it anywhere.                               *)
(*                                                                         *)
(* The body is a sequence of pieces: of each frame the line that names the *)
(* event and two halves of its data, and the line ends.                    *)
(***************************************************************************)
EXTENDS Sequences, Naturals, SequencesExt

CONSTANTS MaxFrames,    \* bound: frames of an answer
          MaxRetries    \* max_retries of the policy

(* "delta" carries the usage, "stop" is the last event, "ping" is no event, *)
(* the data of "bad" is not JSON.                                           *)
Frame == {"text", "delta", "stop", "ping", "bad"}
LineEnd == {"LF", "CRLF"}

VARIABLES
    frames,     \* the frames of the answer
    body,       \* what of them is still to come
    buffer,     \* SseParser::buffer
    parsed,     \* events of the chunk that is being parsed
    pending,    \* MessageStream::pending
    usage,      \* latest_usage is set
    recorded,   \* usage_recorded
    records,    \* times PromptCache::record_usage was called
    attempts,   \* requests sent
    got,        \* events handed to the consumer
    pc          \* "idle", "send", "sleep", "next", "parse", "finish", "ended", "failed"

\* History: the pieces that have come.
VARIABLE arrived

streamVars == <<body, buffer, parsed, pending, usage, recorded, records, got, arrived>>
vars == <<frames, streamVars, attempts, pc>>

Piece == Frame \X (1..3) \cup {<<c, 0>> : c \in {"LF", "CR"}}
Lf == <<"LF", 0>>
Cr == <<"CR", 0>>
Blank(end) == IF end = "LF" THEN <<Lf, Lf>> ELSE <<Cr, Lf, Cr, Lf>>
Data(f) == <<<<f, 1>>, <<f, 2>>, <<f, 3>>>>

\* The text of an answer: of each frame the data and a blank line.  The end of
\* the last frame may be missing.
Text(fs, end, closed) ==
    LET unit == [k \in 1..Len(fs) |-> Data(fs[k]) \o Blank(end)]
        width == 3 + Len(Blank(end))
        missing == IF closed \/ fs = <<>> THEN 0 ELSE Len(Blank(end))
    IN  [p \in 1..(Len(fs) * width - missing) |->
            unit[((p - 1) \div width) + 1][((p - 1) % width) + 1]]

Init ==
    /\ frames = <<>> /\ body = <<>> /\ buffer = <<>> /\ parsed = <<>>
    /\ pending = <<>> /\ usage = FALSE /\ recorded = FALSE /\ records = 0
    /\ attempts = 0 /\ got = <<>> /\ pc = "idle" /\ arrived = <<>>

TypeOK ==
    /\ frames \in BoundedSeq(Frame, MaxFrames) /\ {body, buffer, arrived} \subseteq Seq(Piece)
    /\ {parsed, pending, got} \subseteq BoundedSeq(Frame \ {"ping", "bad"}, MaxFrames)
    /\ {usage, recorded} \subseteq BOOLEAN /\ records \in 0..1 /\ attempts \in 0..(MaxRetries + 1)
    /\ pc \in {"idle", "send", "sleep", "next", "parse", "finish", "ended", "failed"}

----------------------------------------------------------------------------
(* send_with_retry                                                          *)

BeginRequest ==
    /\ pc = "idle" /\ pc' = "send"
    /\ UNCHANGED <<frames, streamVars, attempts>>

\* A status worth a retry, or no connection: the attempts are counted first.
SendFails ==
    /\ pc = "send" /\ attempts' = attempts + 1
    /\ \/ pc' = IF attempts' > MaxRetries THEN "failed" ELSE "sleep"
       \/ pc' = "failed"
    /\ UNCHANGED <<frames, streamVars>>

Backoff == pc = "sleep" /\ pc' = "send" /\ UNCHANGED <<frames, streamVars, attempts>>

SendSucceeds ==
    /\ pc = "send" /\ attempts' = attempts + 1 /\ pc' = "next"
    /\ frames' \in BoundedSeq(Frame, MaxFrames)
    /\ \E end \in LineEnd, closed \in BOOLEAN : body' = Text(frames', end, closed)
    /\ UNCHANGED <<buffer, parsed, pending, usage, recorded, records, got, arrived>>

----------------------------------------------------------------------------
(* SseParser                                                                *)

Separators(b) == {s \in (1..Len(b)) \X {2, 4} :
    /\ s[1] + s[2] - 1 <= Len(b)
    /\ SubSeq(b, s[1], s[1] + s[2] - 1) = Blank(IF s[2] = 2 THEN "LF" ELSE "CRLF")}

\* The first blank line with bare line feeds, or else the first one with both.
FirstSeparator(b) ==
    CHOOSE s \in Separators(b) : \A t \in Separators(b) :
        s[2] < t[2] \/ (s[2] = t[2] /\ s[1] <= t[1])

\* The line ends behind a frame: none comes before one.
Trim(frame) ==
    SubSeq(frame, 1, Max({0} \cup {i \in 1..Len(frame) : frame[i] \notin {Lf, Cr}}))

\* parse_frame: an event, "none", or "error".  A name without data is nothing.
Parse(frame) ==
    LET lines == Trim(frame) IN
    IF Len(lines) <= 1 \/ lines[1][1] = "ping" THEN "none"
    ELSE IF lines # Data(lines[1][1]) \/ lines[1][1] = "bad" THEN "error"
    ELSE lines[1][1]

EventOf(frame) == IF Parse(frame) = "none" THEN <<>> ELSE <<Parse(frame)>>

----------------------------------------------------------------------------
(* MessageStream::next_event                                                *)

\* observe_event, with a prompt cache: the first stop settles whether it is told.
Observe(event) ==
    /\ usage' = (usage \/ event = "delta")
    /\ recorded' = (recorded \/ event = "stop")
    /\ records' = IF event = "stop" /\ ~recorded /\ usage THEN records + 1 ELSE records

NextPending ==
    /\ pc = "next" /\ pending # <<>>
    /\ got' = Append(got, Head(pending)) /\ pending' = Tail(pending)
    /\ Observe(Head(pending))
    /\ UNCHANGED <<frames, body, buffer, parsed, attempts, pc, arrived>>

ReceiveChunk ==
    /\ pc = "next" /\ pending = <<>>
    /\ \E n \in 1..Len(body) :
          /\ buffer' = buffer \o SubSeq(body, 1, n) /\ arrived' = arrived \o SubSeq(body, 1, n)
          /\ body' = SubSeq(body, n + 1, Len(body))
    /\ pc' = "parse"
    /\ UNCHANGED <<frames, parsed, pending, usage, recorded, records, attempts, got>>

LinkBreaks ==
    /\ pc = "next" /\ pending = <<>> /\ body # <<>> /\ pc' = "failed"
    /\ UNCHANGED <<frames, streamVars, attempts>>

\* The server closes the connection, whether it has sent everything or not.
BodyEnds ==
    /\ pc = "next" /\ pending = <<>> /\ pc' = "finish"
    /\ UNCHANGED <<frames, streamVars, attempts>>

\* Variant: one frame of each chunk.
TakeFrame_One ==
    /\ pc = "parse" /\ Separators(buffer) # {}
    /\ LET s == FirstSeparator(buffer)
           frame == SubSeq(buffer, 1, s[1] - 1) IN
       /\ buffer' = SubSeq(buffer, s[1] + s[2], Len(buffer))
       /\ IF Parse(frame) = "error"
          THEN pc' = "failed" /\ parsed' = <<>> /\ UNCHANGED pending
          ELSE pc' = "next" /\ pending' = parsed \o EventOf(frame) /\ parsed' = <<>>
    /\ UNCHANGED <<frames, body, usage, recorded, records, attempts, got, arrived>>

\* push: the loop over the frames of the buffer.  An error drops the events of
\* the same chunk that were parsed before it.
TakeFrame ==
    /\ pc = "parse" /\ Separators(buffer) # {}
    /\ LET s == FirstSeparator(buffer)
           frame == SubSeq(buffer, 1, s[1] - 1) IN
       /\ buffer' = SubSeq(buffer, s[1] + s[2], Len(buffer))
       /\ IF Parse(frame) = "error" THEN pc' = "failed" /\ parsed' = <<>>
          ELSE parsed' = parsed \o EventOf(frame) /\ UNCHANGED pc
    /\ UNCHANGED <<frames, body, pending, usage, recorded, records, attempts, got, arrived>>

ChunkParsed ==
    /\ pc = "parse" /\ Separators(buffer) = {}
    /\ pending' = parsed /\ parsed' = <<>> /\ pc' = "next"
    /\ UNCHANGED <<frames, body, buffer, usage, recorded, records, attempts, got, arrived>>

\* finish: what is left is a frame without its blank line.  Its event is handed
\* out without being observed.
Finish ==
    /\ pc = "finish"
    /\ buffer' = <<>>
    /\ IF Parse(buffer) = "error" THEN pc' = "failed" /\ UNCHANGED got
       ELSE pc' = "ended" /\ got' = got \o EventOf(buffer)
    /\ UNCHANGED <<frames, body, parsed, pending, usage, recorded, records, attempts, arrived>>

Send == BeginRequest \/ SendFails \/ Backoff \/ SendSucceeds
Read == NextPending \/ ReceiveChunk \/ LinkBreaks \/ BodyEnds
Decode == TakeFrame \/ ChunkParsed \/ Finish
Next == Send \/ Read \/ Decode
Spec == Init /\ [][Next]_vars

----------------------------------------------------------------------------
\* Read off the answer itself: the frames whose data has come as a whole, how
\* many of them are closed by a blank line, and their events.
WholeFrames == Cardinality({i \in 1..Len(arrived) : arrived[i][2] = 3})
ClosedFrames == Cardinality({i \in 1..Len(arrived) : arrived[i] = Lf}) \div 2

\* The frame k is the event of this number, if it is no ping.
Number(fs, k) == Cardinality({j \in 1..k : fs[j] # "ping"})

EventsOf(fs, n) ==
    [e \in 1..Number(fs, n) |->
        fs[CHOOSE k \in 1..Len(fs) : fs[k] # "ping" /\ Number(fs, k) = e]]

Events == EventsOf(frames, WholeFrames)

\* However the network cuts the body into chunks, the consumer gets the events
\* of the answer in order, and all that have come when it is told of the end;
\* and the prompt cache is told of the usage of an answer once, when a frame that
\* carries it comes before the first of the closed stops, and else never.
EventsSurviveChunking ==
    /\ IsPrefix(got, Events)
    /\ records <= 1
    /\ pc = "ended" =>
          /\ got = Events
          /\ records = 1 <=> \E i, j \in 1..ClosedFrames :
                /\ i < j /\ frames[i] = "delta" /\ frames[j] = "stop"
                /\ \A k \in 1..(j - 1) : frames[k] # "stop"
=============================================================================
