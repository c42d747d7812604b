---------------------------- MODULE OpenAiStream ----------------------------
(***************************************************************************)
(* One streamed answer of an OpenAI-compatible provider: the delta chunks  *)
(* that StreamState (api/src/providers/openai_compat.rs) turns into        *)
(* content block events, and the two clients that put the events together  *)
(* again: consume_stream of the command line program ("cli") and           *)
(* stream_with_provider of the subagents ("agent").                        *)
(*                                                                         *)
(* A tool call is its index in the provider's message; its arguments are   *)
(* counted in fragments, the n-th of a call being [call |-> c, n |-> n].   *)
(* Ids, names, texts and reasoning are not told apart.                     *)
(***************************************************************************)
EXTENDS Naturals, Sequences, FiniteSets, SequencesExt, Functions

CONSTANTS Client,        \* subset of {"cli", "agent"}
          Call,          \* indexes of tool calls
          ChainLength,   \* a subagent's model and its fallbacks
          MaxChunks,     \* bound: chunks of one answer
          MaxFragments   \* bound: fragments of one call's arguments

VARIABLES
    client,    \* who asked
    postTool,  \* the request ends with a tool result
    attempt,   \* requests sent, this one included
    state,     \* StreamState
    pending,   \* MessageStream.pending
    done,      \* MessageStream.done
    consumer,  \* the client's locals
    outcome,   \* "none" while it streams, "message", "again" (asked without
               \* streaming) or "error"
    sent,      \* history: call -> what the provider has sent of it
    progress,  \* history: what the provider has come to in this answer
    chunks,    \* history: chunks of this answer
    late,      \* history: how reasoning came out of turn, within Late
    blocks     \* history: block index -> whether its block is open

streamVars == <<state, pending, done, consumer, sent, chunks, progress, late, blocks>>
vars == <<client, postTool, attempt, outcome, streamVars>>

\* Reasoning after text or a tool call, and reasoning that began after a call
\* was named.
Late == {"resumed", "after_calls"}

ToolCallDelta == [index : Call, name : BOOLEAN, fragments : 0..1]

\* The deltas of one chunk.  The calls come one or several in a chunk, in any
\* order; a name comes with the first delta of a call or later.
Chunk == [thinking : BOOLEAN, text : BOOLEAN,
          tools : {<< >>} \cup {<<d>> : d \in ToolCallDelta}
                    \cup {<<d, e>> : d, e \in ToolCallDelta},
          finish : {"none", "tool_calls", "stop"}]

----------------------------------------------------------------------------
(* StreamState: operators on [st, events], the state and the events so far *)

NewCall == [named |-> FALSE, arguments |-> 0, emitted |-> 0,
            started |-> FALSE, stopped |-> FALSE]

NewState == [messageStarted |-> FALSE, thinkingStarted |-> FALSE, thinkingFinished |-> FALSE,
             textStarted |-> FALSE, textFinished |-> FALSE, finished |-> FALSE,
             calls |-> [c \in Call |-> NewCall]]

Thinking == [kind |-> "thinking", call |-> 0]
Text == [kind |-> "text", call |-> 0]
ToolUse(c) == [kind |-> "tool", call |-> c]

Event(kind, index, block, part) ==
    [kind |-> kind, index |-> index, block |-> block, part |-> part]
Start(index, block) == Event("start", index, block, << >>)
Delta(index, block, part) == Event("delta", index, block, part)
Stop(index, block) == Event("stop", index, block, << >>)
MessageStart == Event("message_start", 0, Text, << >>)
MessageStop == Event("message_stop", 0, Text, << >>)

Emit(x, new, events) == [st |-> new, events |-> x.events \o events]

TextBlockIndex(st) == IF st.thinkingStarted THEN 1 ELSE 0
ToolIndexOffset(st) == IF st.thinkingStarted THEN 2 ELSE 1

CloseThinking(x) ==
    IF x.st.thinkingStarted /\ ~x.st.thinkingFinished
    THEN Emit(x, [x.st EXCEPT !.thinkingFinished = TRUE], <<Stop(0, Thinking)>>)
    ELSE x

StartMessage(x) ==
    IF x.st.messageStarted THEN x
    ELSE Emit(x, [x.st EXCEPT !.messageStarted = TRUE], <<MessageStart>>)

IngestThinking(x) ==
    Emit(x, [x.st EXCEPT !.thinkingStarted = TRUE],
         (IF x.st.thinkingStarted THEN << >> ELSE <<Start(0, Thinking)>>)
             \o <<Delta(0, Thinking, << >>)>>)

IngestText(x) ==
    LET y == CloseThinking(x)
        index == TextBlockIndex(y.st)
    IN  Emit(y, [y.st EXCEPT !.textStarted = TRUE],
             (IF y.st.textStarted THEN << >> ELSE <<Start(index, Text)>>)
                 \o <<Delta(index, Text, << >>)>>)

\* start_event and delta_event, for a call that is not started or has
\* arguments not emitted yet; without a name nothing is emitted.
BeginCall(x, c) ==
    LET call == x.st.calls[c] IN
    IF call.started \/ ~call.named THEN x
    ELSE Emit(x, [x.st EXCEPT !.calls[c].started = TRUE],
              <<Start(c + ToolIndexOffset(x.st), ToolUse(c))>>)

EmitArguments(x, c) ==
    LET call == x.st.calls[c] IN
    IF ~call.started \/ call.emitted >= call.arguments THEN x
    ELSE Emit(x, [x.st EXCEPT !.calls[c].emitted = call.arguments],
              <<Delta(c + ToolIndexOffset(x.st), ToolUse(c),
                      [k \in 1..(call.arguments - call.emitted) |->
                           [call |-> c, n |-> call.emitted + k]])>>)

\* Variant: the call is not marked as stopped.
StopCall_Unmarked(x, c) ==
    LET call == x.st.calls[c] IN
    IF ~call.started \/ call.stopped THEN x
    ELSE Emit(x, x.st, <<Stop(c + ToolIndexOffset(x.st), ToolUse(c))>>)

StopCall(x, c) ==
    LET call == x.st.calls[c] IN
    IF ~call.started \/ call.stopped THEN x
    ELSE Emit(x, [x.st EXCEPT !.calls[c].stopped = TRUE],
              <<Stop(c + ToolIndexOffset(x.st), ToolUse(c))>>)

\* ToolCallState::apply
Apply(call, delta) ==
    [call EXCEPT !.named = @ \/ delta.name, !.arguments = @ + delta.fragments]

IngestToolCall(x, delta, finish) ==
    LET c == delta.index
        y == CloseThinking(x)
        z == [y EXCEPT !.st.calls[c] = Apply(@, delta)]
        emitted == EmitArguments(BeginCall(z, c), c)
    IN  IF finish = "tool_calls" THEN StopCall(emitted, c) ELSE emitted

\* A call that was named but not begun is begun before it is stopped.
FinishCall(x, c) ==
    LET begun == IF x.st.calls[c].started THEN x ELSE EmitArguments(BeginCall(x, c), c)
    IN  StopCall(begun, c)

\* The loops over the map of the calls, in the order of their indexes.
StopCalls(x) ==
    MapThenFoldSet(LAMBDA c, y : StopCall(y, c), x, LAMBDA c : c, LAMBDA S : Max(S), Call)

FinishCalls(x) ==
    MapThenFoldSet(LAMBDA c, y : FinishCall(y, c), x, LAMBDA c : c, LAMBDA S : Max(S), Call)

IngestChunk(st, chunk) ==
    LET start == StartMessage([st |-> st, events |-> << >>])
        thought == IF chunk.thinking THEN IngestThinking(start) ELSE start
        told == IF chunk.text THEN IngestText(thought) ELSE thought
        called == FoldLeft(LAMBDA x, d : IngestToolCall(x, d, chunk.finish), told, chunk.tools)
    IN  IF chunk.finish = "tool_calls"
        THEN StopCalls(called) ELSE called

\* An answer of which a chunk has come is ended, with a stop reason or without.
Ends(st) == st.messageStarted

FinishStream(st) ==
    LET thought == CloseThinking([st |-> [st EXCEPT !.finished = TRUE], events |-> << >>])
        told == IF ~st.textStarted \/ st.textFinished THEN thought
                ELSE Emit(thought, [thought.st EXCEPT !.textFinished = TRUE],
                          <<Stop(TextBlockIndex(st), Text)>>)
        called == FinishCalls(told)
    IN  IF Ends(st) THEN Emit(called, called.st, <<MessageStop>>) ELSE called

----------------------------------------------------------------------------
(* The clients *)

\* What is pending is kept by block index in stream_with_provider; in
\* consume_stream there is one place for it.
Slot_One(index) == 0

Slot(index) == IF client = "cli" THEN 0 ELSE index

NoConsumer == [tools |-> << >>, thinking |-> {}, out |-> << >>, sawStop |-> FALSE]

Block(kind, call, input) == [kind |-> kind, call |-> call, input |-> input]

\* Text deltas become one block, as flush_text_block makes them.
WithText(out) ==
    IF out # << >> /\ Last(out).kind = "text" THEN out
    ELSE Append(out, Block("text", 0, << >>))

\* push_output_block: a thinking block is pushed at once by consume_stream,
\* which pushes it again when it stops.
ConsumeStart(c, e) ==
    CASE e.block.kind = "tool" ->
            [c EXCEPT !.tools = [s \in DOMAIN @ \cup {Slot(e.index)} |->
                IF s = Slot(e.index) THEN Block("tool", e.block.call, << >>) ELSE c.tools[s]]]
      [] e.block.kind = "thinking" ->
            [c EXCEPT !.thinking = @ \cup {Slot(e.index)},
                      !.out = IF client = "cli"
                              THEN Append(@, Block("thinking", 0, << >>)) ELSE @]
      [] OTHER -> c

ConsumeDelta(c, e) ==
    CASE e.block.kind = "text" -> [c EXCEPT !.out = WithText(@)]
      [] e.block.kind = "tool" /\ Slot(e.index) \in DOMAIN c.tools ->
            [c EXCEPT !.tools[Slot(e.index)].input = @ \o e.part]
      [] OTHER -> c

\* Whatever is pending in the place of the block that stops is complete.
ConsumeStop(c, e) ==
    LET slot == Slot(e.index)
        thought == IF slot \in c.thinking THEN <<Block("thinking", 0, << >>)>> ELSE << >>
        called == IF slot \in DOMAIN c.tools THEN <<c.tools[slot]>> ELSE << >>
    IN  [c EXCEPT !.thinking = @ \ {slot},
                  !.tools = Restrict(@, DOMAIN @ \ {slot}),
                  !.out = @ \o thought \o called]

Consume(c, e) ==
    CASE e.kind = "start" -> ConsumeStart(c, e)
      [] e.kind = "delta" -> ConsumeDelta(c, e)
      [] e.kind = "stop" -> ConsumeStop(c, e)
      [] e.kind = "message_stop" -> [c EXCEPT !.sawStop = TRUE]
      [] OTHER -> c

\* After the stream: text or a call makes up for a missing stop; nothing at all
\* is asked for again; build_assistant_message refuses an answer of no blocks.
OutcomeOf(c) ==
    IF ~c.sawStop /\ \A i \in DOMAIN c.out : c.out[i].kind = "thinking" THEN "again"
    ELSE IF c.out = << >> THEN "error" ELSE "message"

----------------------------------------------------------------------------
NothingSent == [named |-> FALSE, fragments |-> 0]

NewStream ==
    /\ state' = NewState /\ pending' = << >> /\ done' = FALSE /\ consumer' = NoConsumer
    /\ sent' = [c \in Call |-> NothingSent] /\ chunks' = 0 /\ progress' = "reasoning" /\ late' = {}
    /\ blocks' = << >>

Init ==
    /\ client \in Client /\ postTool \in BOOLEAN /\ attempt = 1 /\ outcome = "none"
    /\ state = NewState /\ pending = << >> /\ done = FALSE /\ consumer = NoConsumer
    /\ sent = [c \in Call |-> NothingSent]
    /\ chunks = 0 /\ progress = "reasoning" /\ late = {} /\ blocks = << >>

Waits == outcome = "none" /\ pending = << >> /\ ~done

\* What a provider sends: a call is named once, and after a finish reason
\* nothing is said any more.
MaySend(chunk) ==
    /\ \A i \in DOMAIN chunk.tools : LET d == chunk.tools[i] IN
          /\ d.name => ~sent[d.index].named
          /\ sent[d.index].fragments + d.fragments <= MaxFragments
          /\ \A j \in 1..(i - 1) : chunk.tools[j].index # d.index
    /\ progress = "finished" => ~chunk.thinking /\ ~chunk.text /\ chunk.tools = << >>

SentWith(chunk) ==
    [c \in Call |->
        LET mine == {i \in DOMAIN chunk.tools : chunk.tools[i].index = c} IN
        [named |-> sent[c].named \/ \E i \in mine : chunk.tools[i].name,
         fragments |-> sent[c].fragments
                          + Cardinality({i \in mine : chunk.tools[i].fragments = 1})]]

LateWith(chunk) ==
    late \cup {l \in Late :
        /\ chunk.thinking
        /\ \/ l = "resumed" /\ progress = "content"
           \/ l = "after_calls" /\ ~state.thinkingStarted
                                /\ \E c \in Call : sent[c].named}

\* next_event with nothing pending: a chunk comes.
ReceiveChunk ==
    /\ Waits /\ chunks < MaxChunks
    /\ \E chunk \in Chunk :
          /\ MaySend(chunk)
          /\ LET ingested == IngestChunk(state, chunk) IN
             state' = ingested.st /\ pending' = ingested.events
          /\ sent' = SentWith(chunk) /\ late' = LateWith(chunk)
          /\ progress' = IF progress = "finished" \/ chunk.finish # "none" THEN "finished"
                         ELSE IF chunk.text \/ chunk.tools # << >> THEN "content"
                         ELSE progress
    /\ chunks' = chunks + 1
    /\ UNCHANGED <<client, postTool, attempt, outcome, done, consumer, blocks>>

\* The body ends, with a finish reason before or without.
BodyEnds ==
    /\ Waits /\ done' = TRUE
    /\ LET finished == FinishStream(state) IN
       state' = finished.st /\ pending' = finished.events
    /\ UNCHANGED <<client, postTool, attempt, outcome, consumer, sent, chunks, progress,
                   late, blocks>>

\* The request or the connection fails.  The subagent tries its next model when
\* the error is retryable.
BodyBreaks ==
    /\ Waits
    /\ \/ outcome' = "error" /\ UNCHANGED <<attempt, streamVars>>
       \/ /\ client = "agent" /\ attempt < ChainLength
          /\ attempt' = attempt + 1 /\ NewStream /\ UNCHANGED outcome
    /\ UNCHANGED <<client, postTool>>

\* consume_stream drops a stream whose first event does not come in time after
\* a tool result, and sends the request again, once.
Stalls ==
    /\ Waits /\ client = "cli" /\ postTool /\ attempt = 1 /\ ~state.messageStarted
    /\ attempt' = 2 /\ NewStream
    /\ UNCHANGED <<client, postTool, outcome>>

NextEvent ==
    /\ pending # << >>
    /\ LET e == Head(pending) IN
       /\ consumer' = Consume(consumer, e)
       /\ blocks' = IF e.kind \in {"start", "stop"}
                    THEN [i \in DOMAIN blocks \cup {e.index} |->
                             IF i = e.index THEN e.kind = "start" ELSE blocks[i]]
                    ELSE blocks
    /\ pending' = Tail(pending)
    /\ UNCHANGED <<client, postTool, attempt, outcome, state, done, sent, chunks, progress, late>>

StreamEnds ==
    /\ outcome = "none" /\ pending = << >> /\ done
    /\ outcome' = OutcomeOf(consumer)
    /\ UNCHANGED <<client, postTool, attempt, streamVars>>

Next == ReceiveChunk \/ BodyEnds \/ BodyBreaks \/ Stalls \/ NextEvent \/ StreamEnds

Spec == Init /\ [][Next]_vars

----------------------------------------------------------------------------
(* Properties *)

\* The type invariant.
TypeOK ==
    /\ client \in Client /\ postTool \in BOOLEAN
    /\ attempt \in 1..(IF client = "cli" THEN 2 ELSE ChainLength)
    /\ outcome \in {"none", "message", "again", "error"}
    /\ \A c \in Call :
          /\ state.calls[c] \in [named : BOOLEAN, arguments : 0..MaxFragments,
                                 emitted : 0..state.calls[c].arguments,
                                 started : BOOLEAN, stopped : BOOLEAN]
          /\ sent[c] \in [named : BOOLEAN, fragments : 0..MaxFragments]
    /\ done \in BOOLEAN /\ progress \in {"reasoning", "content", "finished"} /\ chunks \in 0..MaxChunks
    /\ late \subseteq Late

\* A block is started once, gets deltas while it is open and is stopped once
\* and before the message ends, whether a finish reason or the end of the body
\* stops it, as long as reasoning does not come after what it is about.
Fits(e) ==
    LET open == e.index \in DOMAIN blocks /\ blocks[e.index] IN
    CASE e.kind = "start" -> e.index \notin DOMAIN blocks
      [] e.kind \in {"delta", "stop"} -> open
      [] e.kind = "message_stop" -> \A index \in DOMAIN blocks : ~blocks[index]
      [] OTHER -> blocks = << >>

BlocksAreBracketed == late = {} /\ pending # << >> => Fits(Head(pending))

ArgumentsOf(c) == [n \in 1..sent[c].fragments |-> [call |-> c, n |-> n]]

Delivered(c) ==
    LET mine == {i \in DOMAIN consumer.out : consumer.out[i].kind = "tool"
                                               /\ consumer.out[i].call = c}
    IN  /\ Cardinality(mine) = (IF sent[c].named THEN 1 ELSE 0)
        /\ \A i \in mine : consumer.out[i].input = ArgumentsOf(c)

\* The assistant message holds each call the provider named, once, with the
\* arguments sent for it and no other, whatever chunks they came in and however
\* the calls took turns: for a subagent always, for the command line program
\* when there is one call.  Reasoning that begins after a call moves the block
\* indexes and is excepted.
ToolCallsSurvive ==
    outcome = "message" /\ "after_calls" \notin late
        /\ (client = "cli" => Cardinality({c \in Call : sent[c].named}) <= 1)
    => \A c \in Call : Delivered(c)

----------------------------------------------------------------------------
(* What a test says of the subagents' client, which the other does not keep *)

\* pending_tools_preserve_multiple_streaming_tool_calls_by_index
ParallelCallsSurvive ==
    outcome = "message" /\ late = {} => \A c \in Call : Delivered(c)

=============================================================================
