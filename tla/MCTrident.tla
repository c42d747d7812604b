----------------------------- MODULE MCTrident -----------------------------
\* Trident on every transcript the conversation loop writes up to a length,
\* compacted again and again.
EXTENDS Trident

CONSTANTS MaxMessages,    \* bound: length of the transcript
          MaxUses,        \* bound: tool uses per answer
          MaxIds,         \* bound: tool uses in all
          Again           \* numbers of messages to preserve

VARIABLES messages, open, serial

vars == <<messages, open, serial>>

Tools == {"read_file", "edit_file", "bash"}
Files == {"f", "g"}
LowerIsIdentity(t) == t
OpOfTool(t) ==
    IF t = "read_file" THEN "read" ELSE IF t = "edit_file" THEN "write" ELSE "none"
PathOfInput(t, input) == IF t = "bash" THEN "no path" ELSE input

\* An id tells its tool: ids are never used twice.
Code == [t \in Tools |-> CASE t = "read_file" -> 0 [] t = "edit_file" -> 1 [] OTHER -> 2]
Id(n, t) == 3 * n + Code[t]
ToolOfId(id) == CHOOSE t \in Tools : Code[t] = id % 3

Init == messages = << >> /\ open = << >> /\ serial = 1

User == \E tokens \in {1, 60} :
    /\ open = << >> /\ Len(messages) < MaxMessages
    /\ messages # << >> => ~HasToolUse(messages[Len(messages)])
    /\ messages' = Append(messages, UserText(tokens))
    /\ UNCHANGED <<open, serial>>

MayAnswer == messages # << >> /\ messages[Len(messages)].role \in {"user", "tool"}

AssistantText == \E tokens \in {1, 60} :
    /\ open = << >> /\ MayAnswer /\ Len(messages) < MaxMessages
    /\ messages' = Append(messages, AssistantMessage(<< >>, tokens))
    /\ UNCHANGED <<open, serial>>

AssistantUses == \E n \in 1..MaxUses : \E wanted \in [1..n -> Tools \X Files] :
    LET uses == [u \in 1..n |-> [id |-> Id(serial + u - 1, wanted[u][1]),
                                 tool |-> wanted[u][1], input |-> wanted[u][2]]] IN
    /\ open = << >> /\ MayAnswer /\ Len(messages) + n < MaxMessages
    /\ serial + n - 1 <= MaxIds
    /\ messages' = Append(messages, AssistantMessage(uses, 1))
    /\ open' = [u \in 1..n |-> uses[u].id]
    /\ serial' = serial + n

Answer ==
    /\ open # << >>
    /\ messages' = Append(messages, ToolResult(open[1], FALSE, 1))
    /\ open' = Tail(open) /\ UNCHANGED serial

CompactAgain == \E preserve \in Again :
    /\ open = << >>
    /\ messages' = TridentCompact(messages, preserve, 0).messages
    /\ messages' # messages
    /\ UNCHANGED <<open, serial>>

Next == User \/ AssistantText \/ AssistantUses \/ Answer \/ CompactAgain

Spec == Init /\ [][Next]_vars

----------------------------------------------------------------------------
WithSurvivor(survivors, message) ==
    IF message = Marker THEN survivors ELSE Append(survivors, message)

Matched(survivors, k, message) ==
    IF k < Len(survivors) /\ survivors[k + 1] = message THEN k + 1 ELSE k

\* What is not replaced by a marker stays as it was, in the order it was in; an
\* earlier summary is still the first message after the stages, so that
\* compact_session recognises it and merges it.
SurvivorsInOrder ==
    LET left == Stages(messages).messages
        survivors == FoldLeft(WithSurvivor, << >>, left)
    IN  /\ FoldLeft(LAMBDA k, m : Matched(survivors, k, m), 0, messages) = Len(survivors)
        /\ PrefixLen(left) = PrefixLen(messages)

\* Where no answer holds two tool uses, the newest write of every file is
\* still in the transcript after stage 1.
NewestWritesSurvive ==
    (\A i \in DOMAIN messages : Len(messages[i].uses) <= 1) =>
        LET survivors == Range(Supersede(messages).messages) IN
        \A i \in DOMAIN messages : \A path \in Writes(messages[i]) :
            (\A j \in (i + 1)..Len(messages) : path \notin Writes(messages[j]))
                => messages[i] \in survivors

----------------------------------------------------------------------------
(* What the comments and the messages say, which the code does not keep *)

\* compact.rs: a tool use and its result are not split.
KeepsPairs ==
    WellPaired(messages) =>
        \A preserve \in Again : WellPaired(TridentCompact(messages, preserve, 0).messages)

\* The note compact_session puts into the summary.
RecentMessagesAreVerbatim ==
    \A preserve \in Again :
        LET new == TridentCompact(messages, preserve, 0).messages IN
        PrefixLen(new) = 1 /\ Len(new) > 1 =>
            new[Len(new)] = messages[Len(messages)]

\* The report of /compact: nothing removed means that it was skipped.
SkippedIsUnchanged ==
    open = << >> =>
        \A preserve \in Again :
            LET new == TridentCompact(messages, preserve, 0) IN
            new.removed = 0 => new.messages = messages

=============================================================================
