----------------------------- MODULE Compaction -----------------------------
(***************************************************************************)
(* compact_session of runtime/src/compact.rs as an operator on message     *)
(* sequences.  TLA+ sequences start at 1, the program's vectors at 0: a    *)
(* cut k keeps the messages k+1 .. Len(messages).  The text of the summary *)
(* is abstracted to the fact that one System continuation message stands   *)
(* in front of what is preserved.                                          *)
(***************************************************************************)
EXTENDS Messages, Folds

\* compacted_summary_prefix_len: 1 when an earlier compaction left its summary.
PrefixLen(messages) ==
    IF messages # << >> /\ messages[1].role = "system" /\ messages[1].summary
    THEN 1 ELSE 0

\* estimate_message_tokens summed over a stretch of the transcript.
EstimateTokens(messages, from) ==
    MapThenFoldSet(+, 0, LAMBDA i : messages[i].tokens,
                   LAMBDA S : CHOOSE i \in S : TRUE, from..Len(messages))

\* The summary an earlier compaction left is not counted again.
ShouldCompact(messages, preserve, maxTokens) ==
    LET prefix == PrefixLen(messages) IN
    /\ Len(messages) - prefix > preserve
    /\ EstimateTokens(messages, prefix + 1) >= maxTokens

\* saturating_sub, with 0 meaning "preserve nothing".
RawKeepFrom(messages, preserve) ==
    IF preserve >= Len(messages) THEN 0 ELSE Len(messages) - preserve

\* The boundary walk stops at k: at the summary, at the end, or where the
\* first preserved message is not a tool result.
SafeCut(messages, k) ==
    \/ k <= PrefixLen(messages)
    \/ k >= Len(messages)
    \/ ~StartsWithResult(messages[k + 1])

\* Variant: no walk, the cut is made where the arithmetic puts it.
KeepFrom_NoWalk(messages, preserve) == RawKeepFrom(messages, preserve)

\* The walk goes back one message at a time from the raw boundary, so it ends
\* at the nearest safe cut.  (The code leaves the loop early when the message
\* before the boundary holds a ToolUse block: that message is an assistant
\* message, which is a safe cut.)
KeepFrom(messages, preserve) ==
    LET raw == RawKeepFrom(messages, preserve) IN
    CHOOSE k \in 0..raw :
        /\ SafeCut(messages, k)
        /\ \A j \in (k + 1)..raw : ~SafeCut(messages, j)

\* Variant: the first preserved message is lost.
CompactSession_CutsOneMore(messages, preserve, maxTokens) ==
    IF ~ShouldCompact(messages, preserve, maxTokens)
    THEN [messages |-> messages, removed |-> 0]
    ELSE LET keep == KeepFrom(messages, preserve) IN
         [messages |-> <<SystemText(TRUE, 1)>> \o SubSeq(messages, keep + 2, Len(messages)),
          removed |-> keep - PrefixLen(messages)]

\* CompactionResult: the new messages and removed_message_count.
CompactSession(messages, preserve, maxTokens) ==
    IF ~ShouldCompact(messages, preserve, maxTokens)
    THEN [messages |-> messages, removed |-> 0]
    ELSE LET keep == KeepFrom(messages, preserve) IN
         [messages |-> <<SystemText(TRUE, 1)>> \o SubSeq(messages, keep + 1, Len(messages)),
          removed |-> keep - PrefixLen(messages)]

=============================================================================
