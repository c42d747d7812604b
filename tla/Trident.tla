------------------------------ MODULE Trident ------------------------------
(***************************************************************************)
(* trident_compact_session of runtime/src/trident.rs: three stages that    *)
(* drop, collapse and cluster messages, then compact_session.  Lengths are *)
(* counted in estimated tokens instead of characters.                      *)
(*                                                                         *)
(* Only tool uses name a path: no built-in tool's result has a top-level   *)
(* "path" or a first line "path: ".                                        *)
(***************************************************************************)
EXTENDS Compaction, SequencesExt

CONSTANTS OpOf(_),          \* tool -> "read", "write" (write or edit) or "none"
          PathOf(_, _),     \* path named by the input of a tool, or NoPath
          NoPath,
          ToolOf(_),        \* tool_name kept in the result of a tool use id
          ChattyTokens,     \* the 200 characters of is_chatty_message
          CollapseThreshold,
          ClusterMinSize

ASSUME TridentAssumption ==
    /\ \A t \in Tool : OpOf(t) \in {"read", "write", "none"}
    /\ ChattyTokens \in Nat
    /\ CollapseThreshold \in Nat \ {0} /\ ClusterMinSize \in Nat \ {0}

\* A message that stands for others, short as they mostly are; the summary of a
\* compaction is another kind.
Marker == SystemText(FALSE, 1)

\* Some positions of a transcript, in order: the k-th is the one with k up to it.
InOrder(messages, positions) ==
    LET there == positions \cap DOMAIN messages IN
    [k \in 1..Cardinality(there) |->
        CHOOSE i \in there : Cardinality({j \in there : j <= i}) = k]

\* The messages at some positions, in order.
Pick(messages, positions) ==
    LET order == InOrder(messages, positions)
    IN  [k \in 1..Len(order) |-> messages[order[k]]]

\* The same, with a marker at some of them.
PickMarked(messages, positions, marked) ==
    Pick([i \in DOMAIN messages |-> IF i \in marked THEN Marker ELSE messages[i]],
         positions)

----------------------------------------------------------------------------
(* Stage 1: supersede *)

\* extract_file_operation
FileUses(message) ==
    {u \in Range(message.uses) : OpOf(u.tool) # "none" /\ PathOf(u.tool, u.input) # NoPath}

Paths(message) == {PathOf(u.tool, u.input) : u \in FileUses(message)}
Writes(message) ==
    {PathOf(u.tool, u.input) : u \in {u \in FileUses(message) : OpOf(u.tool) = "write"}}

\* Variant: the last write counts as older than itself.
Obsolete_UpToTheLastWrite(messages) ==
    {i \in DOMAIN messages :
        \E path \in Paths(messages[i]) :
            \E j \in i..Len(messages) : path \in Writes(messages[j])}

\* Positions of messages with an operation on a file that is written later.
Obsolete(messages) ==
    {i \in DOMAIN messages :
        \E path \in Paths(messages[i]) :
            \E j \in (i + 1)..Len(messages) : path \in Writes(messages[j])}

Supersede(messages) ==
    LET obsolete == Obsolete(messages) IN
    [messages |-> Pick(messages, DOMAIN messages \ obsolete),
     superseded |-> Cardinality(obsolete)]

----------------------------------------------------------------------------
(* Stage 2: collapse *)

\* is_chatty_message; the preamble alone makes a summary longer than that.
IsChatty(message) ==
    /\ ~HasToolUse(message) /\ ~StartsWithResult(message)
    /\ ~message.summary /\ message.tokens < ChattyTokens

\* Positions in an unbroken run of at least CollapseThreshold chatty messages.
InChain(messages) ==
    {i \in DOMAIN messages :
        \E first \in 1..i :
            LET last == first + CollapseThreshold - 1 IN
            /\ last <= Len(messages)
            /\ \A j \in first..(IF last > i THEN last ELSE i) : IsChatty(messages[j])}

\* Variant: the chat between the chains is written out last.
Collapse_FlushesLate(messages) ==
    LET chained == InChain(messages)
        heads == {i \in chained : i - 1 \notin chained}
        chat == {i \in DOMAIN messages \ chained : IsChatty(messages[i])}
        rest == DOMAIN messages \ (chained \cup chat)
    IN  [messages |-> PickMarked(messages, rest \cup heads, heads) \o Pick(messages, chat),
         chains |-> Cardinality(heads),
         collapsed |-> Cardinality(chained)]

Collapse(messages) ==
    LET chained == InChain(messages)
        heads == {i \in chained : i - 1 \notin chained}
    IN  [messages |-> PickMarked(messages, (DOMAIN messages \ chained) \cup heads, heads),
         chains |-> Cardinality(heads),
         collapsed |-> Cardinality(chained)]

----------------------------------------------------------------------------
(* Stage 3: cluster *)

ToolNames(message) ==
    {u.tool : u \in Range(message.uses)} \cup
    (IF StartsWithResult(message) THEN {ToolOf(message.result)} ELSE {})

\* Shared out of all, as a numerator and a denominator.
Overlap(S, T) ==
    IF S = {} /\ T = {} THEN <<1, 1>> ELSE <<Cardinality(S \cap T), Cardinality(S \cup T)>>

Ratio(m, n) ==
    IF m = 0 /\ n = 0 THEN <<1, 1>>
    ELSE IF m < n THEN <<m, n>> ELSE <<n, m>>

\* compute_similarity >= 0.6, with 0.4 tools + 0.4 files + 0.2 length cleared
\* of its fractions.
Similar(a, b) ==
    LET tools == Overlap(ToolNames(a), ToolNames(b))
        files == Overlap(Paths(a), Paths(b))
        length == Ratio(a.tokens, b.tokens)
    IN  /\ a.role = b.role
        /\ 2 * tools[1] * files[2] * length[2] + 2 * files[1] * tools[2] * length[2]
             + length[1] * tools[2] * files[2]
           >= 3 * tools[2] * files[2] * length[2]

\* From the front, a message not yet in a cluster gathers itself and the later
\* ones like it that are not in one either, if they are enough.
Clusters(messages) ==
    LET candidates == {i \in DOMAIN messages : messages[i].role # "system"}
        Gather(clusters, i) ==
            LET members == {j \in candidates \ UNION clusters :
                                \/ j = i
                                \/ j > i /\ Similar(messages[i], messages[j])}
            IN  IF i \in members /\ Cardinality(members) >= ClusterMinSize
                THEN clusters \cup {members} ELSE clusters
    IN  FoldLeft(Gather, {}, InOrder(messages, candidates))

Cluster(messages) ==
    LET clusters == Clusters(messages)
        heads == {CHOOSE i \in c : \A j \in c : i <= j : c \in clusters}
        clustered == UNION clusters
    IN  [messages |-> PickMarked(messages, (DOMAIN messages \ clustered) \cup heads, heads),
         clusters |-> Cardinality(clusters),
         clustered |-> Cardinality(clustered)]

----------------------------------------------------------------------------
\* The three stages and their statistics.
Stages(messages) ==
    LET first == Supersede(messages)
        second == Collapse(first.messages)
        third == Cluster(second.messages)
    IN  [messages |-> third.messages, superseded |-> first.superseded,
         chains |-> second.chains, collapsed |-> second.collapsed,
         clusters |-> third.clusters, clustered |-> third.clustered]

\* trident_compact_session
TridentCompact(messages, preserve, maxTokens) ==
    CompactSession(Stages(messages).messages, preserve, maxTokens)

=============================================================================
