------------------------- MODULE ConversationProofs -------------------------
(***************************************************************************)
(* What holds of run_turn for every policy, every hook configuration, any  *)
(* number of turns, iterations and parallel tool uses: what compact_session*)
(* does to any transcript, what a turn does, that the conversation         *)
(* implements the log of Transcript, how long its transcript gets, and of  *)
(* what MCConversationTools sets beside it: the hook run and the           *)
(* authorization of a call.                                                *)
(***************************************************************************)
EXTENDS MCConversationTools, TLAPS, WellFoundedInduction, SequenceTheorems, FiniteSetTheorems

(***************************************************************************)
(* I.  What compact_session does to any transcript, for any preserved tail *)
(***************************************************************************)

(***************************************************************************)
(* A nonempty set of naturals has a least element.                         *)
(***************************************************************************)
LEMMA LeastNatural ==
    ASSUME NEW T \in SUBSET Nat, T # {}
    PROVE  \E x \in T : \A y \in T : x <= y
<1> DEFINE Less == OpToRel(<, Nat)
<1>1. IsWellFoundedOn(Less, Nat)
  BY NatLessThanWellFounded
<1>2. \A y, x \in Nat : y < x => <<y, x>> \in Less
  BY DEF OpToRel
<1> HIDE DEF Less
<1>3. PICK x \in T : \A y \in T : ~ (<<y, x>> \in Less)
  BY <1>1, WFMin
<1>4. ASSUME NEW y \in T PROVE ~ (y < x)
  BY <1>2, <1>3, Zenon
<1>5. \A y \in T : x <= y
  BY <1>4
<1> QED BY <1>5

LEMMA AllNaturals ==
    ASSUME NEW S \in SUBSET Nat, 0 \in S, \A n \in S : n + 1 \in S
    PROVE  S = Nat
<1> SUFFICES ASSUME Nat \ S # {} PROVE FALSE
  OBVIOUS
<1>1. PICK x \in Nat \ S : \A y \in Nat \ S : x <= y
  BY LeastNatural
<1>2. x - 1 \in S
  BY <1>1
<1> QED BY <1>1, <1>2

(***************************************************************************)
(* The sum of the estimates is a number: the fold over the positions is a  *)
(* recursive function on their subsets, and there is one.                  *)
(***************************************************************************)
\* What is tried first of a set of positions, and how far the sum of their
\* estimates has come with each subset.
First(s) == CHOOSE i \in s : TRUE

Counted(g, msgs, s) == IF s = {} THEN 0 ELSE msgs[First(s)].tokens + g[s \ {First(s)}]

IsCount(g, msgs, S) == g = [s \in SUBSET S |-> Counted(g, msgs, s)]

LEMMA EstimateIsCount ==
    ASSUME NEW msgs, NEW from
    PROVE  LET S == from..Len(msgs)
           IN  EstimateTokens(msgs, from) = (CHOOSE g : IsCount(g, msgs, S))[S]
BY DEF EstimateTokens, MapThenFoldSet, IsCount, Counted, First

\* Without its first position a set is smaller by one.
LEMMA OneLess ==
    ASSUME NEW S, IsFiniteSet(S), NEW s \in SUBSET S
    PROVE  /\ IsFiniteSet(s) /\ Cardinality(s) \in Nat /\ Cardinality(s) <= Cardinality(S)
           /\ Cardinality(s) = 0 <=> s = {}
           /\ s # {} => /\ First(s) \in s /\ s \ {First(s)} \in SUBSET S
                        /\ Cardinality(s \ {First(s)}) = Cardinality(s) - 1
<1>1. IsFiniteSet(s) /\ Cardinality(s) \in Nat /\ Cardinality(s) <= Cardinality(S)
  BY FS_Subset, FS_CardinalityType
<1>2. Cardinality(s) = 0 <=> s = {}
  BY <1>1, FS_EmptySet
<1>3. ASSUME s # {} PROVE First(s) \in s
  BY <1>3 DEF First
<1>4. ASSUME s # {} PROVE Cardinality(s \ {First(s)}) = Cardinality(s) - 1
  BY <1>1, <1>3, <1>4, FS_RemoveElement
<1> QED
  BY <1>1, <1>2, <1>3, <1>4

\* The sets of at most n positions can be counted.
CountedUpTo(g, msgs, S, n) ==
    \A s \in SUBSET S : Cardinality(s) <= n => g[s] = Counted(g, msgs, s)

LEMMA OneMoreCounted ==
    ASSUME NEW S, IsFiniteSet(S), NEW msgs, NEW n \in Nat, NEW g, CountedUpTo(g, msgs, S, n)
    PROVE  \E h : CountedUpTo(h, msgs, S, n + 1)
<1> DEFINE h == [s \in SUBSET S |-> IF Cardinality(s) <= n THEN g[s] ELSE Counted(g, msgs, s)]
<1>1. \A s \in SUBSET S : h[s] = IF Cardinality(s) <= n THEN g[s] ELSE Counted(g, msgs, s)
  OBVIOUS
<1>2. \A s \in SUBSET S : h[s] = Counted(g, msgs, s)
  BY <1>1 DEF CountedUpTo
<1> HIDE DEF h
<1>3. ASSUME NEW s \in SUBSET S, Cardinality(s) <= n + 1, s # {}
      PROVE  h[s \ {First(s)}] = g[s \ {First(s)}]
  <2>1. s \ {First(s)} \in SUBSET S /\ Cardinality(s \ {First(s)}) <= n
    BY <1>3, OneLess
  <2> QED BY <1>1, <2>1
<1>4. CountedUpTo(h, msgs, S, n + 1)
  <2> SUFFICES ASSUME NEW s \in SUBSET S, Cardinality(s) <= n + 1
               PROVE  h[s] = Counted(h, msgs, s)
    BY DEF CountedUpTo
  <2>1. h[s] = Counted(g, msgs, s)
    BY <1>2
  <2>2. s # {} => h[s \ {First(s)}] = g[s \ {First(s)}]
    BY <1>3
  <2> QED BY <2>1, <2>2 DEF Counted
<1> QED BY <1>4

LEMMA CountExists ==
    ASSUME NEW S, IsFiniteSet(S), NEW msgs
    PROVE  \E g : IsCount(g, msgs, S)
<1> DEFINE T == {n \in Nat : \E g : CountedUpTo(g, msgs, S, n)}
<1>1. 0 \in T
  <2> DEFINE g == [s \in SUBSET S |-> 0]
  <2>1. ASSUME NEW s \in SUBSET S, Cardinality(s) <= 0 PROVE s = {}
    <3>1. Cardinality(s) \in Nat /\ (Cardinality(s) = 0 <=> s = {})
      BY OneLess
    <3> QED BY <2>1, <3>1
  <2>2. \A s \in SUBSET S : g[s] = 0
    OBVIOUS
  <2> HIDE DEF g
  <2>3. CountedUpTo(g, msgs, S, 0)
    BY <2>1, <2>2 DEF CountedUpTo, Counted
  <2> QED BY <2>3
<1>2. ASSUME NEW n \in T PROVE n + 1 \in T
  <2>1. n \in Nat /\ \E g : CountedUpTo(g, msgs, S, n)
    OBVIOUS
  <2>2. PICK g : CountedUpTo(g, msgs, S, n)
    BY <2>1
  <2>3. \E h : CountedUpTo(h, msgs, S, n + 1)
    BY <2>1, <2>2, OneMoreCounted
  <2> QED BY <2>1, <2>3
<1>3. T = Nat
  <2> HIDE DEF T
  <2> QED BY <1>1, <1>2, AllNaturals DEF T
<1>4. Cardinality(S) \in Nat
  BY FS_CardinalityType
<1>5. PICK g : CountedUpTo(g, msgs, S, Cardinality(S))
  BY <1>3, <1>4
<1> DEFINE f == [s \in SUBSET S |-> g[s]]
<1>6. \A s \in SUBSET S : g[s] = Counted(g, msgs, s) /\ f[s] = g[s]
  BY <1>5, OneLess DEF CountedUpTo
<1>7. \A s \in SUBSET S : Counted(f, msgs, s) = Counted(g, msgs, s)
  <2> TAKE s \in SUBSET S
  <2>1. s \ {First(s)} \in SUBSET S
    OBVIOUS
  <2> HIDE DEF f
  <2> QED BY <1>6, <2>1 DEF Counted
<1>8. f = [s \in SUBSET S |-> Counted(f, msgs, s)]
  <2>1. f = [s \in SUBSET S |-> Counted(g, msgs, s)]
    BY <1>6
  <2> HIDE DEF f
  <2> QED BY <1>7, <2>1
<1> QED BY <1>8 DEF IsCount

\* The estimate of a stretch of a transcript is a number.
LEMMA EstimateIsNatural ==
    ASSUME NEW msgs \in Seq(Message), NEW from \in Nat \ {0}
    PROVE  EstimateTokens(msgs, from) \in Nat
<1> DEFINE S == from..Len(msgs)
           g == CHOOSE g : IsCount(g, msgs, S)
           T == {n \in Nat : \A s \in SUBSET S : Cardinality(s) = n => g[s] \in Nat}
<1>1. IsFiniteSet(S) /\ \A i \in S : msgs[i].tokens \in Nat
  <2>1. \A i \in S : msgs[i] \in Message
    OBVIOUS
  <2>2. IsFiniteSet(S)
    BY FS_Interval
  <2> QED BY <2>1, <2>2 DEF Message
<1>2. EstimateTokens(msgs, from) = g[S]
  BY EstimateIsCount
<1> HIDE DEF S
<1>3. IsCount(g, msgs, S)
  BY <1>1, CountExists
<1> HIDE DEF g
<1>4. \A s \in SUBSET S : g[s] = Counted(g, msgs, s)
  BY <1>3 DEF IsCount
<1>5. 0 \in T
  <2>1. ASSUME NEW s \in SUBSET S, Cardinality(s) = 0 PROVE g[s] \in Nat
    <3>1. Cardinality(s) = 0 <=> s = {}
      BY <1>1, OneLess
    <3>2. s = {} /\ g[s] = Counted(g, msgs, s)
      BY <1>4, <2>1, <3>1
    <3> QED BY <3>2 DEF Counted
  <2> QED BY <2>1
<1>6. ASSUME NEW n \in T PROVE n + 1 \in T
  <2>1. n \in Nat /\ \A s \in SUBSET S : Cardinality(s) = n => g[s] \in Nat
    OBVIOUS
  <2>2. ASSUME NEW s \in SUBSET S, Cardinality(s) = n + 1 PROVE g[s] \in Nat
    <3>1. s # {} /\ First(s) \in S /\ s \ {First(s)} \in SUBSET S
          /\ Cardinality(s \ {First(s)}) = n
      BY <1>1, <2>1, <2>2, OneLess
    <3>2. g[s \ {First(s)}] \in Nat /\ msgs[First(s)].tokens \in Nat
      BY <1>1, <2>1, <3>1
    <3>3. g[s] = msgs[First(s)].tokens + g[s \ {First(s)}]
      BY <1>4, <3>1 DEF Counted
    <3> QED BY <3>2, <3>3
  <2> QED BY <2>1, <2>2
<1>7. T = Nat
  <2> HIDE DEF T
  <2> QED BY <1>5, <1>6, AllNaturals DEF T
<1>8. Cardinality(S) \in Nat /\ S \in SUBSET S
  BY <1>1, FS_CardinalityType
<1>9. g[S] \in Nat
  BY <1>7, <1>8
<1> QED
  BY <1>2, <1>9

(***************************************************************************)
(* The boundary walk: it ends, at a safe cut at or before the raw boundary.*)
(***************************************************************************)
LEMMA RawKeepFromType ==
    ASSUME NEW msgs \in Seq(Message), NEW preserve \in Nat
    PROVE  RawKeepFrom(msgs, preserve) \in 0..Len(msgs)
  BY DEF RawKeepFrom

LEMMA NearestSafeCut ==
    ASSUME NEW msgs \in Seq(Message), NEW preserve \in Nat
    PROVE  LET raw == RawKeepFrom(msgs, preserve) IN
           \E k \in 0..raw : /\ SafeCut(msgs, k)
                             /\ \A j \in (k + 1)..raw : ~SafeCut(msgs, j)
<1> DEFINE raw == RawKeepFrom(msgs, preserve)
           back == {d \in Nat : d <= raw /\ SafeCut(msgs, raw - d)}
<1>1. raw \in Nat
  BY RawKeepFromType
<1>2. SafeCut(msgs, 0)
  BY DEF SafeCut, PrefixLen
<1> HIDE DEF raw
<1>3. raw \in back
  BY <1>1, <1>2
<1>4. PICK d \in back : \A e \in back : d <= e
  BY <1>3, LeastNatural
<1>5. raw - d \in 0..raw /\ SafeCut(msgs, raw - d)
  BY <1>1, <1>4
<1>6. ASSUME NEW j \in (raw - d + 1)..raw, SafeCut(msgs, j) PROVE FALSE
  <2>1. raw - j \in Nat /\ raw - j <= raw /\ raw - (raw - j) = j /\ raw - j < d
    BY <1>1, <1>4
  <2>2. raw - j \in back
    BY <2>1, <1>6
  <2> QED BY <2>1, <2>2, <1>4
<1> QED
  BY <1>5, <1>6 DEF raw

LEMMA KeepFromIsSafe ==
    ASSUME NEW msgs \in Seq(Message), NEW preserve \in Nat
    PROVE  /\ KeepFrom(msgs, preserve) \in 0..RawKeepFrom(msgs, preserve)
           /\ SafeCut(msgs, KeepFrom(msgs, preserve))
           /\ \A j \in (KeepFrom(msgs, preserve) + 1)..RawKeepFrom(msgs, preserve) :
                 ~SafeCut(msgs, j)
  BY NearestSafeCut, Zenon DEF KeepFrom

\* The summary of an earlier compaction is never kept as if it were a message.
LEMMA KeepFromPastSummary ==
    ASSUME NEW msgs \in Seq(Message), NEW preserve \in Nat,
           PrefixLen(msgs) <= RawKeepFrom(msgs, preserve)
    PROVE  KeepFrom(msgs, preserve) >= PrefixLen(msgs)
<1>1. PrefixLen(msgs) \in Nat /\ SafeCut(msgs, PrefixLen(msgs))
  BY DEF PrefixLen, SafeCut
<1>2. RawKeepFrom(msgs, preserve) \in Nat
  BY RawKeepFromType
<1>3. KeepFrom(msgs, preserve) \in Nat
  BY KeepFromIsSafe, <1>2
<1> QED BY <1>1, <1>2, <1>3, KeepFromIsSafe

(***************************************************************************)
(* compact_session does nothing, or leaves the summary and an uncut tail   *)
(* of what it was given, which it removed at least nothing from.           *)
(***************************************************************************)
LEMMA CompactSessionIsTail ==
    ASSUME NEW msgs \in Seq(Message), NEW preserve \in Nat, NEW maxTokens \in Nat
    PROVE  LET result == CompactSession(msgs, preserve, maxTokens) IN
           \/ result = [messages |-> msgs, removed |-> 0]
           \/ \E k \in PrefixLen(msgs)..RawKeepFrom(msgs, preserve) :
                 /\ SafeCut(msgs, k)
                 /\ result = [messages |-> <<SystemText(TRUE, 1)>>
                                             \o SubSeq(msgs, k + 1, Len(msgs)),
                              removed |-> k - PrefixLen(msgs)]
<1>1. CASE ~ShouldCompact(msgs, preserve, maxTokens)
  BY <1>1 DEF CompactSession
<1>2. CASE ShouldCompact(msgs, preserve, maxTokens)
  <2>1. PrefixLen(msgs) \in Nat /\ Len(msgs) - PrefixLen(msgs) > preserve
    BY <1>2 DEF ShouldCompact, PrefixLen
  <2>2. PrefixLen(msgs) <= RawKeepFrom(msgs, preserve)
    BY <2>1 DEF RawKeepFrom
  <2> DEFINE k == KeepFrom(msgs, preserve)
  <2>3. k \in PrefixLen(msgs)..RawKeepFrom(msgs, preserve) /\ SafeCut(msgs, k)
    BY <2>1, <2>2, KeepFromIsSafe, KeepFromPastSummary, RawKeepFromType
  <2>4. CompactSession(msgs, preserve, maxTokens)
          = [messages |-> <<SystemText(TRUE, 1)>> \o SubSeq(msgs, k + 1, Len(msgs)),
             removed |-> k - PrefixLen(msgs)]
    BY <1>2 DEF CompactSession
  <2> HIDE DEF k
  <2> QED BY <2>3, <2>4
<1> QED BY <1>1, <1>2

(***************************************************************************)
(* The tail behind a safe cut, with the summary in front of it, is a       *)
(* transcript, and is well paired when what it was cut from was: a result  *)
(* whose tool use lay before the cut would make the first preserved        *)
(* message a result.                                                       *)
(***************************************************************************)
LEMMA SummaryType == SystemText(TRUE, 1) \in Message
  BY DEF SystemText, Message, Role, NoId

LEMMA TailType ==
    ASSUME NEW msgs \in Seq(Message), NEW k \in 0..Len(msgs)
    PROVE  LET tail == <<SystemText(TRUE, 1)>> \o SubSeq(msgs, k + 1, Len(msgs)) IN
           /\ tail \in Seq(Message)
           /\ Len(tail) = 1 + Len(msgs) - k
           /\ tail[1] = SystemText(TRUE, 1)
           /\ \A i \in 2..Len(tail) : tail[i] = msgs[i - 1 + k]
<1> DEFINE x == SystemText(TRUE, 1)
           rest == SubSeq(msgs, k + 1, Len(msgs))
<1>0. x \in Message
  BY SummaryType
<1> HIDE DEF x
<1>1. <<x>> \in Seq(Message) /\ Len(<<x>>) = 1 /\ <<x>>[1] = x
  BY <1>0
<1>2. /\ rest \in Seq(Message) /\ Len(rest) = Len(msgs) - k
      /\ \A i \in 1..Len(rest) : rest[i] = msgs[i + k]
  OBVIOUS
<1> HIDE DEF rest
<1>3. <<x>> \o rest \in Seq(Message) /\ Len(<<x>> \o rest) = 1 + Len(rest)
  BY <1>1, <1>2, ConcatProperties
<1>4. (<<x>> \o rest)[1] = x
  BY <1>1, <1>2, ConcatProperties
<1>5. \A i \in 2..(1 + Len(rest)) : (<<x>> \o rest)[i] = rest[i - 1]
  BY <1>1, <1>2, ConcatProperties
<1>6. ASSUME NEW i \in 2..(1 + Len(rest))
      PROVE  (<<x>> \o rest)[i] = msgs[i - 1 + k]
  <2>1. i - 1 \in 1..Len(rest)
    BY <1>2
  <2>2. rest[i - 1] = msgs[i - 1 + k]
    BY <1>2, <2>1, Zenon
  <2> QED BY <1>5, <2>2, Zenon
<1> QED BY <1>2, <1>3, <1>4, <1>6 DEF rest, x

\* Only assistant messages hold tool uses, so a summary answers for nothing.
OnlyAssistantsAsk(msgs) ==
    \A i \in 1..Len(msgs) :
        msgs[i].uses # << >> => msgs[i].role = "assistant"

LEMMA SafeTailIsPaired ==
    ASSUME NEW msgs \in Seq(Message), WellPaired(msgs), OnlyAssistantsAsk(msgs),
           NEW k \in PrefixLen(msgs)..Len(msgs), SafeCut(msgs, k)
    PROVE  WellPaired(<<SystemText(TRUE, 1)>> \o SubSeq(msgs, k + 1, Len(msgs)))
<1> DEFINE tail == <<SystemText(TRUE, 1)>> \o SubSeq(msgs, k + 1, Len(msgs))
<1>1. k \in 0..Len(msgs) /\ PrefixLen(msgs) \in {0, 1}
  BY DEF PrefixLen
<1>2. /\ tail \in Seq(Message) /\ Len(tail) = 1 + Len(msgs) - k
      /\ tail[1] = SystemText(TRUE, 1)
      /\ \A i \in 2..Len(tail) : tail[i] = msgs[i - 1 + k]
  BY <1>1, TailType
<1> HIDE DEF tail
<1>3. ~StartsWithResult(tail[1])
  BY <1>2 DEF StartsWithResult, SystemText
<1>4. ASSUME NEW i \in 1..Len(tail), StartsWithResult(tail[i])
      PROVE  PairedAt(tail, i)
  <2> DEFINE o == i - 1 + k
  <2>0. i # 1
    BY <1>3, <1>4
  <2>1. i \in 2..Len(tail) /\ o \in (k + 1)..Len(msgs) /\ tail[i] = msgs[o]
    BY <1>1, <1>2, <2>0
  <2>2. StartsWithResult(msgs[o])
    BY <2>1, <1>4
  <2>3. PICK j \in 1..(o - 1) :
            /\ Requests(msgs[j], msgs[o].result)
            /\ \A l \in (j + 1)..(o - 1) : StartsWithResult(msgs[l])
    BY <1>1, <2>1, <2>2 DEF WellPaired, PairedAt
  <2>4. j > k
    <3> SUFFICES ASSUME j <= k PROVE FALSE
      BY <1>1, <2>1
    <3>1. StartsWithResult(msgs[k + 1]) /\ k < Len(msgs) /\ k \in Nat
      BY <1>1, <2>1, <2>2, <2>3
    <3>2. k <= PrefixLen(msgs)
      BY <3>1 DEF SafeCut
    <3>3. j = 1 /\ PrefixLen(msgs) = 1
      BY <1>1, <2>1, <2>3, <3>2
    <3>4. msgs[1].role = "system" /\ 1 \in 1..Len(msgs)
      BY <1>1, <3>1, <3>3 DEF PrefixLen
    <3>5. msgs[1].uses = << >>
      BY <3>4 DEF OnlyAssistantsAsk
    <3> QED BY <2>3, <3>3, <3>5 DEF Requests
  <2> DEFINE p == j - k + 1
  <2>5. p \in 1..(i - 1) /\ tail[p] = msgs[j]
    <3>1. i \in Nat /\ j \in Nat /\ k \in Nat /\ i <= Len(tail) /\ Len(tail) \in Nat
      BY <1>1, <1>2, <2>1
    <3>2. j > k /\ j <= i - 2 + k
      BY <2>1, <2>3, <2>4
    <3>3. p \in 2..Len(tail) /\ p \in 1..(i - 1) /\ p - 1 + k = j
      BY <3>1, <3>2
    <3> HIDE DEF p
    <3> QED BY <1>2, <3>3
  <2>6. ASSUME NEW l \in (p + 1)..(i - 1) PROVE StartsWithResult(tail[l])
    <3>1. l \in 2..Len(tail) /\ l - 1 + k \in (j + 1)..(o - 1)
      BY <1>1, <1>2, <2>1, <2>3, <2>4
    <3> QED BY <1>2, <2>3, <3>1
  <2> HIDE DEF p, o
  <2> QED BY <2>1, <2>3, <2>5, <2>6 DEF PairedAt
<1> QED BY <1>4 DEF WellPaired, tail

\* compact_session never separates a tool result from its tool use.
THEOREM CompactionKeepsPairs ==
    ASSUME NEW msgs \in Seq(Message), NEW preserve \in Nat, NEW maxTokens \in Nat,
           WellPaired(msgs), OnlyAssistantsAsk(msgs)
    PROVE  WellPaired(CompactSession(msgs, preserve, maxTokens).messages)
<1> DEFINE result == CompactSession(msgs, preserve, maxTokens)
           tail(k) == <<SystemText(TRUE, 1)>> \o SubSeq(msgs, k + 1, Len(msgs))
<1>1. \/ result = [messages |-> msgs, removed |-> 0]
      \/ \E k \in PrefixLen(msgs)..RawKeepFrom(msgs, preserve) :
            /\ SafeCut(msgs, k)
            /\ result = [messages |-> tail(k), removed |-> k - PrefixLen(msgs)]
  BY CompactSessionIsTail, Zenon
<1> HIDE DEF result
<1>2. CASE result = [messages |-> msgs, removed |-> 0]
  BY <1>2 DEF result
<1>3. ASSUME NEW k \in PrefixLen(msgs)..RawKeepFrom(msgs, preserve),
             SafeCut(msgs, k),
             result = [messages |-> tail(k), removed |-> k - PrefixLen(msgs)]
      PROVE  WellPaired(result.messages)
  <2>1. k \in PrefixLen(msgs)..Len(msgs)
    BY RawKeepFromType DEF PrefixLen
  <2>2. WellPaired(tail(k))
    BY <1>3, <2>1, SafeTailIsPaired
  <2> HIDE DEF tail
  <2> QED BY <1>3, <2>2
<1> QED BY <1>1, <1>2, <1>3 DEF result

----------------------------------------------------------------------------
(***************************************************************************)
(* II.  The turns                                                          *)
(***************************************************************************)

(***************************************************************************)
(* Type correctness.  The program counter tells which locals are in use.   *)
(***************************************************************************)
CallInUse ==
    /\ pc \in ToolPcs => pending # << >>
    /\ pc \in ToolPcs \ {"pre_hook"} =>
          /\ call \in CallType
          /\ call.id = pending[1].id

TypeInv == TypeOK /\ CallInUse

LEMMA NewUsesType ==
    ASSUME TypeOK, NEW n \in 0..MaxUses, NEW wanted \in [1..n -> Tool \X Input]
    PROVE  NewUses(wanted) \in Seq(ToolUse) /\ Len(NewUses(wanted)) = n
<1>1. n \in Nat
  BY ConversationAssumption
<1>2. \A u \in 1..n : [id |-> nextId + u - 1, tool |-> wanted[u][1], input |-> wanted[u][2]]
                         \in ToolUse
  BY <1>1 DEF TypeOK, ToolUse, ToolUseId, NoId
<1>3. NewUses(wanted) \in [1..n -> ToolUse]
  BY <1>2 DEF NewUses
<1> HIDE DEF NewUses
<1> QED BY <1>1, <1>3

LEMMA MessageTypes ==
    /\ UserText(1) \in Message
    /\ \A uses \in Seq(ToolUse) : AssistantMessage(uses, 1) \in Message
    /\ \A id \in Nat, error \in BOOLEAN : ToolResult(id, error, 1) \in Message
  BY DEF UserText, AssistantMessage, ToolResult, Message, Role, NoId

LEMMA CompactType ==
    ASSUME NEW msgs \in Seq(Message), NEW tokens \in Nat
    PROVE  /\ MaybeAutoCompact(msgs, tokens).messages \in Seq(Message)
           /\ MaybeAutoCompact(msgs, tokens).removed \in Nat
<1> DEFINE result == CompactSession(msgs, PreserveRecent, 0)
           tail(k) == <<SystemText(TRUE, 1)>> \o SubSeq(msgs, k + 1, Len(msgs))
<1>1. \/ result = [messages |-> msgs, removed |-> 0]
      \/ \E k \in PrefixLen(msgs)..RawKeepFrom(msgs, PreserveRecent) :
            /\ SafeCut(msgs, k)
            /\ result = [messages |-> tail(k), removed |-> k - PrefixLen(msgs)]
  <2>1. PreserveRecent \in Nat /\ 0 \in Nat
    BY DEF PreserveRecent
  <2> QED BY <2>1, CompactSessionIsTail, Zenon
<1>2. PrefixLen(msgs) \in Nat /\ RawKeepFrom(msgs, PreserveRecent) \in 0..Len(msgs)
  BY RawKeepFromType DEF PrefixLen, PreserveRecent
<1>3. \A k \in PrefixLen(msgs)..RawKeepFrom(msgs, PreserveRecent) :
          tail(k) \in Seq(Message) /\ k - PrefixLen(msgs) \in Nat
  <2> TAKE k \in PrefixLen(msgs)..RawKeepFrom(msgs, PreserveRecent)
  <2>1. k \in 0..Len(msgs) /\ k - PrefixLen(msgs) \in Nat
    BY <1>2
  <2>2. tail(k) \in Seq(Message)
    BY <2>1, TailType
  <2> QED BY <2>1, <2>2
<1> HIDE DEF result, tail
<1>4. result.messages \in Seq(Message) /\ result.removed \in Nat
  BY <1>1, <1>3
<1> QED BY <1>4 DEF MaybeAutoCompact, result

LEMMA TypeInit == Init => TypeInv
<1> SUFFICES ASSUME Init PROVE TypeInv
  OBVIOUS
<1>1. << >> \in Seq(Message) /\ << >> \in Seq(ToolUse)
  BY EmptySeq
<1>2. nextId \in ToolUseId /\ turns \in 0..MaxTurns
  BY ConversationAssumption DEF Init, ToolUseId, NoId
<1>3. compaction \in [count : Nat, removed : Nat]
  BY DEF Init
<1>4. TypeOK
  BY <1>1, <1>2, <1>3 DEF Init, TypeOK
<1> QED BY <1>4 DEF Init, TypeInv, CallInUse, ToolPcs

\* The transcript and the history are typed and stay so where nothing is pushed.
LEMMA TypeNext == TypeInv /\ [Next]_vars => TypeInv'
<1> SUFFICES ASSUME TypeInv, [Next]_vars PROVE TypeInv'
  OBVIOUS
<1> USE ConversationAssumption DEF TypeInv
<1>1. CASE ProbeFails
  BY <1>1 DEF ProbeFails, EndTurn, TypeOK, CallInUse, ToolPcs, historyVars
<1>2. CASE StartTurn
  <2>1. messages' \in Seq(Message) /\ transcript' \in Seq(Message)
    BY <1>2, MessageTypes DEF StartTurn, Push, TypeOK
  <2>2. turns' \in 0..MaxTurns
    BY <1>2 DEF StartTurn, TypeOK
  <2> QED BY <1>2, <2>1, <2>2 DEF StartTurn, TypeOK, CallInUse, ToolPcs
<1>3. CASE UserPushFails
  BY <1>3 DEF UserPushFails, EndTurn, TypeOK, CallInUse, ToolPcs, historyVars
<1>4. CASE IterationLimit
  BY <1>4 DEF IterationLimit, EndTurn, TypeOK, CallInUse, ToolPcs, historyVars
<1>5. CASE StreamFails
  BY <1>5 DEF StreamFails, EndTurn, TypeOK, CallInUse, ToolPcs, historyVars
<1>6. CASE AssistantAnswers
  <2>0. PICK tokens \in UsageTokens, n \in 0..MaxUses :
            \E w \in [1..n -> Tool \X Input] : AnswerWith(tokens, NewUses(w))
    BY <1>6 DEF AssistantAnswers
  <2>1. PICK wanted \in [1..n -> Tool \X Input] : AnswerWith(tokens, NewUses(wanted))
    BY <2>0
  <2>2. n \in Nat /\ tokens \in Nat
    OBVIOUS
  <2> DEFINE uses == NewUses(wanted)
             message == AssistantMessage(uses, 1)
             result == MaybeAutoCompact(Append(messages, message), inputTokens + tokens)
  <2>3. uses \in Seq(ToolUse)
    BY NewUsesType
  <2> HIDE DEF uses
  <2>4. message \in Message
    BY <2>3, MessageTypes
  <2>5. Append(messages, message) \in Seq(Message) /\ inputTokens + tokens \in Nat
    BY <2>2, <2>4 DEF TypeOK
  <2> HIDE DEF message
  <2>6. result.messages \in Seq(Message) /\ result.removed \in Nat
    BY <2>5, CompactType
  <2> HIDE DEF result
  <2>7. /\ messages' = result.messages
        /\ transcript' = Append(transcript, message)
        /\ inputTokens' = inputTokens + tokens
        /\ nextId' = nextId + Len(uses)
        /\ compaction' = IF result.removed = 0 THEN compaction
                         ELSE [count |-> compaction.count + 1, removed |-> result.removed]
    BY <2>1 DEF AnswerWith, uses, message, result
  <2>8. /\ messages' \in Seq(Message) /\ transcript' \in Seq(Message)
        /\ inputTokens' \in Nat /\ nextId' \in ToolUseId
        /\ compaction' \in [count : Nat, removed : Nat]
    BY <2>2, <2>3, <2>4, <2>6, <2>7, SMTT(30) DEF TypeOK, ToolUseId, NoId
  <2>9. \/ /\ pc' = "idle" /\ outcome' = "ok" /\ pending' = << >> /\ call' = NoCall
        \/ /\ pending' = uses /\ uses # << >> /\ pc' = "pre_hook"
           /\ UNCHANGED <<call, outcome>>
    BY <2>1 DEF AnswerWith, EndTurn, uses
  <2>10. /\ UNCHANGED <<aborted, turns, executed, approved, dropped, late>>
         /\ iterations' = iterations + 1
    BY <1>6 DEF AssistantAnswers
  <2>11. TypeOK'
    <3>1. /\ pending' \in Seq(ToolUse) /\ call' \in CallType \cup {NoCall}
          /\ pc' \in {"idle", "loop"} \cup ToolPcs /\ outcome' \in {"none", "ok", "error"}
      BY <2>3, <2>9, EmptySeq DEF TypeOK, ToolPcs
    <3>2. iterations' \in Nat
      BY <2>10 DEF TypeOK
    <3> QED BY <2>8, <2>10, <3>1, <3>2 DEF TypeOK
  <2>12. CallInUse'
    BY <2>9 DEF CallInUse, ToolPcs
  <2> QED BY <2>11, <2>12
<1>7. CASE AssistantPushFails
  BY <1>7 DEF AssistantPushFails, EndTurn, TypeOK, CallInUse, ToolPcs, historyVars, ToolUseId, NoId
<1>8. CASE PreToolUseHook
  <2>1. NextUse \in ToolUse /\ NextUse = pending[1] /\ pending # << >>
    BY <1>8 DEF PreToolUseHook, NextUse, TypeOK, CallInUse, ToolPcs
  <2>2. \A v \in PreVerdicts(NextUse.input) :
           v.input \in Input /\ v.override \in Override /\ v.flow \in Flow
    BY <2>1 DEF PreVerdicts, HookFlows, Override, Flow, ToolUse
  <2>3. call' \in CallType /\ call'.id = pending[1].id
    BY <1>8, <2>1, <2>2 DEF PreToolUseHook, CallType, ToolUse, ToolUseId
  <2> QED BY <1>8, <2>1, <2>3 DEF PreToolUseHook, TypeOK, CallInUse, ToolPcs, historyVars
<1>9. CASE AuthorizeCall
  <2>1. call \in CallType /\ pending # << >> /\ call.id = pending[1].id
    BY <1>9 DEF AuthorizeCall, CallInUse, ToolPcs
  <2>2. Ran(call) \in [id : Nat, tool : Tool, input : Input]
    BY <2>1 DEF Ran, CallType
  <2>3. approved' \in SUBSET [id : Nat, tool : Tool, input : Input]
    BY <1>9, <2>2 DEF AuthorizeCall, TypeOK
  <2>4. Refused(call) \in CallType /\ Refused(call).id = call.id
    BY <2>1 DEF Refused, CallType
  <2>5. /\ call' \in CallType /\ call'.id = pending[1].id
        /\ pc' \in {"execute", "push_result"}
    BY <1>9, <2>1, <2>4 DEF AuthorizeCall
  <2> QED BY <1>9, <2>1, <2>3, <2>5 DEF AuthorizeCall, TypeOK, CallInUse, ToolPcs
<1>10. CASE ExecuteTool
  <2>1. call \in CallType /\ pending # << >> /\ call.id = pending[1].id
    BY <1>10 DEF ExecuteTool, CallInUse, ToolPcs
  <2>2. Ran(call) \in [id : Nat, tool : Tool, input : Input]
    BY <2>1 DEF Ran, CallType
  <2>3. executed' \in SUBSET [id : Nat, tool : Tool, input : Input] /\ late' \in Nat
    BY <1>10, <2>2 DEF ExecuteTool, TypeOK
  <2>4. call' \in CallType /\ call'.id = pending[1].id
    BY <1>10, <2>1 DEF ExecuteTool, CallType
  <2> QED BY <1>10, <2>1, <2>3, <2>4 DEF ExecuteTool, TypeOK, CallInUse, ToolPcs
<1>11. CASE PostToolUseHook
  BY <1>11, ZenonT(60) DEF PostToolUseHook, HookFlows, TypeOK, CallInUse, ToolPcs, CallType, historyVars
<1>12. CASE PushToolResult
  <2>1. call \in CallType /\ pending # << >>
    BY <1>12 DEF PushToolResult, CallInUse, ToolPcs
  <2>2. ToolResult(call.id, call.error, 1) \in Message
    BY <2>1, MessageTypes DEF CallType
  <2>3. messages' \in Seq(Message) /\ transcript' \in Seq(Message)
    BY <1>12, <2>2 DEF PushToolResult, Push, TypeOK
  <2>4. pending' \in Seq(ToolUse) /\ (pc' = "pre_hook" => pending' # << >>)
    <3>1. pending \in Seq(ToolUse)
      BY DEF TypeOK
    <3>2. /\ pending' = Tail(pending)
          /\ pc' = IF Len(pending) = 1 THEN "loop" ELSE "pre_hook"
      BY <1>12 DEF PushToolResult
    <3>3. Tail(pending) \in Seq(ToolUse) /\ Len(Tail(pending)) = Len(pending) - 1
      BY <2>1, <3>1, HeadTailProperties
    <3>4. Tail(pending) = << >> => Len(pending) = 1
      <4> DEFINE rest == Tail(pending)
      <4>0. Len(<< >>) = 0
        OBVIOUS
      <4>2. Len(pending) \in Nat /\ Len(rest) = Len(pending) - 1
        BY <3>1, <3>3
      <4> HIDE DEF rest
      <4>1. rest = << >> => Len(rest) = 0
        BY <4>0, Zenon
      <4>3. rest = << >> => Len(pending) = 1
        BY <4>1, <4>2
      <4> QED BY <4>3 DEF rest
    <3> QED BY <3>2, <3>3, <3>4
  <2> QED BY <1>12, <2>3, <2>4 DEF PushToolResult, TypeOK, CallInUse, ToolPcs
<1>13. CASE ResultPushFails
  <2>1. \A u \in 1..Len(pending) : pending[u].id \in Nat
    <3>1. \A u \in 1..Len(pending) : pending[u] \in ToolUse
      BY DEF TypeOK
    <3> QED BY <3>1 DEF ToolUse, ToolUseId
  <2>2. dropped' \in SUBSET Nat
    BY <1>13, <2>1 DEF ResultPushFails, TypeOK
  <2> QED BY <1>13, <2>2 DEF ResultPushFails, EndTurn, TypeOK, CallInUse, ToolPcs
<1>14. CASE Abort
  BY <1>14 DEF Abort, turnVars, historyVars, TypeOK, CallInUse, ToolPcs
<1>15. CASE UNCHANGED vars
  BY <1>15 DEF vars, turnVars, historyVars, TypeOK, CallInUse, ToolPcs
<1> QED
  BY <1>1, <1>2, <1>3, <1>4, <1>5, <1>6, <1>7, <1>8, <1>9, <1>10, <1>11, <1>12, <1>13,
     <1>14, <1>15 DEF Next, TurnStep

\* Every state of run_turn is typed, and the call at hand is the first pending use.
THEOREM TypeCorrect == Spec => []TypeOK
<1>1. Init => TypeInv
  BY TypeInit
<1>2. TypeInv /\ [Next]_vars => TypeInv'
  BY TypeNext
<1>3. TypeInv => TypeOK
  BY DEF TypeInv
<1> QED BY <1>1, <1>2, <1>3, PTL DEF Spec

(***************************************************************************)
(* Pairing.  While tools are being run, the message that asked for them    *)
(* has nothing but results behind it: that is what lets the next result be *)
(* appended, and what a compaction between the answer and its first result *)
(* must not destroy.                                                       *)
(***************************************************************************)
AskedAtEnd(msgs, uses) ==
    \E j \in 1..Len(msgs) :
        /\ \A u \in 1..Len(uses) : Requests(msgs[j], uses[u].id)
        /\ \A k \in (j + 1)..Len(msgs) : StartsWithResult(msgs[k])

PairInv ==
    /\ WellPaired(messages)
    /\ OnlyAssistantsAsk(messages)
    /\ pc \in ToolPcs => AskedAtEnd(messages, pending)

LEMMA AppendType ==
    ASSUME NEW msgs \in Seq(Message), NEW m \in Message
    PROVE  /\ Append(msgs, m) \in Seq(Message)
           /\ Len(Append(msgs, m)) = Len(msgs) + 1
           /\ Append(msgs, m)[Len(msgs) + 1] = m
           /\ \A i \in 1..Len(msgs) : Append(msgs, m)[i] = msgs[i]
  BY AppendProperties

LEMMA AppendKeepsPairs ==
    ASSUME NEW msgs \in Seq(Message), NEW m \in Message,
           WellPaired(msgs), OnlyAssistantsAsk(msgs),
           HasToolUse(m) => m.role = "assistant",
           StartsWithResult(m) =>
               \E j \in 1..Len(msgs) :
                   /\ Requests(msgs[j], m.result)
                   /\ \A k \in (j + 1)..Len(msgs) : StartsWithResult(msgs[k])
    PROVE  WellPaired(Append(msgs, m)) /\ OnlyAssistantsAsk(Append(msgs, m))
<1> DEFINE longer == Append(msgs, m)
<1>1. /\ longer \in Seq(Message) /\ Len(longer) = Len(msgs) + 1
      /\ longer[Len(msgs) + 1] = m
      /\ \A i \in 1..Len(msgs) : longer[i] = msgs[i]
  BY AppendType
<1>2. Len(msgs) \in Nat
  OBVIOUS
<1> HIDE DEF longer
<1>3. ASSUME NEW i \in 1..Len(longer), StartsWithResult(longer[i])
      PROVE  PairedAt(longer, i)
  <2>1. CASE i \in 1..Len(msgs)
    <3>1. StartsWithResult(msgs[i])
      BY <1>1, <1>3, <2>1
    <3>2. PICK j \in 1..(i - 1) :
              /\ Requests(msgs[j], msgs[i].result)
              /\ \A k \in (j + 1)..(i - 1) : StartsWithResult(msgs[k])
      BY <2>1, <3>1 DEF WellPaired, PairedAt
    <3>3. Requests(longer[j], longer[i].result)
      BY <1>1, <1>2, <2>1, <3>2
    <3>4. \A k \in (j + 1)..(i - 1) : StartsWithResult(longer[k])
      BY <1>1, <1>2, <2>1, <3>2
    <3> QED BY <3>3, <3>4 DEF PairedAt
  <2>2. CASE i = Len(msgs) + 1
    <3>1. StartsWithResult(m) /\ longer[i] = m
      BY <1>1, <1>3, <2>2
    <3>2. PICK j \in 1..Len(msgs) :
              /\ Requests(msgs[j], m.result)
              /\ \A k \in (j + 1)..Len(msgs) : StartsWithResult(msgs[k])
      BY <3>1
    <3>3. Requests(longer[j], longer[i].result)
      BY <1>1, <3>1, <3>2
    <3>4. \A k \in (j + 1)..(i - 1) : StartsWithResult(longer[k])
      BY <1>1, <1>2, <2>2, <3>2
    <3>5. j \in 1..(i - 1)
      BY <1>2, <2>2
    <3> QED BY <3>3, <3>4, <3>5 DEF PairedAt
  <2> QED BY <1>1, <1>2, <2>1, <2>2
<1>4. OnlyAssistantsAsk(longer)
  <2> SUFFICES ASSUME NEW i \in 1..Len(longer), longer[i].uses # << >>
               PROVE  longer[i].role = "assistant"
    BY DEF OnlyAssistantsAsk
  <2>1. CASE i \in 1..Len(msgs)
    BY <1>1, <2>1 DEF OnlyAssistantsAsk
  <2>2. CASE i = Len(msgs) + 1
    BY <1>1, <2>2 DEF HasToolUse
  <2> QED BY <1>1, <1>2, <2>1, <2>2
<1> QED BY <1>3, <1>4 DEF WellPaired, longer

\* The automatic compaction keeps pairs, and the last message, in the transcript.
LEMMA AutoCompactKeeps ==
    ASSUME NEW msgs \in Seq(Message), NEW tokens \in Nat, Len(msgs) > 0,
           WellPaired(msgs), OnlyAssistantsAsk(msgs)
    PROVE  LET new == MaybeAutoCompact(msgs, tokens).messages IN
           /\ WellPaired(new) /\ OnlyAssistantsAsk(new)
           /\ new \in Seq(Message) /\ Len(new) > 0
           /\ new[Len(new)] = msgs[Len(msgs)]
<1> DEFINE result == CompactSession(msgs, PreserveRecent, 0)
           tail(k) == <<SystemText(TRUE, 1)>> \o SubSeq(msgs, k + 1, Len(msgs))
           Kept(new) == /\ WellPaired(new) /\ OnlyAssistantsAsk(new)
                        /\ new \in Seq(Message) /\ Len(new) > 0
                        /\ new[Len(new)] = msgs[Len(msgs)]
<1>1. \/ result = [messages |-> msgs, removed |-> 0]
      \/ \E k \in PrefixLen(msgs)..RawKeepFrom(msgs, PreserveRecent) :
            /\ SafeCut(msgs, k)
            /\ result = [messages |-> tail(k), removed |-> k - PrefixLen(msgs)]
  <2>1. PreserveRecent \in Nat /\ 0 \in Nat
    BY DEF PreserveRecent
  <2> QED BY <2>1, CompactSessionIsTail, Zenon
<1>2. /\ PrefixLen(msgs) \in Nat /\ Len(msgs) \in Nat
      /\ RawKeepFrom(msgs, PreserveRecent) \in 0..(Len(msgs) - 1)
  BY DEF PrefixLen, PreserveRecent, RawKeepFrom
<1>3. ASSUME NEW k \in PrefixLen(msgs)..RawKeepFrom(msgs, PreserveRecent), SafeCut(msgs, k)
      PROVE  Kept(tail(k))
  <2>1. k \in 0..(Len(msgs) - 1) /\ k \in PrefixLen(msgs)..Len(msgs) /\ k \in 0..Len(msgs)
    BY <1>2
  <2>2. WellPaired(tail(k))
    BY <1>3, <2>1, SafeTailIsPaired
  <2>3. /\ tail(k) \in Seq(Message) /\ Len(tail(k)) = 1 + Len(msgs) - k
        /\ tail(k)[1] = SystemText(TRUE, 1)
        /\ \A i \in 2..Len(tail(k)) : tail(k)[i] = msgs[i - 1 + k]
    BY <2>1, TailType
  <2> HIDE DEF tail
  <2>4. tail(k)[Len(tail(k))] = msgs[Len(msgs)] /\ Len(tail(k)) > 0
    <3>1. Len(tail(k)) \in 2..Len(tail(k)) /\ Len(tail(k)) - 1 + k = Len(msgs)
      BY <1>2, <2>1, <2>3
    <3> QED BY <2>3, <3>1
  <2>5. OnlyAssistantsAsk(tail(k))
    <3> SUFFICES ASSUME NEW i \in 1..Len(tail(k)), tail(k)[i].uses # << >>
                 PROVE  tail(k)[i].role = "assistant"
      BY DEF OnlyAssistantsAsk
    <3>1. i # 1
      BY <2>3 DEF SystemText
    <3>2. i \in 2..Len(tail(k)) /\ i - 1 + k \in 1..Len(msgs)
      BY <1>2, <2>1, <2>3, <3>1
    <3> QED BY <2>3, <3>2 DEF OnlyAssistantsAsk
  <2> QED BY <2>2, <2>3, <2>4, <2>5
<1>4. Kept(msgs)
  OBVIOUS
<1> HIDE DEF result, tail, Kept
<1>5. Kept(result.messages)
  BY <1>1, <1>3, <1>4
<1>6. Kept(MaybeAutoCompact(msgs, tokens).messages)
  BY <1>4, <1>5 DEF MaybeAutoCompact, result
<1> QED BY <1>6 DEF Kept

LEMMA PairInit == Init => PairInv
  BY DEF Init, PairInv, WellPaired, OnlyAssistantsAsk, ToolPcs

LEMMA PairNext == TypeInv /\ PairInv /\ [Next]_vars => PairInv'
<1> SUFFICES ASSUME TypeInv, PairInv, [Next]_vars PROVE PairInv'
  OBVIOUS
<1> USE ConversationAssumption DEF TypeInv
<1>0. messages \in Seq(Message) /\ pending \in Seq(ToolUse)
  BY DEF TypeOK
<1>1. CASE ProbeFails \/ UserPushFails \/ IterationLimit \/ StreamFails \/ AssistantPushFails
           \/ ResultPushFails
  <2>1. messages' = messages /\ pc' = "idle"
    BY <1>1 DEF ProbeFails, UserPushFails, IterationLimit, StreamFails, AssistantPushFails,
       ResultPushFails, EndTurn
  <2> QED BY <2>1 DEF PairInv, ToolPcs
<1>2. CASE StartTurn
  <2>1. messages' = Append(messages, UserText(1)) /\ pc' = "loop"
    BY <1>2 DEF StartTurn, Push
  <2>2. UserText(1) \in Message /\ ~HasToolUse(UserText(1)) /\ ~StartsWithResult(UserText(1))
    BY MessageTypes DEF UserText, HasToolUse, StartsWithResult
  <2> QED BY <1>0, <2>1, <2>2, AppendKeepsPairs DEF PairInv, ToolPcs
<1>3. CASE AssistantAnswers
  <2>0. PICK tokens \in UsageTokens, n \in 0..MaxUses :
            \E w \in [1..n -> Tool \X Input] : AnswerWith(tokens, NewUses(w))
    BY <1>3 DEF AssistantAnswers
  <2>1. PICK wanted \in [1..n -> Tool \X Input] : AnswerWith(tokens, NewUses(wanted))
    BY <2>0
  <2> DEFINE uses == NewUses(wanted)
             message == AssistantMessage(uses, 1)
             longer == Append(messages, message)
             new == MaybeAutoCompact(longer, inputTokens + tokens).messages
  <2>2. uses \in Seq(ToolUse)
    BY NewUsesType
  <2>3. messages' = new
    BY <2>1 DEF AnswerWith
  <2>4. pc' = "idle" \/ (pc' = "pre_hook" /\ pending' = uses)
    BY <2>1 DEF AnswerWith, EndTurn
  <2> HIDE DEF uses
  <2>5. /\ message \in Message /\ message.uses = uses
        /\ message.role = "assistant" /\ ~StartsWithResult(message)
    BY <2>2, MessageTypes DEF AssistantMessage, StartsWithResult
  <2> HIDE DEF message
  <2>6. WellPaired(longer) /\ OnlyAssistantsAsk(longer)
    BY <1>0, <2>5, AppendKeepsPairs DEF PairInv
  <2>7. /\ longer \in Seq(Message) /\ Len(longer) = Len(messages) + 1
        /\ longer[Len(messages) + 1] = message
    BY <1>0, <2>5, AppendType
  <2>8. inputTokens + tokens \in Nat /\ Len(longer) > 0
    BY <1>0, <2>7 DEF TypeOK
  <2> HIDE DEF longer
  <2>9. /\ WellPaired(new) /\ OnlyAssistantsAsk(new)
        /\ new \in Seq(Message) /\ Len(new) > 0 /\ new[Len(new)] = longer[Len(longer)]
    BY <2>6, <2>7, <2>8, AutoCompactKeeps
  <2> HIDE DEF new
  <2>10. new[Len(new)].uses = uses
    BY <2>5, <2>7, <2>9
  <2>11. \A u \in 1..Len(uses) : Requests(new[Len(new)], uses[u].id)
    BY <2>2, <2>10 DEF Requests
  <2>12. AskedAtEnd(new, uses)
    BY <2>9, <2>11 DEF AskedAtEnd
  <2> QED BY <2>3, <2>4, <2>9, <2>12 DEF PairInv, ToolPcs
<1>4. CASE PreToolUseHook \/ AuthorizeCall \/ ExecuteTool \/ PostToolUseHook
  <2>1. UNCHANGED <<messages, pending>> /\ pc \in ToolPcs
    BY <1>4 DEF PreToolUseHook, AuthorizeCall, ExecuteTool, PostToolUseHook, ToolPcs
  <2> QED BY <2>1 DEF PairInv
<1>5. CASE PushToolResult
  <2> DEFINE result == ToolResult(call.id, call.error, 1)
  <2>1. /\ call \in CallType /\ call.id = pending[1].id /\ pending # << >>
        /\ pc \in ToolPcs
    BY <1>5 DEF PushToolResult, CallInUse, ToolPcs
  <2>2. PICK j \in 1..Len(messages) :
            /\ \A u \in 1..Len(pending) : Requests(messages[j], pending[u].id)
            /\ \A k \in (j + 1)..Len(messages) : StartsWithResult(messages[k])
    BY <2>1 DEF PairInv, AskedAtEnd
  <2>3. Len(pending) \in Nat /\ 1 \in 1..Len(pending)
    BY <1>0, <2>1, EmptySeq
  <2>4. /\ result \in Message /\ result.result = call.id
        /\ ~HasToolUse(result)
    BY <2>1, MessageTypes DEF ToolResult, HasToolUse, CallType
  <2>5. messages' = Append(messages, result) /\ pending' = Tail(pending)
    BY <1>5 DEF PushToolResult, Push
  <2> HIDE DEF result
  <2>6. Requests(messages[j], result.result)
    BY <2>1, <2>2, <2>3, <2>4
  <2>7. WellPaired(messages') /\ OnlyAssistantsAsk(messages')
    BY <1>0, <2>2, <2>4, <2>5, <2>6, AppendKeepsPairs DEF PairInv
  <2>8. /\ Len(messages') = Len(messages) + 1
        /\ messages'[Len(messages) + 1] = result
        /\ \A i \in 1..Len(messages) : messages'[i] = messages[i]
    BY <1>0, <2>4, <2>5, AppendType
  <2>9. StartsWithResult(result)
    <3>1. pending[1] \in ToolUse
      BY <1>0, <2>3
    <3> QED BY <2>1, <2>4, <3>1 DEF StartsWithResult, ToolUse, ToolUseId
  <2>10. \A u \in 1..Len(pending') : Requests(messages'[j], pending'[u].id)
    <3>1. /\ Len(pending') = Len(pending) - 1
          /\ \A u \in 1..Len(pending') : pending'[u] = pending[u + 1]
      BY <1>0, <2>1, <2>5, HeadTailProperties
    <3> TAKE u \in 1..Len(pending')
    <3>2. u + 1 \in 1..Len(pending) /\ pending'[u] = pending[u + 1]
      BY <2>3, <3>1
    <3> QED BY <2>2, <2>8, <3>2
  <2>11. \A k \in (j + 1)..Len(messages') : StartsWithResult(messages'[k])
    <3> TAKE k \in (j + 1)..Len(messages')
    <3>1. CASE k \in (j + 1)..Len(messages)
      <4>1. k \in 1..Len(messages)
        BY <3>1
      <4> QED BY <2>2, <2>8, <3>1, <4>1
    <3>2. CASE k = Len(messages) + 1
      BY <2>8, <2>9, <3>2
    <3> QED BY <1>0, <2>8, <3>1, <3>2
  <2>12. j \in 1..Len(messages')
    BY <1>0, <2>8
  <2> HIDE DEF ToolPcs
  <2>13. AskedAtEnd(messages, pending)'
    BY <2>10, <2>11, <2>12, Zenon DEF AskedAtEnd
  <2> QED BY <2>7, <2>13 DEF PairInv
<1>6. CASE Abort \/ UNCHANGED vars
  <2>1. UNCHANGED <<messages, pending, pc>>
    BY <1>6 DEF Abort, vars, turnVars
  <2> QED BY <2>1 DEF PairInv, AskedAtEnd
<1> QED
  BY <1>1, <1>2, <1>3, <1>4, <1>5, <1>6 DEF Next, TurnStep

\* No request ever shows the provider a tool result without its tool use.
THEOREM PairsAreKept == Spec => []ResultsStayPaired
<1>1. Init => TypeInv /\ PairInv
  BY TypeInit, PairInit
<1>2. TypeInv /\ PairInv /\ [Next]_vars => (TypeInv /\ PairInv)'
  BY TypeNext, PairNext
<1>3. PairInv => ResultsStayPaired
  BY DEF PairInv, ResultsStayPaired
<1> QED BY <1>1, <1>2, <1>3, PTL DEF Spec

(***************************************************************************)
(* Permission.  Between the decision and the execution the call does not   *)
(* change, so what was decided is what runs.                               *)
(***************************************************************************)
Permitted(x, confirmed) ==
    /\ ~DeniedOutright(Policy, x.tool, x.input)
    /\ \/ x \in confirmed
       \/ /\ Granted(Policy, x.tool, x.input)
          /\ ~Matches(Policy.ask, x.tool, x.input)

PermitInv ==
    /\ \A x \in executed : Permitted(x, approved)
    /\ pc = "execute" => Permitted(Ran(call), approved)

\* authorize_with_context lets a call through for one of two reasons.
LEMMA AllowedFor ==
    ASSUME NEW tool, NEW input, NEW override, NEW answer,
           Authorize(Policy, tool, input, override, answer) = "allow"
    PROVE  /\ ~DeniedOutright(Policy, tool, input)
           /\ \/ Evaluate(Policy, tool, input, override) = "prompt" /\ answer = "allow"
              \/ /\ Granted(Policy, tool, input)
                 /\ ~Matches(Policy.ask, tool, input)
  BY Zenon DEF Authorize, Evaluate, PromptOrDeny

LEMMA PermitNext == PermitInv /\ [Next]_vars => PermitInv'
<1> SUFFICES ASSUME PermitInv, [Next]_vars PROVE PermitInv'
  OBVIOUS
<1>1. CASE AuthorizeCall
  <2>1. UNCHANGED executed /\ approved \subseteq approved'
    BY <1>1 DEF AuthorizeCall
  <2>2. \A x \in executed' : Permitted(x, approved')
    BY <2>1 DEF PermitInv, Permitted
  <2>3. ASSUME pc' = "execute" PROVE Permitted(Ran(call'), approved')
    <3> DEFINE decision == Evaluate(Policy, call.tool, call.input, call.override)
    <3>1. PICK answer \in Answers :
              /\ call.flow = "go"
              /\ Authorize(Policy, call.tool, call.input, call.override, answer) = "allow"
              /\ (decision = "prompt" /\ answer = "allow") => Ran(call) \in approved'
              /\ UNCHANGED call
      BY <1>1, <2>3 DEF AuthorizeCall
    <3>2. Ran(call).tool = call.tool /\ Ran(call).input = call.input
      BY DEF Ran
    <3> HIDE DEF decision
    <3>3. /\ ~DeniedOutright(Policy, call.tool, call.input)
          /\ \/ decision = "prompt" /\ answer = "allow"
             \/ /\ Granted(Policy, call.tool, call.input)
                /\ ~Matches(Policy.ask, call.tool, call.input)
      BY <3>1, AllowedFor DEF decision
    <3>4. Permitted(Ran(call), approved')
      BY <3>1, <3>2, <3>3 DEF Permitted
    <3> QED BY <3>1, <3>4
  <2> QED BY <2>2, <2>3 DEF PermitInv
<1>2. CASE ExecuteTool
  BY <1>2 DEF ExecuteTool, PermitInv
<1>3. CASE Abort \/ UNCHANGED vars
  BY <1>3 DEF Abort, vars, turnVars, historyVars, PermitInv
<1>4. CASE ProbeFails \/ StartTurn \/ UserPushFails \/ IterationLimit \/ StreamFails
           \/ AssistantPushFails \/ PreToolUseHook \/ PostToolUseHook \/ PushToolResult
           \/ ResultPushFails
  <2>1. UNCHANGED <<executed, approved>> /\ pc' # "execute"
    BY <1>4 DEF ProbeFails, StartTurn, UserPushFails, IterationLimit, StreamFails,
       AssistantPushFails, PreToolUseHook, PostToolUseHook, PushToolResult,
       ResultPushFails, EndTurn, historyVars
  <2> QED BY <2>1 DEF PermitInv
<1>5. CASE AssistantAnswers
  <2>1. UNCHANGED <<executed, approved>> /\ pc' # "execute"
    BY <1>5 DEF AssistantAnswers, AnswerWith, EndTurn
  <2> QED BY <2>1 DEF PermitInv
<1> QED
  BY <1>1, <1>2, <1>3, <1>4, <1>5 DEF Next, TurnStep

\* What a tool executor gets was let through for that very input, under any
\* policy, whatever the hooks rewrite and override.
THEOREM RunsArePermitted == Spec => []OnlyPermittedRuns
<1>1. Init => PermitInv
  BY DEF Init, PermitInv
<1>2. PermitInv => OnlyPermittedRuns
  BY DEF PermitInv, Permitted, OnlyPermittedRuns
<1> QED BY <1>1, <1>2, PermitNext, PTL DEF Spec

(***************************************************************************)
(* The abort.  Once a call has begun after the signal, every later one is  *)
(* cancelled by its pre-hook.                                              *)
(***************************************************************************)
AbortInv ==
    "pre" \in HookEvents =>
        /\ late = 0 \/ (late = 1 /\ aborted)
        /\ late = 1 => pc # "execute" /\ (pc = "authorize" => call.flow # "go")

LEMMA AbortNext == AbortInv /\ [Next]_vars => AbortInv'
<1> SUFFICES ASSUME AbortInv, [Next]_vars, "pre" \in HookEvents
             PROVE  /\ late' = 0 \/ (late' = 1 /\ aborted')
                    /\ late' = 1 => pc' # "execute" /\ (pc' = "authorize" => call'.flow # "go")
  BY DEF AbortInv
<1> USE DEF AbortInv
<1>1. CASE PreToolUseHook
  <2>1. UNCHANGED <<late, aborted>> /\ pc' = "authorize"
    BY <1>1 DEF PreToolUseHook, historyVars
  <2>2. ASSUME aborted PROVE call'.flow # "go"
    <3>1. \A v \in PreVerdicts(NextUse.input) : v.flow = "cancelled"
      BY <2>2 DEF PreVerdicts, HookFlows
    <3> QED BY <1>1, <3>1 DEF PreToolUseHook
  <2> QED BY <2>1, <2>2
<1>2. CASE AuthorizeCall
  <2>1. UNCHANGED <<late, aborted>> /\ pc = "authorize"
    BY <1>2 DEF AuthorizeCall
  <2>2. pc' = "push_result" \/ (pc' = "execute" /\ call.flow = "go")
    BY <1>2 DEF AuthorizeCall
  <2> QED BY <2>1, <2>2
<1>3. CASE ExecuteTool
  BY <1>3 DEF ExecuteTool
<1>4. CASE Abort \/ UNCHANGED vars
  BY <1>4 DEF Abort, vars, turnVars, historyVars
<1>5. CASE ProbeFails \/ StartTurn \/ UserPushFails \/ IterationLimit \/ StreamFails
           \/ AssistantPushFails \/ PostToolUseHook \/ PushToolResult \/ ResultPushFails
  <2>1. UNCHANGED <<late, aborted>> /\ pc' \notin {"execute", "authorize"}
    BY <1>5 DEF ProbeFails, StartTurn, UserPushFails, IterationLimit, StreamFails,
       AssistantPushFails, PostToolUseHook, PushToolResult,
       ResultPushFails, EndTurn, historyVars
  <2> QED BY <2>1
<1>6. CASE AssistantAnswers
  <2>1. UNCHANGED <<late, aborted>> /\ pc' \notin {"execute", "authorize"}
    BY <1>6 DEF AssistantAnswers, AnswerWith, EndTurn
  <2> QED BY <2>1
<1> QED
  BY <1>1, <1>2, <1>3, <1>4, <1>5, <1>6 DEF Next, TurnStep

\* An abort lets at most the call that is past its pre-hook run, however many
\* uses and iterations are left.
THEOREM AbortIsObeyed == Spec => []AbortStopsTools
<1>1. Init => AbortInv
  BY DEF Init, AbortInv
<1>2. AbortInv => AbortStopsTools
  BY DEF AbortInv, AbortStopsTools
<1> QED BY <1>1, <1>2, AbortNext, PTL DEF Spec

(***************************************************************************)
(* Results.  A call that no executor has seen carries the error flag from  *)
(* its refusal to its result.                                              *)
(***************************************************************************)
Seen(id, ran) == \E x \in ran : x.id = id

\* A result that is no error is of a call that ran.
Genuine(message, ran) ==
    StartsWithResult(message) /\ ~message.error => Seen(message.result, ran)

GenuineInv ==
    /\ \A i \in 1..Len(transcript) : Genuine(transcript[i], executed)
    /\ pc = "post_hook" => Seen(call.id, executed)
    /\ pc = "push_result" => call.error \/ Seen(call.id, executed)

LEMMA AppendKeepsGenuine ==
    ASSUME NEW log \in Seq(Message), NEW m \in Message, NEW ran,
           \A i \in 1..Len(log) : Genuine(log[i], ran), Genuine(m, ran)
    PROVE  \A i \in 1..Len(Append(log, m)) : Genuine(Append(log, m)[i], ran)
<1> DEFINE longer == Append(log, m)
<1>1. /\ Len(longer) = Len(log) + 1 /\ longer[Len(log) + 1] = m
      /\ \A i \in 1..Len(log) : longer[i] = log[i]
  BY AppendType
<1>2. Len(log) \in Nat
  OBVIOUS
<1> HIDE DEF longer
<1>3. ASSUME NEW i \in 1..Len(longer) PROVE Genuine(longer[i], ran)
  <2>1. CASE i = Len(log) + 1
    BY <1>1, <2>1
  <2>2. CASE i # Len(log) + 1
    <3>1. i \in 1..Len(log)
      BY <1>1, <1>2, <2>2
    <3> QED BY <1>1, <3>1
  <2> QED BY <2>1, <2>2
<1> QED BY <1>3 DEF longer

LEMMA GenuineNext == TypeInv /\ GenuineInv /\ [Next]_vars => GenuineInv'
<1> SUFFICES ASSUME TypeInv, GenuineInv, [Next]_vars PROVE GenuineInv'
  OBVIOUS
<1>0. transcript \in Seq(Message)
  BY DEF TypeInv, TypeOK
<1>1. CASE ProbeFails \/ UserPushFails \/ IterationLimit \/ StreamFails
           \/ AssistantPushFails \/ PreToolUseHook \/ ResultPushFails
  <2>1. /\ UNCHANGED <<transcript, executed>>
        /\ pc' # "post_hook" /\ pc' # "push_result"
    BY <1>1 DEF ProbeFails, UserPushFails, IterationLimit, StreamFails,
       AssistantPushFails, PreToolUseHook, ResultPushFails, EndTurn, historyVars
  <2> QED BY <2>1 DEF GenuineInv
<1>2. CASE StartTurn
  <2>1. /\ transcript' = Append(transcript, UserText(1)) /\ UNCHANGED executed
        /\ pc' = "loop"
    BY <1>2 DEF StartTurn, Push
  <2>2. UserText(1) \in Message /\ Genuine(UserText(1), executed)
    BY MessageTypes DEF UserText, Genuine, StartsWithResult
  <2>3. \A i \in 1..Len(transcript') : Genuine(transcript'[i], executed)
    BY <1>0, <2>1, <2>2, AppendKeepsGenuine DEF GenuineInv
  <2> QED BY <2>1, <2>3 DEF GenuineInv
<1>3. CASE AssistantAnswers
  <2>0. PICK tokens \in UsageTokens, n \in 0..MaxUses :
            \E w \in [1..n -> Tool \X Input] : AnswerWith(tokens, NewUses(w))
    BY <1>3 DEF AssistantAnswers
  <2>1. PICK wanted \in [1..n -> Tool \X Input] : AnswerWith(tokens, NewUses(wanted))
    BY <2>0
  <2> DEFINE uses == NewUses(wanted)
             message == AssistantMessage(uses, 1)
  <2>2. uses \in Seq(ToolUse)
    BY NewUsesType DEF TypeInv
  <2>3. /\ transcript' = Append(transcript, message) /\ UNCHANGED executed
        /\ pc' # "post_hook" /\ pc' # "push_result"
    BY <1>3, <2>1 DEF AssistantAnswers, AnswerWith, EndTurn
  <2> HIDE DEF uses
  <2>4. message \in Message /\ Genuine(message, executed)
    BY <2>2, MessageTypes DEF AssistantMessage, Genuine, StartsWithResult
  <2> HIDE DEF message
  <2>5. \A i \in 1..Len(transcript') : Genuine(transcript'[i], executed)
    BY <1>0, <2>3, <2>4, AppendKeepsGenuine DEF GenuineInv
  <2> QED BY <2>3, <2>5 DEF GenuineInv
<1>4. CASE AuthorizeCall
  <2>1. call \in CallType
    BY <1>4 DEF AuthorizeCall, TypeInv, CallInUse, ToolPcs
  <2>2. Refused(call).error
    BY <2>1 DEF Refused, CallType
  <2>3. /\ UNCHANGED <<transcript, executed>>
        /\ pc' # "post_hook" /\ (pc' = "push_result" => call' = Refused(call))
    BY <1>4 DEF AuthorizeCall
  <2> QED BY <2>2, <2>3, Zenon DEF GenuineInv
<1>5. CASE ExecuteTool
  <2>1. call \in CallType
    BY <1>5 DEF ExecuteTool, TypeInv, CallInUse, ToolPcs
  <2>2. /\ executed' = executed \cup {Ran(call)} /\ UNCHANGED transcript
        /\ pc' = "post_hook" /\ call'.id = call.id
    BY <1>5, <2>1 DEF ExecuteTool, CallType
  <2>3. \A id : Seen(id, executed) => Seen(id, executed')
    BY <2>2 DEF Seen
  <2>4. Seen(call'.id, executed')
    <3>1. Ran(call).id = call.id /\ Ran(call) \in executed'
      BY <2>2 DEF Ran
    <3> QED BY <2>2, <3>1 DEF Seen
  <2>5. \A m : Genuine(m, executed) => Genuine(m, executed')
    BY <2>3, Zenon DEF Genuine
  <2>6. \A i \in 1..Len(transcript') : Genuine(transcript'[i], executed')
    BY <2>2, <2>5 DEF GenuineInv
  <2> QED BY <2>2, <2>4, <2>6 DEF GenuineInv
<1>6. CASE PostToolUseHook
  <2>1. call \in CallType
    BY <1>6 DEF PostToolUseHook, TypeInv, CallInUse, ToolPcs
  <2>2. /\ UNCHANGED <<transcript, executed>> /\ pc = "post_hook"
        /\ pc' = "push_result" /\ call'.id = call.id
    BY <1>6, <2>1 DEF PostToolUseHook, CallType, historyVars
  <2> QED BY <2>2 DEF GenuineInv
<1>7. CASE PushToolResult
  <2> DEFINE result == ToolResult(call.id, call.error, 1)
  <2>1. call \in CallType /\ pc = "push_result"
    BY <1>7 DEF PushToolResult, TypeInv, CallInUse, ToolPcs
  <2>2. /\ result \in Message /\ result.result = call.id /\ result.error = call.error
    BY <2>1, MessageTypes DEF ToolResult, CallType
  <2>3. /\ transcript' = Append(transcript, result) /\ UNCHANGED executed
        /\ pc' # "post_hook" /\ pc' # "push_result"
    BY <1>7 DEF PushToolResult, Push
  <2> HIDE DEF result
  <2>4. Genuine(result, executed)
    BY <2>1, <2>2 DEF Genuine, GenuineInv
  <2>5. \A i \in 1..Len(transcript') : Genuine(transcript'[i], executed)
    BY <1>0, <2>2, <2>3, <2>4, AppendKeepsGenuine DEF GenuineInv
  <2> QED BY <2>3, <2>5 DEF GenuineInv
<1>8. CASE Abort \/ UNCHANGED vars
  BY <1>8 DEF Abort, vars, turnVars, historyVars, GenuineInv
<1> QED
  BY <1>1, <1>2, <1>3, <1>4, <1>5, <1>6, <1>7, <1>8 DEF Next, TurnStep

\* The model is never told of a success that did not happen.
THEOREM SuccessesHappened == Spec => []NoPhantomSuccess
<1>1. Init => TypeInv /\ GenuineInv
  <2>1. Init => transcript = << >> /\ pc = "idle"
    BY DEF Init
  <2> QED BY <2>1, TypeInit DEF GenuineInv
<1>2. TypeInv /\ GenuineInv /\ [Next]_vars => (TypeInv /\ GenuineInv)'
  BY TypeNext, GenuineNext
<1>3. GenuineInv => NoPhantomSuccess
  BY DEF GenuineInv, Genuine, Seen, NoPhantomSuccess
<1> QED BY <1>1, <1>2, <1>3, PTL DEF Spec

(***************************************************************************)
(* Order.  A use whose result is missing will get it in its own place: the *)
(* results still to come are those of the pending uses, from the end of    *)
(* the transcript on.  A compaction moves both by the same distance.       *)
(***************************************************************************)
AnsweredIn(msgs, i, u) ==
    i + u <= Len(msgs) /\ msgs[i + u].result = msgs[i].uses[u].id

Awaited(msgs, uses, i, u) ==
    \E v \in 1..Len(uses) :
        i + u = Len(msgs) + v /\ uses[v].id = msgs[i].uses[u].id

Settled(msgs, uses, lost) ==
    \A i \in 1..Len(msgs) : \A u \in 1..Len(msgs[i].uses) :
        \/ msgs[i].uses[u].id \in lost
        \/ AnsweredIn(msgs, i, u)
        \/ Awaited(msgs, uses, i, u)

OrderInv ==
    /\ Settled(messages, pending, dropped)
    /\ pc \notin ToolPcs => pending = << >>

LEMMA UsesType ==
    ASSUME NEW msgs \in Seq(Message), NEW i \in 1..Len(msgs)
    PROVE  msgs[i].uses \in Seq(ToolUse) /\ Len(msgs[i].uses) \in Nat
<1>1. msgs[i] \in Message
  OBVIOUS
<1>2. msgs[i].uses \in Seq(ToolUse)
  BY <1>1 DEF Message
<1> QED BY <1>2

\* A new message waits for the results of its own uses.
LEMMA AppendSettles ==
    ASSUME NEW msgs \in Seq(Message), NEW m \in Message, NEW lost,
           Settled(msgs, << >>, lost)
    PROVE  Settled(Append(msgs, m), m.uses, lost)
<1> DEFINE longer == Append(msgs, m)
<1>1. /\ longer \in Seq(Message) /\ Len(longer) = Len(msgs) + 1
      /\ longer[Len(msgs) + 1] = m
      /\ \A i \in 1..Len(msgs) : longer[i] = msgs[i]
  BY AppendType
<1>2. Len(msgs) \in Nat
  OBVIOUS
<1> HIDE DEF longer
<1>3. ASSUME NEW i \in 1..Len(longer), NEW u \in 1..Len(longer[i].uses)
      PROVE  \/ longer[i].uses[u].id \in lost
             \/ AnsweredIn(longer, i, u)
             \/ Awaited(longer, m.uses, i, u)
  <2>0. Len(longer[i].uses) \in Nat
    BY <1>1, UsesType
  <2>1. CASE i \in 1..Len(msgs)
    <3>1. longer[i] = msgs[i]
      BY <1>1, <2>1
    <3>2. msgs[i].uses[u].id \in lost \/ AnsweredIn(msgs, i, u) \/ Awaited(msgs, << >>, i, u)
      BY <2>1, <3>1 DEF Settled
    <3>3. ~Awaited(msgs, << >>, i, u)
      BY DEF Awaited
    <3>4. AnsweredIn(msgs, i, u) => AnsweredIn(longer, i, u)
      <4> SUFFICES ASSUME AnsweredIn(msgs, i, u) PROVE AnsweredIn(longer, i, u)
        OBVIOUS
      <4>1. i + u \in 1..Len(msgs)
        BY <1>2, <2>0, <2>1 DEF AnsweredIn
      <4> QED BY <1>1, <1>2, <3>1, <4>1 DEF AnsweredIn
    <3> QED BY <3>1, <3>2, <3>3, <3>4
  <2>2. CASE i = Len(msgs) + 1
    <3>1. u \in 1..Len(m.uses) /\ longer[i] = m /\ i + u = Len(longer) + u
      BY <1>1, <2>2
    <3> QED BY <3>1 DEF Awaited
  <2> QED BY <1>1, <1>2, <2>1, <2>2
<1> QED BY <1>3 DEF Settled, longer

\* The result of the first pending use takes the place that waits for it.
LEMMA AnswerSettles ==
    ASSUME NEW msgs \in Seq(Message), NEW m \in Message, NEW lost,
           NEW uses \in Seq(ToolUse), uses # << >>,
           m.result = uses[1].id, m.uses = << >>, Settled(msgs, uses, lost)
    PROVE  Settled(Append(msgs, m), Tail(uses), lost)
<1> DEFINE longer == Append(msgs, m)
           rest == Tail(uses)
<1>1. /\ longer \in Seq(Message) /\ Len(longer) = Len(msgs) + 1
      /\ longer[Len(msgs) + 1] = m
      /\ \A i \in 1..Len(msgs) : longer[i] = msgs[i]
  BY AppendType
<1>2. Len(msgs) \in Nat /\ Len(uses) \in Nat
  OBVIOUS
<1>3. Len(rest) = Len(uses) - 1 /\ \A v \in 1..Len(rest) : rest[v] = uses[v + 1]
  BY HeadTailProperties
<1> HIDE DEF longer, rest
<1>4. ASSUME NEW i \in 1..Len(longer), NEW u \in 1..Len(longer[i].uses)
      PROVE  \/ longer[i].uses[u].id \in lost
             \/ AnsweredIn(longer, i, u)
             \/ Awaited(longer, rest, i, u)
  <2>1. i \in 1..Len(msgs) /\ longer[i] = msgs[i]
    <3>1. i # Len(msgs) + 1
      <4>1. Len(<< >>) = 0
        OBVIOUS
      <4> QED BY <1>1, <4>1
    <3>2. i \in 1..Len(msgs)
      BY <1>1, <1>2, <3>1
    <3> QED BY <1>1, <3>2
  <2>2. Len(msgs[i].uses) \in Nat /\ u \in 1..Len(msgs[i].uses)
    BY <2>1, UsesType
  <2>3. CASE AnsweredIn(msgs, i, u)
    <3>1. i + u \in 1..Len(msgs)
      BY <1>2, <2>1, <2>2, <2>3 DEF AnsweredIn
    <3> QED BY <1>1, <1>2, <2>1, <2>3, <3>1 DEF AnsweredIn
  <2>4. CASE Awaited(msgs, uses, i, u)
    <3>1. PICK v \in 1..Len(uses) :
              i + u = Len(msgs) + v /\ uses[v].id = msgs[i].uses[u].id
      BY <2>4 DEF Awaited
    <3>2. CASE v = 1
      BY <1>1, <1>2, <2>1, <3>1, <3>2 DEF AnsweredIn
    <3>3. CASE v # 1
      <4>1. v - 1 \in 1..Len(rest) /\ rest[v - 1] = uses[v]
        BY <1>2, <1>3, <3>3
      <4>2. i + u = Len(longer) + (v - 1)
        BY <1>1, <1>2, <3>1
      <4> QED BY <2>1, <3>1, <4>1, <4>2 DEF Awaited
    <3> QED BY <3>2, <3>3
  <2>5. msgs[i].uses[u].id \in lost \/ AnsweredIn(msgs, i, u) \/ Awaited(msgs, uses, i, u)
    BY <2>1, <2>2 DEF Settled
  <2> QED BY <2>1, <2>3, <2>4, <2>5
<1> QED BY <1>4 DEF Settled, longer, rest

LEMMA TailSettles ==
    ASSUME NEW msgs \in Seq(Message), NEW k \in 0..Len(msgs), NEW lost,
           NEW uses \in Seq(ToolUse), Settled(msgs, uses, lost)
    PROVE  Settled(<<SystemText(TRUE, 1)>> \o SubSeq(msgs, k + 1, Len(msgs)), uses, lost)
<1> DEFINE tail == <<SystemText(TRUE, 1)>> \o SubSeq(msgs, k + 1, Len(msgs))
<1>1. /\ tail \in Seq(Message) /\ Len(tail) = 1 + Len(msgs) - k
      /\ tail[1] = SystemText(TRUE, 1)
      /\ \A i \in 2..Len(tail) : tail[i] = msgs[i - 1 + k]
  BY TailType
<1>2. Len(msgs) \in Nat /\ Len(uses) \in Nat
  OBVIOUS
<1> HIDE DEF tail
<1>3. ASSUME NEW i \in 1..Len(tail), NEW u \in 1..Len(tail[i].uses)
      PROVE  \/ tail[i].uses[u].id \in lost
             \/ AnsweredIn(tail, i, u)
             \/ Awaited(tail, uses, i, u)
  <2> DEFINE o == i - 1 + k
  <2>1. i # 1
    <3> SUFFICES ASSUME i = 1 PROVE FALSE
      OBVIOUS
    <3>1. tail[i].uses = << >> /\ Len(<< >>) = 0
      BY <1>1 DEF SystemText
    <3>2. Len(tail[i].uses) = 0
      BY <3>1, Zenon
    <3> QED BY <3>2
  <2>2. i \in 2..Len(tail) /\ o \in 1..Len(msgs) /\ tail[i] = msgs[o]
    BY <1>1, <1>2, <2>1
  <2>3. Len(msgs[o].uses) \in Nat /\ u \in 1..Len(msgs[o].uses)
    BY <2>2, UsesType
  <2>4. msgs[o].uses[u].id \in lost \/ AnsweredIn(msgs, o, u) \/ Awaited(msgs, uses, o, u)
    BY <2>2, <2>3 DEF Settled
  <2>7. /\ i \in Nat /\ k \in Nat /\ u \in Nat /\ u > 0 /\ o = i - 1 + k
         /\ Len(tail) = 1 + Len(msgs) - k
    BY <1>1, <2>2, <2>3
  <2> HIDE DEF o
  <2>5. CASE AnsweredIn(msgs, o, u)
    <3>1. o + u <= Len(msgs) /\ msgs[o + u].result = msgs[o].uses[u].id
      BY <2>5 DEF AnsweredIn
    <3>2. i + u \in 2..Len(tail) /\ (i + u) - 1 + k = o + u
      <4>1. o + u <= Len(msgs)
        BY <3>1
      <4>2. i >= 2
        BY <2>2
      <4> QED BY <1>2, <2>7, <4>1, <4>2
    <3>3. tail[i + u] = msgs[o + u]
      BY <1>1, <3>2, Zenon
    <3>4. i + u <= Len(tail) /\ tail[i + u].result = tail[i].uses[u].id
      BY <1>1, <2>2, <3>1, <3>2, <3>3
    <3> QED BY <3>4 DEF AnsweredIn
  <2>6. CASE Awaited(msgs, uses, o, u)
    <3>1. PICK v \in 1..Len(uses) :
              o + u = Len(msgs) + v /\ uses[v].id = msgs[o].uses[u].id
      BY <2>6 DEF Awaited
    <3>2. i + u = Len(tail) + v
      <4>1. o + u = Len(msgs) + v /\ v \in Nat
        BY <1>2, <3>1
      <4> QED BY <1>2, <2>7, <4>1
    <3> QED BY <2>2, <3>1, <3>2 DEF Awaited
  <2> QED BY <2>2, <2>4, <2>5, <2>6
<1> QED BY <1>3 DEF Settled, tail

LEMMA AutoCompactSettles ==
    ASSUME NEW msgs \in Seq(Message), NEW tokens \in Nat, NEW lost,
           NEW uses \in Seq(ToolUse), Settled(msgs, uses, lost)
    PROVE  Settled(MaybeAutoCompact(msgs, tokens).messages, uses, lost)
<1> DEFINE result == CompactSession(msgs, PreserveRecent, 0)
           tail(k) == <<SystemText(TRUE, 1)>> \o SubSeq(msgs, k + 1, Len(msgs))
<1>1. \/ result = [messages |-> msgs, removed |-> 0]
      \/ \E k \in PrefixLen(msgs)..RawKeepFrom(msgs, PreserveRecent) :
            /\ SafeCut(msgs, k)
            /\ result = [messages |-> tail(k), removed |-> k - PrefixLen(msgs)]
  <2>1. PreserveRecent \in Nat /\ 0 \in Nat
    BY DEF PreserveRecent
  <2> QED BY <2>1, CompactSessionIsTail, Zenon
<1>2. PrefixLen(msgs) \in Nat /\ RawKeepFrom(msgs, PreserveRecent) \in 0..Len(msgs)
  BY RawKeepFromType DEF PrefixLen, PreserveRecent
<1>3. \A k \in PrefixLen(msgs)..RawKeepFrom(msgs, PreserveRecent) :
          Settled(tail(k), uses, lost)
  <2> TAKE k \in PrefixLen(msgs)..RawKeepFrom(msgs, PreserveRecent)
  <2>1. k \in 0..Len(msgs)
    BY <1>2
  <2> QED BY <2>1, TailSettles
<1> HIDE DEF result, tail
<1>4. Settled(result.messages, uses, lost)
  BY <1>1, <1>3
<1> QED BY <1>4 DEF MaybeAutoCompact, result

LEMMA OrderNext == TypeInv /\ OrderInv /\ [Next]_vars => OrderInv'
<1> SUFFICES ASSUME TypeInv, OrderInv, [Next]_vars PROVE OrderInv'
  OBVIOUS
<1>0. messages \in Seq(Message) /\ pending \in Seq(ToolUse)
  BY DEF TypeInv, TypeOK
<1>1. CASE ProbeFails \/ UserPushFails \/ IterationLimit \/ StreamFails \/ AssistantPushFails
  <2>1. UNCHANGED <<messages, dropped>> /\ pending' = << >> /\ pc' = "idle"
    BY <1>1 DEF ProbeFails, UserPushFails, IterationLimit, StreamFails, AssistantPushFails,
       EndTurn, historyVars
  <2>2. pending = << >>
    BY <1>1 DEF ProbeFails, UserPushFails, IterationLimit, StreamFails, AssistantPushFails,
       OrderInv, ToolPcs
  <2> QED BY <2>1, <2>2 DEF OrderInv
<1>2. CASE StartTurn
  <2>1. /\ messages' = Append(messages, UserText(1)) /\ pc' = "loop"
        /\ UNCHANGED <<pending, dropped>> /\ pending = << >>
    BY <1>2 DEF StartTurn, Push, OrderInv, ToolPcs
  <2>2. UserText(1) \in Message /\ UserText(1).uses = << >>
    BY MessageTypes DEF UserText
  <2>3. Settled(messages', << >>, dropped)
    BY <1>0, <2>1, <2>2, AppendSettles DEF OrderInv
  <2> QED BY <2>1, <2>3 DEF OrderInv
<1>3. CASE AssistantAnswers
  <2>0. PICK tokens \in UsageTokens, n \in 0..MaxUses :
            \E w \in [1..n -> Tool \X Input] : AnswerWith(tokens, NewUses(w))
    BY <1>3 DEF AssistantAnswers
  <2>1. PICK wanted \in [1..n -> Tool \X Input] : AnswerWith(tokens, NewUses(wanted))
    BY <2>0
  <2> DEFINE uses == NewUses(wanted)
             message == AssistantMessage(uses, 1)
             longer == Append(messages, message)
             new == MaybeAutoCompact(longer, inputTokens + tokens).messages
  <2>2. uses \in Seq(ToolUse) /\ inputTokens + tokens \in Nat
    <3>1. uses \in Seq(ToolUse)
      BY NewUsesType DEF TypeInv
    <3>2. inputTokens + tokens \in Nat
      BY ConversationAssumption DEF TypeInv, TypeOK
    <3> QED BY <3>1, <3>2
  <2>3. messages' = new /\ UNCHANGED dropped /\ pc = "loop"
    BY <1>3, <2>1 DEF AnswerWith, AssistantAnswers
  <2>4. \/ pc' = "idle" /\ pending' = << >> /\ uses = << >>
        \/ pc' = "pre_hook" /\ pending' = uses
    BY <2>1 DEF AnswerWith, EndTurn
  <2> HIDE DEF uses
  <2>5. message \in Message /\ message.uses = uses
    BY <2>2, MessageTypes DEF AssistantMessage
  <2> HIDE DEF message
  <2>6. Settled(longer, uses, dropped)
    <3>1. Settled(messages, << >>, dropped)
      BY <2>3 DEF OrderInv, ToolPcs
    <3>2. Settled(longer, message.uses, dropped)
      BY <1>0, <2>5, <3>1, AppendSettles
    <3> QED BY <2>5, <3>2
  <2>7. longer \in Seq(Message)
    BY <1>0, <2>5, AppendType
  <2> HIDE DEF longer
  <2>8. Settled(new, uses, dropped)
    BY <2>2, <2>6, <2>7, AutoCompactSettles
  <2> HIDE DEF new
  <2> QED BY <2>3, <2>4, <2>8 DEF OrderInv, ToolPcs
<1>4. CASE PreToolUseHook \/ AuthorizeCall \/ ExecuteTool \/ PostToolUseHook
  <2>1. UNCHANGED <<messages, pending, dropped>> /\ pc' \in ToolPcs
    BY <1>4 DEF PreToolUseHook, AuthorizeCall, ExecuteTool, PostToolUseHook, ToolPcs,
       historyVars
  <2> QED BY <2>1 DEF OrderInv
<1>5. CASE PushToolResult
  <2> DEFINE result == ToolResult(call.id, call.error, 1)
  <2>1. call \in CallType /\ call.id = pending[1].id /\ pending # << >>
    BY <1>5 DEF PushToolResult, TypeInv, CallInUse, ToolPcs
  <2>2. result \in Message /\ result.result = call.id /\ result.uses = << >>
    BY <2>1, MessageTypes DEF ToolResult, CallType
  <2>3. /\ messages' = Append(messages, result) /\ pending' = Tail(pending)
        /\ UNCHANGED dropped
        /\ pc' = IF Len(pending) = 1 THEN "loop" ELSE "pre_hook"
    BY <1>5 DEF PushToolResult, Push
  <2> HIDE DEF result
  <2>4. Settled(messages', pending', dropped')
    BY <1>0, <2>1, <2>2, <2>3, AnswerSettles DEF OrderInv
  <2>5. pc' \notin ToolPcs => pending' = << >>
    <3> SUFFICES ASSUME pc' \notin ToolPcs PROVE Tail(pending) = << >>
      BY <2>3
    <3>1. Len(pending) = 1
      BY <2>3 DEF ToolPcs
    <3>2. Tail(pending) \in Seq(ToolUse) /\ Len(Tail(pending)) = 0
      BY <1>0, <2>1, <3>1, HeadTailProperties
    <3> QED BY <3>2, EmptySeq
  <2> QED BY <2>4, <2>5 DEF OrderInv
<1>6. CASE ResultPushFails
  <2>1. /\ UNCHANGED messages /\ pending' = << >> /\ pc' = "idle"
        /\ dropped' = dropped \cup {pending[u].id : u \in 1..Len(pending)}
    BY <1>6 DEF ResultPushFails, EndTurn
  <2>2. ASSUME NEW i \in 1..Len(messages), NEW u \in 1..Len(messages[i].uses)
        PROVE  messages[i].uses[u].id \in dropped' \/ AnsweredIn(messages, i, u)
    <3>1. \/ messages[i].uses[u].id \in dropped
          \/ AnsweredIn(messages, i, u)
          \/ Awaited(messages, pending, i, u)
      BY DEF OrderInv, Settled
    <3>2. Awaited(messages, pending, i, u) => messages[i].uses[u].id \in dropped'
      BY <2>1 DEF Awaited
    <3> QED BY <2>1, <3>1, <3>2
  <2>3. Settled(messages, pending', dropped')
    BY <2>2 DEF Settled
  <2> QED BY <2>1, <2>3 DEF OrderInv, ToolPcs
<1>7. CASE Abort \/ UNCHANGED vars
  <2>1. UNCHANGED <<messages, pending, pc, dropped>>
    BY <1>7 DEF Abort, vars, turnVars, historyVars
  <2> QED BY <2>1 DEF OrderInv
<1> QED
  BY <1>1, <1>2, <1>3, <1>4, <1>5, <1>6, <1>7 DEF Next, TurnStep

\* A request answers every use it shows in its place, through any compaction,
\* unless a failed push ended the turn.
THEOREM AnswersAreInOrder == Spec => []UsesAnsweredInOrder
<1>1. Init => TypeInv /\ OrderInv
  <2>1. Init => messages = << >> /\ pending = << >>
    BY DEF Init
  <2>2. Settled(<< >>, << >>, dropped)
    BY DEF Settled
  <2> QED BY <2>1, <2>2, TypeInit DEF OrderInv
<1>2. TypeInv /\ OrderInv /\ [Next]_vars => (TypeInv /\ OrderInv)'
  BY TypeNext, OrderNext
<1>3. OrderInv => UsesAnsweredInOrder
  <2> SUFFICES ASSUME OrderInv, pc = "loop",
                      NEW i \in 1..Len(messages), NEW u \in 1..Len(messages[i].uses)
               PROVE  messages[i].uses[u].id \in dropped \/ Answered(i, u)
    BY DEF UsesAnsweredInOrder
  <2>1. Settled(messages, << >>, dropped)
    BY DEF OrderInv, ToolPcs
  <2>2. ~Awaited(messages, << >>, i, u)
    BY DEF Awaited
  <2> QED BY <2>1, <2>2 DEF Settled, AnsweredIn, Answered
<1> QED BY <1>1, <1>2, <1>3, PTL DEF Spec

----------------------------------------------------------------------------
(***************************************************************************)
(* III.  run_turn implements Transcript: for any policy, hooks, bounds and *)
(* compactions, what the model is sent is the whole log, or one summary    *)
(* and an uncut suffix.                                                    *)
(***************************************************************************)

Continuation == SystemText(TRUE, 1)

\* No entry of the log is taken for a summary, and the first, the user's, asks
\* for nothing.
PlainLog(l) ==
    /\ \A i \in 1..Len(l) : ~l[i].summary
    /\ l # << >> => l[1].uses = << >>

ViewInv ==
    /\ summarised \in 0..Len(transcript)
    /\ messages = Log!View(transcript, summarised)
    /\ PlainLog(transcript)
    /\ pc # "idle" => transcript # << >>

----------------------------------------------------------------------------
LEMMA ViewOfAll == ASSUME NEW l \in Seq(Message) PROVE Log!View(l, 0) = l
<1>1. SubSeq(l, 1, Len(l)) = l
  BY SubSeqFull
<1>2. << >> \o l = l
  BY ConcatEmptySeq
<1> QED BY <1>1, <1>2 DEF Log!View

LEMMA ViewOfTail ==
    ASSUME NEW l \in Seq(Message), NEW h \in 1..Len(l)
    PROVE  Log!View(l, h) = <<Continuation>> \o SubSeq(l, h + 1, Len(l))
<1>1. h # 0
  OBVIOUS
<1> QED BY <1>1, Zenon DEF Log!View, Continuation

\* Where a view shows what; the log's length is told from the view's.
LEMMA ViewShape ==
    ASSUME NEW l \in Seq(Message), NEW h \in 0..Len(l), PlainLog(l), NEW v, v = Log!View(l, h)
    PROVE  /\ v \in Seq(Message)
           /\ PrefixLen(v) = IF h = 0 THEN 0 ELSE 1
           /\ Len(v) = PrefixLen(v) + Len(l) - h
           /\ \A i \in (PrefixLen(v) + 1)..Len(v) : v[i] = l[i - PrefixLen(v) + h]
           /\ h # 0 => v[1] = Continuation
<1>0. Len(l) \in Nat
  OBVIOUS
<1>1. CASE h = 0
  <2>1. v = l
    BY <1>1, ViewOfAll
  <2>2. PrefixLen(l) = 0
    <3>1. l # << >> => 1 \in 1..Len(l)
      BY EmptySeq
    <3> QED BY <3>1 DEF PrefixLen, PlainLog
  <2> QED BY <1>0, <1>1, <2>1, <2>2
<1>2. CASE h # 0
  <2>1. h \in 1..Len(l)
    BY <1>2
  <2>2. v = <<Continuation>> \o SubSeq(l, h + 1, Len(l))
    BY <2>1, ViewOfTail
  <2>3. /\ v \in Seq(Message) /\ Len(v) = 1 + Len(l) - h /\ v[1] = Continuation
        /\ \A i \in 2..Len(v) : v[i] = l[i - 1 + h]
    BY <2>2, TailType, ZenonT(60) DEF Continuation
  <2>4. v # << >>
    <3>1. Len(v) # 0 /\ Len(<< >>) = 0
      BY <1>0, <2>3
    <3> QED BY <3>1, Zenon
  <2>5. PrefixLen(v) = 1
    BY <2>3, <2>4 DEF PrefixLen, Continuation, SystemText
  <2> QED BY <1>2, <2>3, <2>5
<1> QED BY <1>1, <1>2

LEMMA PlainAppend ==
    ASSUME NEW l \in Seq(Message), PlainLog(l), NEW m \in Message, ~m.summary,
           l = << >> => m.uses = << >>
    PROVE  PlainLog(Append(l, m)) /\ Append(l, m) \in Seq(Message)
<1> DEFINE longer == Append(l, m)
<1>1. /\ longer \in Seq(Message) /\ Len(longer) = Len(l) + 1
      /\ longer[Len(l) + 1] = m
      /\ \A i \in 1..Len(l) : longer[i] = l[i]
  BY AppendType
<1>2. Len(l) \in Nat
  OBVIOUS
<1> HIDE DEF longer
<1>3. \A i \in 1..Len(longer) : ~longer[i].summary
  <2> TAKE i \in 1..Len(longer)
  <2>1. CASE i = Len(l) + 1
    BY <1>1, <2>1
  <2>2. CASE i # Len(l) + 1
    <3>1. i \in 1..Len(l)
      BY <1>1, <1>2, <2>2
    <3> QED BY <1>1, <3>1 DEF PlainLog
  <2> QED BY <2>1, <2>2
<1>4. longer[1].uses = << >>
  <2>1. CASE l = << >>
    <3>1. Len(l) = 0
      BY <2>1, EmptySeq
    <3> QED BY <1>1, <2>1, <3>1
  <2>2. CASE l # << >>
    <3>1. 1 \in 1..Len(l)
      BY <2>2, EmptySeq
    <3> QED BY <1>1, <2>2, <3>1 DEF PlainLog
  <2> QED BY <2>1, <2>2
<1> QED BY <1>1, <1>3, <1>4 DEF PlainLog, longer

\* A push extends log and view alike.
LEMMA ViewOfAppend ==
    ASSUME NEW l \in Seq(Message), NEW h \in 0..Len(l), NEW m \in Message
    PROVE  Log!View(Append(l, m), h) = Append(Log!View(l, h), m)
<1> DEFINE longer == Append(l, m)
<1>1. longer \in Seq(Message) /\ Len(longer) = Len(l) + 1 /\ Len(l) \in Nat
      /\ longer = l \o <<m>>
  BY AppendType, AppendIsConcat
<1>2. CASE h = 0
  BY <1>1, <1>2, ViewOfAll
<1>3. CASE h # 0
  <2> DEFINE before == SubSeq(l, h + 1, Len(l))
             after == SubSeq(longer, h + 1, Len(longer))
  <2>1. /\ before \in Seq(Message) /\ Len(before) = Len(l) - h
        /\ \A i \in 1..Len(before) : before[i] = l[i + h]
    BY <1>3
  <2>2. /\ after \in Seq(Message) /\ Len(after) = Len(l) + 1 - h
        /\ \A i \in 1..Len(after) : after[i] = longer[i + h]
    BY <1>1, <1>3
  <2>3. /\ Append(before, m) \in Seq(Message)
        /\ Len(Append(before, m)) = Len(before) + 1
        /\ Append(before, m)[Len(before) + 1] = m
        /\ \A i \in 1..Len(before) : Append(before, m)[i] = before[i]
    BY <2>1, AppendType
  <2>4. longer[Len(l) + 1] = m /\ \A i \in 1..Len(l) : longer[i] = l[i]
    BY AppendType
  <2> DEFINE added == Append(before, m)
  <2> HIDE DEF before, after, longer
  <2>5. added \in Seq(Message) /\ Len(added) = Len(after)
    BY <1>1, <1>3, <2>1, <2>2, <2>3
  <2>6. \A i \in 1..Len(after) : after[i] = added[i]
    <3> TAKE i \in 1..Len(after)
    <3>1. CASE i \in 1..Len(before)
      <4>1. i + h \in 1..Len(l)
        BY <1>1, <1>3, <2>1, <3>1
      <4> QED BY <2>1, <2>2, <2>3, <2>4, <3>1, <4>1
    <3>2. CASE i = Len(before) + 1
      <4>1. i + h = Len(l) + 1
        BY <1>1, <1>3, <2>1, <3>2
      <4> QED BY <2>2, <2>3, <2>4, <3>2, <4>1
    <3> QED BY <1>1, <1>3, <2>1, <2>2, <3>1, <3>2
  <2> HIDE DEF added
  <2>7. after = added
    <3>1. after \in Seq(Message) /\ \A i \in 1..Len(after) : after[i] = added[i]
      BY <2>2, <2>6
    <3> QED BY <2>5, <3>1, SeqEqual, Zenon
  <2>8. Continuation \in Message
    BY SummaryType DEF Continuation
  <2>9. /\ Log!View(l, h) = <<Continuation>> \o before
        /\ Log!View(longer, h) = <<Continuation>> \o after
    <3>1. h \in 1..Len(l) /\ h \in 1..Len(longer)
      BY <1>1, <1>3
    <3>2. Log!View(l, h) = <<Continuation>> \o before
      BY <3>1, ViewOfTail DEF before
    <3>3. Log!View(longer, h) = <<Continuation>> \o after
      BY <1>1, <3>1, ViewOfTail DEF after
    <3> QED BY <3>2, <3>3
  <2>10. <<Continuation>> \o added = Append(<<Continuation>> \o before, m)
    <3>1. added = before \o <<m>>
      BY <2>1, AppendIsConcat DEF added
    <3>2. /\ <<Continuation>> \in Seq(Message) /\ <<m>> \in Seq(Message)
          /\ <<Continuation>> \o before \in Seq(Message)
      BY <2>1, <2>8, ConcatProperties
    <3>3. (<<Continuation>> \o before) \o <<m>> = <<Continuation>> \o (before \o <<m>>)
      BY <2>1, <3>2, ConcatAssociative
    <3>4. Append(<<Continuation>> \o before, m) = (<<Continuation>> \o before) \o <<m>>
      BY <3>2, AppendIsConcat
    <3> QED BY <3>1, <3>3, <3>4
  <2> QED BY <2>7, <2>9, <2>10 DEF longer
<1> QED BY <1>2, <1>3

\* A compaction hides more of the log, up to an entry that is no result: never
\* nothing behind a summary, since the first entry asks for nothing.
LEMMA CompactionHidesMore ==
    ASSUME NEW l \in Seq(Message), NEW h \in 0..Len(l), PlainLog(l), l # << >>,
           NEW v, v = Log!View(l, h), WellPaired(v), NEW tokens \in Nat
    PROVE  \E h2 \in h..Len(l) :
              /\ MaybeAutoCompact(v, tokens).messages = Log!View(l, h2)
              /\ h2 = h \/ Log!Boundary(l, h2)
<1> DEFINE result == CompactSession(v, PreserveRecent, 0)
           raw == RawKeepFrom(v, PreserveRecent)
           k == KeepFrom(v, PreserveRecent)
           p == PrefixLen(v)
<1>1. /\ v \in Seq(Message)
      /\ p = IF h = 0 THEN 0 ELSE 1
      /\ Len(v) = p + Len(l) - h
      /\ \A i \in (p + 1)..Len(v) : v[i] = l[i - p + h]
  BY ViewShape
<1>2. Len(l) \in Nat /\ Len(v) \in Nat /\ h \in Nat /\ h <= Len(l) /\ PreserveRecent = 4
      /\ p \in Nat
  BY <1>1 DEF PreserveRecent
<1>3. CASE ~ShouldCompact(v, PreserveRecent, 0) \/ tokens < Threshold
  <2>1. MaybeAutoCompact(v, tokens).messages = v
    BY <1>3 DEF MaybeAutoCompact, CompactSession
  <2> QED BY <1>2, <2>1
<1>4. CASE ShouldCompact(v, PreserveRecent, 0) /\ ~(tokens < Threshold)
  <2>1. Len(v) - p > 4
    BY <1>2, <1>4 DEF ShouldCompact
  <2>2. raw = Len(v) - 4 /\ raw > p
    <3>1. ~(PreserveRecent >= Len(v))
      BY <1>2, <2>1
    <3>2. raw = Len(v) - PreserveRecent
      BY <3>1 DEF RawKeepFrom
    <3> QED BY <1>2, <2>1, <3>2
  <2>3. k \in 0..raw /\ SafeCut(v, k) /\ \A j \in (k + 1)..raw : ~SafeCut(v, j)
    BY <1>1, <1>2, KeepFromIsSafe
  <2>4. k >= p
    <3>1. p <= raw
      BY <1>2, <2>2
    <3> QED BY <1>1, <1>2, <3>1, KeepFromPastSummary
  <2>5. MaybeAutoCompact(v, tokens).messages
          = <<Continuation>> \o SubSeq(v, k + 1, Len(v))
    BY <1>4 DEF MaybeAutoCompact, CompactSession, Continuation
  <2> HIDE DEF k, raw, p
  <2>6. k # 0
    <3> SUFFICES ASSUME k = 0 PROVE FALSE
      OBVIOUS
    <3>1. p = 0 /\ h = 0 /\ v = l
      <4>1. p = 0 /\ h = 0
        BY <1>1, <1>2, <2>4
      <4> QED BY <4>1, ViewOfAll
    <3>2. ~SafeCut(v, 1)
      BY <1>2, <2>2, <2>3, <3>1
    <3>3. StartsWithResult(v[2])
      BY <3>2 DEF SafeCut
    <3>4. 2 \in 1..Len(v)
      BY <1>2, <2>1, <3>1
    <3>5. PairedAt(v, 2)
      BY <3>3, <3>4 DEF WellPaired
    <3>6. Requests(v[1], v[2].result)
      BY <3>5 DEF PairedAt
    <3>7. v[1].uses = << >>
      BY <3>1 DEF PlainLog
    <3> QED BY <3>6, <3>7 DEF Requests
  <2> DEFINE h2 == h + k - p
  <2>7. h2 \in h..Len(l) /\ h2 \in 1..Len(l) /\ k \in 0..Len(v) /\ k < Len(v)
    BY <1>1, <1>2, <2>1, <2>2, <2>3, <2>4, <2>6
  <2>8. <<Continuation>> \o SubSeq(v, k + 1, Len(v)) = Log!View(l, h2)
    <3> DEFINE a == <<Continuation>> \o SubSeq(v, k + 1, Len(v))
               b == <<Continuation>> \o SubSeq(l, h2 + 1, Len(l))
    <3>1. /\ a \in Seq(Message) /\ Len(a) = 1 + Len(v) - k /\ a[1] = Continuation
          /\ \A i \in 2..Len(a) : a[i] = v[i - 1 + k]
      BY <1>1, <2>7, TailType DEF Continuation
    <3>2. h2 \in 0..Len(l)
      BY <2>7
    <3>3. /\ b \in Seq(Message) /\ Len(b) = 1 + Len(l) - h2 /\ b[1] = Continuation
          /\ \A i \in 2..Len(b) : b[i] = l[i - 1 + h2]
      BY <3>2, TailType DEF Continuation
    <3> HIDE DEF a, b
    <3>4. Len(a) = Len(b) /\ k \in Nat /\ h2 = h + k - p
      BY <1>1, <1>2, <2>7, <3>1, <3>3
    <3> HIDE DEF h2
    <3>5. ASSUME NEW i \in 2..Len(a) PROVE a[i] = b[i]
      <4>1. i - 1 + k \in (p + 1)..Len(v)
        BY <1>2, <2>4, <3>1, <3>4
      <4>2. (i - 1 + k) - p + h = i - 1 + h2
        BY <1>2, <3>4
      <4>3. v[i - 1 + k] = l[(i - 1 + k) - p + h]
        BY <1>1, <4>1, Zenon
      <4>4. a[i] = v[i - 1 + k]
        BY <3>1
      <4>5. b[i] = l[i - 1 + h2]
        BY <3>3, <3>4
      <4> QED BY <4>2, <4>3, <4>4, <4>5
    <3>6. \A i \in 1..Len(a) : a[i] = b[i]
      BY <3>1, <3>3, <3>5
    <3>7. a = b
      BY <3>1, <3>3, <3>4, <3>6, SeqEqual
    <3> QED BY <2>7, <3>7, ViewOfTail DEF a, b
  <2>9. h2 = h \/ Log!Boundary(l, h2)
    <3> SUFFICES ASSUME h2 # h, h2 < Len(l) PROVE ~StartsWithResult(l[h2 + 1])
      BY DEF Log!Boundary
    <3>1. k > p /\ k + 1 \in (p + 1)..Len(v) /\ (k + 1) - p + h = h2 + 1
      BY <1>1, <1>2, <2>4, <2>7
    <3>2. ~StartsWithResult(v[k + 1])
      BY <1>2, <2>3, <2>7, <3>1 DEF SafeCut, p
    <3>3. v[k + 1] = l[(k + 1) - p + h]
      BY <1>1, <3>1, Zenon
    <3> QED BY <3>1, <3>2, <3>3
  <2> HIDE DEF h2
  <2> QED BY <2>5, <2>7, <2>8, <2>9
<1> QED BY <1>3, <1>4

----------------------------------------------------------------------------
LEMMA FrontOfAppend ==
    ASSUME NEW l \in Seq(Message), NEW m \in Message
    PROVE  Log!Front(Append(l, m)) = l /\ Log!Last(Append(l, m)) = m
<1> DEFINE longer == Append(l, m)
           front == SubSeq(longer, 1, Len(longer) - 1)
<1>1. /\ longer \in Seq(Message) /\ Len(longer) = Len(l) + 1
      /\ longer[Len(l) + 1] = m
      /\ \A i \in 1..Len(l) : longer[i] = l[i]
  BY AppendType
<1>2. Len(l) \in Nat
  OBVIOUS
<1> HIDE DEF longer
<1>3. /\ front \in Seq(Message) /\ Len(front) = Len(l)
      /\ \A i \in 1..Len(l) : front[i] = longer[i]
  BY <1>1, <1>2
<1> HIDE DEF front
<1>4. \A i \in 1..Len(front) : front[i] = l[i]
  BY <1>1, <1>3
<1>5. front = l
  BY <1>3, <1>4, SeqEqual
<1> QED BY <1>1, <1>2, <1>5 DEF Log!Front, Log!Last, longer, front

\* A push, with or without a compaction behind it, is a step of the log.
LEMMA PushExtends ==
    ASSUME transcript \in Seq(Message), ViewInv,
           NEW m \in Message, ~m.summary, transcript = << >> => m.uses = << >>,
           transcript' = Append(transcript, m),
           NEW h \in summarised..Len(transcript'), messages' = Log!View(transcript', h),
           h = summarised \/ Log!Boundary(transcript', h)
    PROVE  /\ Log!Extend
           /\ summarised' \in 0..Len(transcript')
           /\ messages' = Log!View(transcript', summarised')
           /\ PlainLog(transcript') /\ transcript' # << >>
<1>1. summarised \in 0..Len(transcript) /\ PlainLog(transcript)
  BY DEF ViewInv
<1> DEFINE l == Append(transcript, m)
<1>2. /\ l \in Seq(Message) /\ Len(l) = Len(transcript) + 1 /\ PlainLog(l) /\ l # << >>
  BY <1>1, AppendType, AppendProperties, PlainAppend
<1>3. Log!Front(l) = transcript /\ Log!Last(l) = m
  BY FrontOfAppend
<1> HIDE DEF l
<1>4. transcript' = l
  BY DEF l
<1>5. h \in 0..Len(l) /\ Len(l) \in Nat /\ messages' = Log!View(l, h)
  BY <1>1, <1>2, <1>4
<1>6. /\ PrefixLen(messages') \in {0, 1}
      /\ Len(messages') = PrefixLen(messages') + Len(l) - h
  BY <1>2, <1>5, ViewShape
<1>7. summarised' = h
  <2>1. summarised' = Len(l) + PrefixLen(messages') - Len(messages')
    BY <1>4 DEF summarised
  <2> QED BY <1>5, <1>6, <2>1
<1>8. h = summarised \/ (h \in (summarised + 1)..Len(l) /\ Log!Boundary(l, h))
  BY <1>1, <1>2, <1>4, <1>5
<1>9. Log!Extend
  BY <1>2, <1>3, <1>4, <1>5, <1>7, <1>8 DEF Log!Extend
<1> QED BY <1>2, <1>4, <1>5, <1>7, <1>9

\* A push without compaction.
LEMMA PlainPush ==
    ASSUME transcript \in Seq(Message), ViewInv,
           NEW m \in Message, ~m.summary, transcript = << >> => m.uses = << >>,
           transcript' = Append(transcript, m), messages' = Append(messages, m)
    PROVE  /\ Log!Extend
           /\ summarised' \in 0..Len(transcript')
           /\ messages' = Log!View(transcript', summarised')
           /\ PlainLog(transcript') /\ transcript' # << >>
<1>1. summarised \in 0..Len(transcript) /\ messages = Log!View(transcript, summarised)
  BY DEF ViewInv
<1>2. messages' = Log!View(transcript', summarised)
  BY <1>1, ViewOfAppend
<1>3. Len(transcript') = Len(transcript) + 1 /\ Len(transcript) \in Nat
  BY AppendType
<1>4. summarised \in summarised..Len(transcript')
  BY <1>1, <1>3
<1> QED BY <1>2, <1>4, PushExtends

LEMMA StepExtends ==
    ASSUME TypeInv, PairInv, ViewInv, [Next]_vars
    PROVE  ViewInv' /\ (Log!Next \/ UNCHANGED <<transcript, summarised, messages>>)
<1>0. /\ transcript \in Seq(Message) /\ messages \in Seq(Message)
      /\ pc # "idle" => transcript # << >>
  BY DEF TypeInv, TypeOK, ViewInv
<1>1. CASE UNCHANGED <<messages, transcript>> /\ (pc' # "idle" => pc # "idle")
  <2>1. summarised' = summarised
    BY <1>1 DEF summarised
  <2> QED BY <1>1, <2>1 DEF ViewInv
<1>2. CASE StartTurn
  <2>1. /\ messages' = Append(messages, UserText(1))
        /\ transcript' = Append(transcript, UserText(1))
    BY <1>2 DEF StartTurn, Push
  <2>2. UserText(1) \in Message /\ ~UserText(1).summary /\ UserText(1).uses = << >>
    BY MessageTypes DEF UserText
  <2> QED BY <1>0, <2>1, <2>2, PlainPush DEF ViewInv, Log!Next
<1>3. CASE AssistantAnswers
  <2>0. PICK tokens \in UsageTokens, n \in 0..MaxUses :
            \E w \in [1..n -> Tool \X Input] : AnswerWith(tokens, NewUses(w))
    BY <1>3 DEF AssistantAnswers
  <2>1. PICK wanted \in [1..n -> Tool \X Input] : AnswerWith(tokens, NewUses(wanted))
    BY <2>0
  <2> DEFINE uses == NewUses(wanted)
             message == AssistantMessage(uses, 1)
             longer == Append(messages, message)
             l == Append(transcript, message)
  <2>2. uses \in Seq(ToolUse)
    BY NewUsesType DEF TypeInv
  <2>3. inputTokens + tokens \in Nat
    BY ConversationAssumption DEF TypeInv, TypeOK
  <2>4. /\ messages' = MaybeAutoCompact(longer, inputTokens + tokens).messages
        /\ transcript' = l /\ transcript # << >>
    BY <1>0, <1>3, <2>1 DEF AnswerWith, AssistantAnswers
  <2> HIDE DEF uses
  <2>5. /\ message \in Message /\ message.uses = uses /\ ~message.summary
        /\ message.role = "assistant" /\ ~StartsWithResult(message)
    BY <2>2, MessageTypes DEF AssistantMessage, StartsWithResult
  <2> HIDE DEF message
  <2>6. WellPaired(longer)
    BY <1>0, <2>5, AppendKeepsPairs DEF PairInv
  <2>7. /\ l \in Seq(Message) /\ PlainLog(l) /\ l # << >>
        /\ Len(l) = Len(transcript) + 1 /\ Len(transcript) \in Nat
    BY <1>0, <2>4, <2>5, AppendType, AppendProperties, PlainAppend DEF ViewInv
  <2>8. summarised \in 0..Len(transcript) /\ longer = Log!View(l, summarised)
    BY <1>0, <2>5, ViewOfAppend DEF ViewInv
  <2>9. summarised \in 0..Len(l)
    BY <2>7, <2>8
  <2> HIDE DEF longer, l
  <2>10. PICK h \in summarised..Len(l) :
            /\ MaybeAutoCompact(longer, inputTokens + tokens).messages = Log!View(l, h)
            /\ h = summarised \/ Log!Boundary(l, h)
    BY <2>3, <2>6, <2>7, <2>8, <2>9, CompactionHidesMore
  <2>11. /\ messages' = Log!View(transcript', h) /\ h \in summarised..Len(transcript')
         /\ h = summarised \/ Log!Boundary(transcript', h)
         /\ transcript' = Append(transcript, message)
    BY <2>4, <2>10 DEF l
  <2> QED BY <1>0, <2>4, <2>5, <2>11, PushExtends DEF ViewInv, Log!Next
<1>4. CASE PushToolResult
  <2> DEFINE result == ToolResult(call.id, call.error, 1)
  <2>1. call \in CallType
    BY <1>4 DEF PushToolResult, TypeInv, CallInUse, ToolPcs
  <2>2. result \in Message /\ ~result.summary /\ result.uses = << >>
    BY <2>1, MessageTypes DEF ToolResult, CallType
  <2>3. messages' = Append(messages, result) /\ transcript' = Append(transcript, result)
    BY <1>4 DEF PushToolResult, Push
  <2> HIDE DEF result
  <2> QED BY <1>0, <2>2, <2>3, PlainPush DEF ViewInv, Log!Next
<1>5. CASE ProbeFails \/ UserPushFails \/ IterationLimit \/ StreamFails \/ AssistantPushFails
           \/ ResultPushFails
  BY <1>1, <1>5 DEF ProbeFails, UserPushFails, IterationLimit, StreamFails,
     AssistantPushFails, ResultPushFails, EndTurn, historyVars
<1>6. CASE PreToolUseHook \/ AuthorizeCall \/ ExecuteTool \/ PostToolUseHook
  BY <1>1, <1>6 DEF PreToolUseHook, AuthorizeCall, ExecuteTool, PostToolUseHook, historyVars
<1>7. CASE Abort \/ UNCHANGED vars
  BY <1>1, <1>7 DEF Abort, vars, turnVars, historyVars
<1> QED
  BY <1>2, <1>3, <1>4, <1>5, <1>6, <1>7 DEF Next, TurnStep

\* The loop implements the append-only log with a summarised prefix: nothing is
\* lost, repeated or reordered between the pushes and the request, and no cut
\* leaves a result in front.
THEOREM ImplementsTheLog == Spec => ImplementsTranscript
<1>1. Init => TypeInv /\ PairInv /\ ViewInv /\ Log!Init
  <2> SUFFICES ASSUME Init PROVE TypeInv /\ PairInv /\ ViewInv /\ Log!Init
    OBVIOUS
  <2>1. messages = << >> /\ transcript = << >> /\ pc = "idle" /\ Len(<< >>) = 0
    BY DEF Init
  <2>2. summarised = 0
    BY <2>1 DEF summarised, PrefixLen
  <2>3. Log!View(<< >>, 0) = << >>
    <3>1. << >> \in Seq(Message)
      BY EmptySeq
    <3> QED BY <3>1, ViewOfAll
  <2>4. ViewInv
    BY <2>1, <2>2, <2>3 DEF ViewInv, PlainLog
  <2> QED BY <2>1, <2>2, <2>4, TypeInit, PairInit DEF Log!Init
<1>2. TypeInv /\ PairInv /\ ViewInv /\ [Next]_vars
        => /\ (TypeInv /\ PairInv /\ ViewInv)'
           /\ [Log!Next]_<<transcript, summarised, messages>>
  BY TypeNext, PairNext, StepExtends
<1> QED BY <1>1, <1>2, PTL DEF Spec, ImplementsTranscript, Log!Spec

----------------------------------------------------------------------------
(***************************************************************************)
(* IV.  The bound on the transcript.  The boundary walk goes back over     *)
(* results only, and results that stand next to each other answer one      *)
(* assistant message: it cannot go back further than that message asks.    *)
(***************************************************************************)

\* The message that asks for what i answers stands as many places before it,
\* at most, as it has uses, and there is nothing but results in between.
PlacedBy(msgs, i, j) ==
    /\ msgs[j].role = "assistant" /\ ~StartsWithResult(msgs[j])
    /\ i - j <= Len(msgs[j].uses)
    /\ \A k \in (j + 1)..(i - 1) : StartsWithResult(msgs[k])

RunsFit(msgs) ==
    \A i \in 1..Len(msgs) :
        /\ Len(msgs[i].uses) <= MaxUses
        /\ StartsWithResult(msgs[i]) => \E j \in 1..(i - 1) : PlacedBy(msgs, i, j)

\* The last message that asks has n results to come.
RoomFor(msgs, n) ==
    n > 0 => \E j \in 1..Len(msgs) :
        /\ msgs[j].role = "assistant" /\ ~StartsWithResult(msgs[j])
        /\ Len(msgs[j].uses) = (Len(msgs) - j) + n
        /\ \A k \in (j + 1)..Len(msgs) : StartsWithResult(msgs[k])

BoundInv ==
    /\ RunsFit(messages)
    /\ pc \in ToolPcs => RoomFor(messages, Len(pending))

LEMMA AppendFits ==
    ASSUME NEW msgs \in Seq(Message), NEW m \in Message, RunsFit(msgs),
           Len(m.uses) <= MaxUses,
           StartsWithResult(m) => \E j \in 1..Len(msgs) : PlacedBy(Append(msgs, m), Len(msgs) + 1, j)
    PROVE  RunsFit(Append(msgs, m))
<1> DEFINE longer == Append(msgs, m)
<1>1. /\ longer \in Seq(Message) /\ Len(longer) = Len(msgs) + 1
      /\ longer[Len(msgs) + 1] = m
      /\ \A i \in 1..Len(msgs) : longer[i] = msgs[i]
  BY AppendType
<1>2. Len(msgs) \in Nat
  OBVIOUS
<1> HIDE DEF longer
<1>3. ASSUME NEW i \in 1..Len(msgs)
      PROVE  /\ Len(longer[i].uses) <= MaxUses
             /\ StartsWithResult(longer[i]) => \E j \in 1..(i - 1) : PlacedBy(longer, i, j)
  <2>1. longer[i] = msgs[i] /\ Len(msgs[i].uses) <= MaxUses
    BY <1>1 DEF RunsFit
  <2> SUFFICES ASSUME StartsWithResult(longer[i])
               PROVE  \E j \in 1..(i - 1) : PlacedBy(longer, i, j)
    BY <2>1
  <2>2. PICK j \in 1..(i - 1) : PlacedBy(msgs, i, j)
    BY <2>1 DEF RunsFit
  <2>3. \A k \in j..(i - 1) : longer[k] = msgs[k]
    BY <1>1, <1>2, <2>2
  <2>4. j \in j..(i - 1) /\ \A k \in (j + 1)..(i - 1) : k \in j..(i - 1)
    BY <1>2, <2>2
  <2>5. PlacedBy(longer, i, j)
    BY <2>2, <2>3, <2>4 DEF PlacedBy
  <2> QED BY <2>5
<1>4. /\ Len(longer[Len(msgs) + 1].uses) <= MaxUses
      /\ StartsWithResult(longer[Len(msgs) + 1])
            => \E j \in 1..((Len(msgs) + 1) - 1) : PlacedBy(longer, Len(msgs) + 1, j)
  BY <1>1, <1>2 DEF longer
<1>5. \A i \in 1..Len(longer) : i \in 1..Len(msgs) \/ i = Len(msgs) + 1
  BY <1>1, <1>2
<1> QED
  BY <1>3, <1>4, <1>5 DEF RunsFit, longer

\* The message that asks has room for its results.
LEMMA AskMakesRoom ==
    ASSUME NEW msgs \in Seq(Message), msgs # << >>,
           msgs[Len(msgs)].role = "assistant", ~StartsWithResult(msgs[Len(msgs)])
    PROVE  RoomFor(msgs, Len(msgs[Len(msgs)].uses))
<1>1. Len(msgs) \in Nat \ {0}
  BY EmptySeq
<1>2. Len(msgs) \in 1..Len(msgs) /\ (Len(msgs) + 1)..Len(msgs) = {}
  BY <1>1
<1>3. Len(msgs[Len(msgs)].uses) = (Len(msgs) - Len(msgs)) + Len(msgs[Len(msgs)].uses)
  <2>1. Len(msgs[Len(msgs)].uses) \in Nat
    BY <1>2, UsesType
  <2> QED BY <1>1, <2>1
<1> QED
  BY <1>2, <1>3 DEF RoomFor

\* A result takes one place of those that are left.
LEMMA ResultTakesRoom ==
    ASSUME NEW msgs \in Seq(Message), NEW m \in Message, NEW n \in Nat, n > 0,
           RoomFor(msgs, n), StartsWithResult(m)
    PROVE  /\ RoomFor(Append(msgs, m), n - 1)
           /\ \E j \in 1..Len(msgs) : PlacedBy(Append(msgs, m), Len(msgs) + 1, j)
<1> DEFINE longer == Append(msgs, m)
<1>1. /\ longer \in Seq(Message) /\ Len(longer) = Len(msgs) + 1
      /\ longer[Len(msgs) + 1] = m
      /\ \A i \in 1..Len(msgs) : longer[i] = msgs[i]
  BY AppendType
<1>2. Len(msgs) \in Nat
  OBVIOUS
<1>3. PICK j \in 1..Len(msgs) :
          /\ msgs[j].role = "assistant" /\ ~StartsWithResult(msgs[j])
          /\ Len(msgs[j].uses) = (Len(msgs) - j) + n
          /\ \A k \in (j + 1)..Len(msgs) : StartsWithResult(msgs[k])
  BY DEF RoomFor
<1> HIDE DEF longer
<1>4. /\ j \in 1..Len(longer) /\ longer[j] = msgs[j]
      /\ \A k \in (j + 1)..Len(msgs) : longer[k] = msgs[k]
  BY <1>1, <1>2, <1>3
<1>5. \A k \in (j + 1)..Len(longer) : k \in (j + 1)..Len(msgs) \/ k = Len(msgs) + 1
  BY <1>1, <1>2
<1>6. \A k \in (j + 1)..Len(longer) : StartsWithResult(longer[k])
  BY <1>1, <1>3, <1>4, <1>5
<1>7. Len(longer[j].uses) = (Len(longer) - j) + (n - 1)
  BY <1>1, <1>2, <1>3, <1>4
<1>8. RoomFor(longer, n - 1)
  BY <1>3, <1>4, <1>6, <1>7 DEF RoomFor
<1>9. (Len(msgs) + 1) - j <= Len(longer[j].uses)
  BY <1>1, <1>2, <1>7
<1>10. \A k \in (j + 1)..((Len(msgs) + 1) - 1) : StartsWithResult(longer[k])
  BY <1>2, <1>3, <1>4
<1>11. PlacedBy(longer, Len(msgs) + 1, j)
  BY <1>3, <1>4, <1>9, <1>10 DEF PlacedBy
<1> QED
  BY <1>8, <1>11 DEF longer

\* A safe cut takes no run apart.
LEMMA TailFits ==
    ASSUME NEW msgs \in Seq(Message), RunsFit(msgs), MaxUses \in Nat,
           NEW k \in PrefixLen(msgs)..Len(msgs), SafeCut(msgs, k)
    PROVE  RunsFit(<<SystemText(TRUE, 1)>> \o SubSeq(msgs, k + 1, Len(msgs)))
<1> DEFINE tail == <<SystemText(TRUE, 1)>> \o SubSeq(msgs, k + 1, Len(msgs))
<1>1. Len(msgs) \in Nat /\ PrefixLen(msgs) \in {0, 1} /\ k \in 0..Len(msgs)
  BY DEF PrefixLen
<1>2. /\ tail \in Seq(Message) /\ Len(tail) = 1 + Len(msgs) - k
      /\ tail[1] = SystemText(TRUE, 1)
      /\ \A i \in 2..Len(tail) : tail[i] = msgs[i - 1 + k]
  BY <1>1, TailType
<1> HIDE DEF tail
<1>3. ASSUME NEW o \in (k + 1)..Len(msgs), NEW j \in 1..(o - 1), StartsWithResult(msgs[o]),
             PlacedBy(msgs, o, j)
      PROVE  j > k
  <2> SUFFICES ASSUME j <= k PROVE FALSE
    BY <1>1
  <2>1. \A i \in (j + 1)..o : StartsWithResult(msgs[i])
    <3>1. \A i \in (j + 1)..o : i \in (j + 1)..(o - 1) \/ i = o
      BY <1>1
    <3> QED BY <1>3, <3>1 DEF PlacedBy
  <2>2. k + 1 \in (j + 1)..o /\ k < Len(msgs)
    BY <1>1
  <2>3. k <= PrefixLen(msgs)
    BY <1>1, <2>1, <2>2 DEF SafeCut
  <2>4. j = 1 /\ PrefixLen(msgs) = 1
    BY <1>1, <2>3
  <2>5. msgs[1].role = "system"
    BY <2>4 DEF PrefixLen
  <2> QED BY <1>3, <2>4, <2>5 DEF PlacedBy
<1>4. ASSUME NEW i \in 2..Len(tail)
      PROVE  /\ Len(tail[i].uses) <= MaxUses
             /\ StartsWithResult(tail[i]) => \E j \in 1..(i - 1) : PlacedBy(tail, i, j)
  <2> DEFINE o == i - 1 + k
  <2>1. o \in (k + 1)..Len(msgs) /\ o \in 1..Len(msgs) /\ tail[i] = msgs[o]
        /\ i = o + 1 - k /\ i \in Nat /\ o \in Nat /\ k \in Nat
    BY <1>1, <1>2
  <2> HIDE DEF o
  <2>2. Len(tail[i].uses) <= MaxUses
    BY <2>1 DEF RunsFit
  <2> SUFFICES ASSUME StartsWithResult(tail[i])
               PROVE  \E j \in 1..(i - 1) : PlacedBy(tail, i, j)
    BY <2>2
  <2>3. PICK j \in 1..(o - 1) : PlacedBy(msgs, o, j)
    BY <2>1 DEF RunsFit
  <2>4. j > k
    BY <1>3, <2>1, <2>3
  <2> DEFINE t == j + 1 - k
  <2>5. t \in 1..(i - 1) /\ t \in 2..Len(tail) /\ t - 1 + k = j /\ i - t = o - j
    BY <1>1, <1>2, <2>1, <2>4
  <2>6. tail[t] = msgs[j]
    BY <1>2, <2>5
  <2> HIDE DEF t
  <2>7. ASSUME NEW r \in (t + 1)..(i - 1) PROVE StartsWithResult(tail[r])
    <3>1. r \in Nat /\ t \in Nat /\ j \in Nat /\ t >= 2 /\ r > t /\ r <= i - 1 /\ i <= Len(tail)
      BY <2>1, <2>3, <2>5
    <3>2. r \in 2..Len(tail)
      BY <1>1, <1>2, <2>1, <3>1
    <3>3. r - 1 + k \in (j + 1)..(o - 1)
      <4>1. k \in Nat /\ o \in Nat /\ i \in Nat /\ i = o + 1 - k
        BY <2>1
      <4>2. t - 1 + k = j
        BY <2>5
      <4>3. r \in Nat /\ t \in Nat /\ j \in Nat /\ r > t /\ r <= i - 1
        BY <3>1
      <4> QED
        BY <4>1, <4>2, <4>3
    <3>4. tail[r] = msgs[r - 1 + k]
      BY <1>2, <3>2
    <3> QED BY <2>3, <3>3, <3>4 DEF PlacedBy
  <2>8. PlacedBy(tail, i, t)
    BY <2>3, <2>5, <2>6, <2>7 DEF PlacedBy
  <2> QED BY <2>5, <2>8
<1>5. Len(tail[1].uses) <= MaxUses /\ ~StartsWithResult(tail[1])
  <2>1. tail[1].uses = << >> /\ tail[1].result = NoId
    BY <1>2 DEF SystemText
  <2>2. Len(tail[1].uses) = 0
    BY <2>1
  <2> QED BY <2>1, <2>2 DEF StartsWithResult
<1>6. \A i \in 1..Len(tail) : i = 1 \/ i \in 2..Len(tail)
  BY <1>1, <1>2
<1> QED
  BY <1>4, <1>5, <1>6 DEF RunsFit, tail

\* Neither does the automatic compaction, which leaves the last message alone.
LEMMA AutoCompactFits ==
    ASSUME NEW msgs \in Seq(Message), msgs # << >>, NEW tokens \in Nat, RunsFit(msgs)
    PROVE  LET new == MaybeAutoCompact(msgs, tokens).messages IN
           /\ RunsFit(new) /\ new # << >> /\ new[Len(new)] = msgs[Len(msgs)]
<1> DEFINE result == CompactSession(msgs, PreserveRecent, 0)
           tail(k) == <<SystemText(TRUE, 1)>> \o SubSeq(msgs, k + 1, Len(msgs))
<1>1. \/ result = [messages |-> msgs, removed |-> 0]
      \/ \E k \in PrefixLen(msgs)..RawKeepFrom(msgs, PreserveRecent) :
            /\ SafeCut(msgs, k)
            /\ result = [messages |-> tail(k), removed |-> k - PrefixLen(msgs)]
  <2>1. PreserveRecent \in Nat /\ 0 \in Nat
    BY DEF PreserveRecent
  <2> QED BY <2>1, CompactSessionIsTail, Zenon
<1>2. PrefixLen(msgs) \in Nat /\ Len(msgs) \in Nat \ {0} /\ MaxUses \in Nat
  BY EmptySeq, ConversationAssumption DEF PrefixLen
<1>3. RawKeepFrom(msgs, PreserveRecent) \in 0..(Len(msgs) - 1)
  BY <1>2 DEF RawKeepFrom, PreserveRecent
<1>4. ASSUME NEW k \in PrefixLen(msgs)..RawKeepFrom(msgs, PreserveRecent), SafeCut(msgs, k)
      PROVE  RunsFit(tail(k)) /\ tail(k) # << >> /\ tail(k)[Len(tail(k))] = msgs[Len(msgs)]
  <2>1. k \in PrefixLen(msgs)..Len(msgs) /\ k \in 0..(Len(msgs) - 1)
    BY <1>2, <1>3
  <2>2. RunsFit(tail(k))
    BY <1>2, <1>4, <2>1, TailFits
  <2>3. /\ tail(k) \in Seq(Message) /\ Len(tail(k)) = 1 + Len(msgs) - k
        /\ \A i \in 2..Len(tail(k)) : tail(k)[i] = msgs[i - 1 + k]
    <3>1. k \in 0..Len(msgs)
      BY <1>2, <2>1
    <3> QED BY <3>1, TailType
  <2> HIDE DEF tail
  <2>4. Len(tail(k)) \in 2..Len(tail(k)) /\ Len(tail(k)) - 1 + k = Len(msgs)
    BY <1>2, <2>1, <2>3
  <2>5. tail(k) # << >>
    <3>1. Len(<< >>) = 0
      OBVIOUS
    <3> QED BY <2>4, <3>1
  <2> QED BY <2>2, <2>3, <2>4, <2>5
<1> HIDE DEF result, tail
<1>5. RunsFit(result.messages) /\ result.messages # << >>
      /\ result.messages[Len(result.messages)] = msgs[Len(msgs)]
  BY <1>1, <1>4
<1> QED
  BY <1>5 DEF MaybeAutoCompact, result

\* Past the threshold, a transcript whose runs fit is cut down: the walk ends
\* before it has gone over the results of one message.
LEMMA CompactedIsBounded ==
    ASSUME NEW msgs \in Seq(Message), NEW tokens \in Nat, tokens >= Threshold, RunsFit(msgs)
    PROVE  Len(MaybeAutoCompact(msgs, tokens).messages) <= 1 + PreserveRecent + MaxUses
<1> DEFINE prefix == PrefixLen(msgs)
           raw == RawKeepFrom(msgs, PreserveRecent)
           keep == KeepFrom(msgs, PreserveRecent)
           tail == <<SystemText(TRUE, 1)>> \o SubSeq(msgs, keep + 1, Len(msgs))
<1>1. /\ Len(msgs) \in Nat /\ prefix \in {0, 1} /\ MaxUses \in Nat /\ Threshold \in Nat
      /\ PreserveRecent = 4
  BY ConversationAssumption DEF PrefixLen, PreserveRecent
<1>2. MaybeAutoCompact(msgs, tokens) = CompactSession(msgs, PreserveRecent, 0)
  BY <1>1 DEF MaybeAutoCompact
<1>3. EstimateTokens(msgs, prefix + 1) >= 0
  <2>1. prefix + 1 \in Nat \ {0}
    BY <1>1
  <2>2. EstimateTokens(msgs, prefix + 1) \in Nat
    BY <2>1, EstimateIsNatural
  <2> QED BY <2>2
<1>4. CASE ~ShouldCompact(msgs, PreserveRecent, 0)
  <2>1. Len(msgs) - prefix <= PreserveRecent
    BY <1>1, <1>3, <1>4 DEF ShouldCompact
  <2>2. MaybeAutoCompact(msgs, tokens).messages = msgs
    BY <1>2, <1>4 DEF CompactSession
  <2> QED BY <1>1, <2>1, <2>2
<1>5. CASE ShouldCompact(msgs, PreserveRecent, 0)
  <2>1. Len(msgs) - prefix > PreserveRecent
    BY <1>5 DEF ShouldCompact
  <2>2. raw = Len(msgs) - 4 /\ raw \in 1..Len(msgs)
    BY <1>1, <2>1 DEF RawKeepFrom
  <2>3. keep \in 0..raw /\ \A i \in (keep + 1)..raw : ~SafeCut(msgs, i)
    <3>1. PreserveRecent \in Nat
      BY <1>1
    <3> QED BY <3>1, KeepFromIsSafe
  <2>4. MaybeAutoCompact(msgs, tokens).messages = tail
    <3>1. CompactSession(msgs, PreserveRecent, 0) = [messages |-> tail, removed |-> keep - prefix]
      BY <1>5 DEF CompactSession
    <3> HIDE DEF tail
    <3> QED BY <1>2, <3>1
  <2> HIDE DEF raw, keep
  <2>5. Len(tail) = 1 + Len(msgs) - keep
    <3>1. keep \in 0..Len(msgs)
      BY <1>1, <2>2, <2>3
    <3> QED BY <3>1, TailType
  <2> HIDE DEF tail
  <2>6. raw - keep <= MaxUses
    <3> SUFFICES ASSUME raw > keep PROVE raw - keep <= MaxUses
      BY <1>1, <2>2, <2>3
    <3>1. \A i \in (keep + 2)..(raw + 1) : StartsWithResult(msgs[i])
      <4> SUFFICES ASSUME NEW i \in (keep + 2)..(raw + 1) PROVE StartsWithResult(msgs[i])
        OBVIOUS
      <4>1. i - 1 \in (keep + 1)..raw /\ (i - 1) + 1 = i
        BY <2>2, <2>3
      <4>2. ~SafeCut(msgs, i - 1)
        BY <2>3, <4>1
      <4> QED BY <4>1, <4>2 DEF SafeCut
    <3>2. raw + 1 \in (keep + 2)..(raw + 1) /\ raw + 1 \in 1..Len(msgs)
      BY <1>1, <2>2, <2>3
    <3>3. PICK j \in 1..((raw + 1) - 1) : PlacedBy(msgs, raw + 1, j)
      BY <3>1, <3>2 DEF RunsFit
    <3>4. j \notin (keep + 2)..(raw + 1)
      BY <3>1, <3>3 DEF PlacedBy
    <3>5. j \in 1..Len(msgs) /\ (raw + 1) - j <= Len(msgs[j].uses)
      BY <2>2, <3>3 DEF PlacedBy
    <3>6. Len(msgs[j].uses) <= MaxUses /\ Len(msgs[j].uses) \in Nat
      BY <3>5, UsesType DEF RunsFit
    <3> QED BY <1>1, <2>2, <2>3, <3>3, <3>4, <3>5, <3>6
  <2> QED BY <1>1, <2>2, <2>3, <2>4, <2>5, <2>6
<1> QED BY <1>4, <1>5

\* A step keeps every run within one answer, and an assistant message past the
\* threshold leaves a bounded transcript.
LEMMA BoundNext ==
    ASSUME TypeInv, BoundInv, [Next]_vars
    PROVE  /\ BoundInv'
           /\ /\ Len(transcript') > Len(transcript)
              /\ transcript'[Len(transcript')].role = "assistant"
              /\ inputTokens' >= Threshold
              => Len(messages') <= 1 + PreserveRecent + MaxUses
<1> DEFINE Asked == /\ Len(transcript') > Len(transcript)
                    /\ transcript'[Len(transcript')].role = "assistant"
<1>0. /\ messages \in Seq(Message) /\ transcript \in Seq(Message) /\ pending \in Seq(ToolUse)
      /\ Len(transcript) \in Nat /\ Len(pending) \in Nat /\ MaxUses \in Nat
  BY ConversationAssumption DEF TypeInv, TypeOK
<1>1. CASE ProbeFails \/ UserPushFails \/ IterationLimit \/ StreamFails \/ AssistantPushFails
           \/ ResultPushFails
  <2>1. UNCHANGED <<messages, transcript>> /\ pc' \notin ToolPcs
    BY <1>1 DEF ProbeFails, UserPushFails, IterationLimit, StreamFails, AssistantPushFails,
       ResultPushFails, EndTurn, historyVars, ToolPcs
  <2> QED BY <1>0, <2>1 DEF BoundInv
<1>2. CASE StartTurn
  <2> DEFINE message == UserText(1)
  <2>1. /\ messages' = Append(messages, message) /\ transcript' = Append(transcript, message)
        /\ pc' \notin ToolPcs
    BY <1>2 DEF StartTurn, Push, ToolPcs
  <2>2. /\ message \in Message /\ Len(message.uses) = 0 /\ ~StartsWithResult(message)
        /\ message.role = "user"
    BY MessageTypes DEF UserText, StartsWithResult
  <2> HIDE DEF message
  <2>3. RunsFit(messages')
    BY <1>0, <2>1, <2>2, AppendFits DEF BoundInv
  <2>4. transcript'[Len(transcript')] = message
    BY <1>0, <2>1, <2>2, AppendType
  <2> QED BY <2>1, <2>2, <2>3, <2>4 DEF BoundInv
<1>3. CASE AssistantAnswers
  <2>0. PICK tokens \in UsageTokens, n \in 0..MaxUses :
            \E w \in [1..n -> Tool \X Input] : AnswerWith(tokens, NewUses(w))
    BY <1>3 DEF AssistantAnswers
  <2>1. PICK wanted \in [1..n -> Tool \X Input] : AnswerWith(tokens, NewUses(wanted))
    BY <2>0
  <2> DEFINE uses == NewUses(wanted)
             message == AssistantMessage(uses, 1)
             longer == Append(messages, message)
             new == MaybeAutoCompact(longer, inputTokens + tokens).messages
  <2>2. uses \in Seq(ToolUse) /\ Len(uses) = n /\ inputTokens + tokens \in Nat
    <3>1. uses \in Seq(ToolUse) /\ Len(uses) = n
      BY NewUsesType DEF TypeInv
    <3>2. inputTokens + tokens \in Nat
      BY ConversationAssumption DEF TypeInv, TypeOK
    <3> QED BY <3>1, <3>2
  <2>3. messages' = new /\ inputTokens' = inputTokens + tokens
    BY <2>1 DEF AnswerWith
  <2>4. \/ pc' = "idle"
        \/ pc' = "pre_hook" /\ pending' = uses
    BY <2>1 DEF AnswerWith, EndTurn
  <2> HIDE DEF uses
  <2>5. /\ message \in Message /\ message.uses = uses /\ message.role = "assistant"
        /\ ~StartsWithResult(message)
    BY <2>2, MessageTypes DEF AssistantMessage, StartsWithResult
  <2> HIDE DEF message
  <2>6. RunsFit(longer)
    BY <1>0, <2>2, <2>5, AppendFits DEF BoundInv
  <2>7. longer \in Seq(Message) /\ longer # << >> /\ longer[Len(longer)] = message
    <3>1. longer \in Seq(Message) /\ Len(longer) = Len(messages) + 1
          /\ longer[Len(messages) + 1] = message /\ Len(messages) \in Nat
      BY <1>0, <2>5, AppendType
    <3> HIDE DEF longer
    <3>2. Len(longer) # 0
      BY <3>1
    <3> QED BY <3>1, <3>2, EmptySeq
  <2> HIDE DEF longer
  <2>8. RunsFit(new) /\ new # << >> /\ new[Len(new)] = message
    BY <2>2, <2>6, <2>7, AutoCompactFits
  <2>9. new \in Seq(Message)
    BY <2>2, <2>7, CompactType
  <2>10. inputTokens' >= Threshold => Len(new) <= 1 + PreserveRecent + MaxUses
    BY <2>2, <2>3, <2>6, <2>7, CompactedIsBounded
  <2> HIDE DEF new
  <2>11. RoomFor(new, Len(uses))
    BY <2>5, <2>8, <2>9, AskMakesRoom
  <2> QED BY <2>3, <2>4, <2>8, <2>10, <2>11 DEF BoundInv, ToolPcs
<1>4. CASE PreToolUseHook \/ AuthorizeCall \/ ExecuteTool \/ PostToolUseHook
  <2>1. UNCHANGED <<messages, transcript, pending>> /\ pc \in ToolPcs
    BY <1>4 DEF PreToolUseHook, AuthorizeCall, ExecuteTool, PostToolUseHook, ToolPcs,
       historyVars
  <2> QED BY <1>0, <2>1 DEF BoundInv
<1>5. CASE PushToolResult
  <2> DEFINE result == ToolResult(call.id, call.error, 1)
  <2>1. call \in CallType /\ call.id = pending[1].id /\ pending # << >> /\ pc \in ToolPcs
    BY <1>5 DEF PushToolResult, TypeInv, CallInUse, ToolPcs
  <2>2. call.id # NoId
    <3>1. pending[1] \in ToolUse
      BY <1>0, <2>1
    <3> QED BY <2>1, <3>1 DEF ToolUse, ToolUseId
  <2>3. /\ result \in Message /\ result.role = "tool" /\ Len(result.uses) = 0
        /\ StartsWithResult(result)
    BY <2>1, <2>2, MessageTypes DEF ToolResult, CallType, StartsWithResult
  <2>4. /\ messages' = Append(messages, result) /\ transcript' = Append(transcript, result)
        /\ pending' = Tail(pending)
    BY <1>5 DEF PushToolResult, Push
  <2> HIDE DEF result
  <2>5. Len(pending) > 0 /\ Len(pending') = Len(pending) - 1
    BY <1>0, <2>1, <2>4, EmptySeq, HeadTailProperties
  <2>6. RoomFor(messages, Len(pending))
    BY <2>1 DEF BoundInv
  <2>7. /\ RoomFor(messages', Len(pending) - 1)
        /\ \E j \in 1..Len(messages) : PlacedBy(messages', Len(messages) + 1, j)
    BY <1>0, <2>3, <2>4, <2>5, <2>6, ResultTakesRoom
  <2>8. RunsFit(messages')
    BY <1>0, <2>3, <2>4, <2>7, AppendFits DEF BoundInv
  <2>9. transcript'[Len(transcript')] = result
    BY <1>0, <2>3, <2>4, AppendType
  <2> QED BY <2>3, <2>5, <2>7, <2>8, <2>9 DEF BoundInv
<1>6. CASE Abort \/ UNCHANGED vars
  <2>1. UNCHANGED <<messages, transcript, pending, pc>>
    BY <1>6 DEF Abort, vars, turnVars, historyVars
  <2> QED BY <1>0, <2>1 DEF BoundInv
<1> QED
  BY <1>1, <1>2, <1>3, <1>4, <1>5, <1>6 DEF Next, TurnStep

\* #3106: past the threshold, every assistant message leaves at most the summary,
\* the preserved tail and the results of one message, however many tool uses the
\* messages of a transcript ask for and whatever was compacted before.
THEOREM AnswersLeaveLittle == Spec => AnswerLeavesBoundedTranscript
<1>1. Init => TypeInv /\ BoundInv
  <2>1. Init => RunsFit(messages) /\ pc \notin ToolPcs
    BY DEF Init, RunsFit, ToolPcs
  <2> QED BY <2>1, TypeInit DEF BoundInv
<1>2. TypeInv /\ BoundInv /\ [Next]_vars => (TypeInv /\ BoundInv)'
  BY TypeNext, BoundNext
<1>3. TypeInv /\ BoundInv /\ [Next]_vars =>
          [ /\ Len(transcript') > Len(transcript)
            /\ transcript'[Len(transcript')].role = "assistant"
            /\ inputTokens' >= Threshold
            => Len(messages') <= 1 + PreserveRecent + MaxUses ]_vars
  BY BoundNext
<1> QED
  BY <1>1, <1>2, <1>3, PTL DEF Spec, AnswerLeavesBoundedTranscript

(***************************************************************************)
(* V.  The hook run, which the turns above take for one step               *)
(***************************************************************************)

\* Where each step of a run stands.  A run that was aborted before it began is
\* over at once; the signal is never taken back; a command that the run goes on
\* from, or was cancelled in, has exited and holds nothing open.
HookInv ==
    /\ hookPc \in {"idle", "next", "write", "check", "try_wait", "collect", "reap", "done"}
    /\ flow \in {"go", "denied", "failed", "cancelled"}
    /\ child \in {"none", "started", "working", "printed", "exited"}
    /\ hookAborted \in BOOLEAN /\ beganAborted \in BOOLEAN /\ helper \in BOOLEAN
    /\ script.helper \in BOOLEAN
    /\ beganAborted => hookPc = "done" /\ flow = "cancelled" /\ child = "none" /\ ~helper
    /\ hookPc = "reap" \/ (hookPc = "done" /\ flow = "cancelled") => hookAborted
    /\ hookPc = "next" => child \in {"none", "exited"} /\ ~helper
    /\ hookPc = "done" /\ flow # "failed" => child \in {"none", "exited"} /\ ~helper

LEMMA HookStart == HookRun!Init => HookInv
<1>1. HookRun!NoScript.helper = FALSE
  BY DEF HookRun!NoScript
<1> QED
  BY <1>1 DEF HookRun!Init, HookInv

LEMMA HookSteps == HookInv /\ HookRun!Next => HookInv'
<1> SUFFICES ASSUME HookInv, HookRun!Next PROVE HookInv'
  OBVIOUS
<1> USE DEF HookInv, HookRun!Return, HookRun!ChildRuns, HookRun!OutputClosed,
            HookRun!programVars, HookRun!Script, HookRun!NoScript
<1>1. CASE HookRun!BeginRun
  BY <1>1 DEF HookRun!BeginRun
<1>2. CASE HookRun!AllAllowed
  BY <1>2 DEF HookRun!AllAllowed
<1>3. CASE HookRun!StartCommand
  BY <1>3 DEF HookRun!StartCommand
<1>4. CASE HookRun!StartFails
  BY <1>4 DEF HookRun!StartFails
<1>5. CASE HookRun!WriteInput
  BY <1>5 DEF HookRun!WriteInput
<1>6. CASE HookRun!InputRefused
  BY <1>6 DEF HookRun!InputRefused
<1>7. CASE HookRun!CheckAbort
  BY <1>7 DEF HookRun!CheckAbort
<1>8. CASE HookRun!TryWait
  BY <1>8 DEF HookRun!TryWait
<1>9. CASE HookRun!Collect
  BY <1>9 DEF HookRun!Collect
<1>10. CASE HookRun!Reap
  BY <1>10 DEF HookRun!Reap
<1>11. CASE HookRun!ChildReads
  BY <1>11 DEF HookRun!ChildReads
<1>12. CASE HookRun!ChildPrints
  BY <1>12 DEF HookRun!ChildPrints
<1>13. CASE HookRun!ChildExits
  BY <1>13 DEF HookRun!ChildExits
<1>14. CASE HookRun!HelperEnds
  BY <1>14 DEF HookRun!HelperEnds
<1>15. CASE HookRun!Abort
  BY <1>15 DEF HookRun!Abort
<1> QED
  BY <1>1, <1>2, <1>3, <1>4, <1>5, <1>6, <1>7, <1>8, <1>9, <1>10, <1>11, <1>12, <1>13,
     <1>14, <1>15 DEF HookRun!Next, HookRun!Program, HookRun!Child

\* What comes after a hook run never races a command of it, unless it failed; a
\* signal that was set before it starts no command, and only a set one cancels.
THEOREM HooksLookAtomic == EachSpec => []RunsLookAtomic
<1>1. EachInit => HookInv
  BY HookStart DEF EachInit
<1>2. HookInv /\ [EachNext]_eachVars => HookInv'
  <2>1. HookInv /\ UNCHANGED hookVars => HookInv'
    BY DEF hookVars, HookInv
  <2> QED
    BY <2>1, HookSteps DEF EachNext, eachVars
<1>3. HookInv => RunsLookAtomic
  BY DEF HookInv, RunsLookAtomic, HookRun!RunsLookAtomic, HookRun!ChildRuns
<1> QED
  BY <1>1, <1>2, <1>3, PTL DEF EachSpec

(***************************************************************************)
(* VI.  The authorization of a call, under any policy                      *)
(***************************************************************************)

LEMMA LooserModes ==
    ASSUME NEW required, NEW tool, required[tool] \in Rules!Mode,
           NEW strict \in Rules!Mode, NEW loose \in Rules!Mode, Rules!AtLeast(loose, strict),
           NEW rules, NEW input, NEW override, NEW prompter,
           Rules!Authorize(Rules!PolicyOf(strict, required, rules),
                           tool, input, override, prompter) = "allow"
    PROVE  Rules!Authorize(Rules!PolicyOf(loose, required, rules),
                           tool, input, override, prompter) = "allow"
<1> DEFINE p == Rules!PolicyOf(strict, required, rules)
           q == Rules!PolicyOf(loose, required, rules)
<1>1. /\ p.mode = strict /\ p.required = required /\ q.mode = loose /\ q.required = required
      /\ q.allow = p.allow /\ q.deny = p.deny /\ q.ask = p.ask /\ q.denied = p.denied
  BY DEF Rules!PolicyOf
<1> HIDE DEF p, q
<1>2. \A m, n \in Rules!Mode :
        /\ Rules!ModeRank[m] \in Nat
        /\ Rules!ModeRank[m] >= 4 => m = "Allow"
        /\ Rules!AtLeast(m, "DangerFullAccess") <=> m \notin {"ReadOnly", "WorkspaceWrite"}
        /\ Rules!AtLeast(m, "Prompt") => m \in {"Prompt", "Allow"}
        /\ Rules!AtLeast(m, "Allow") => m = "Allow"
        /\ Rules!AtLeast(m, "WorkspaceWrite") => m # "ReadOnly"
  BY DEF Rules!Mode, Rules!ModeRank, Rules!AtLeast
<1>3. Rules!AtLeast(strict, required[tool]) => Rules!AtLeast(loose, required[tool])
  BY <1>2 DEF Rules!AtLeast
<1>4. Rules!DeniedOutright(q, tool, input) <=> Rules!DeniedOutright(p, tool, input)
  BY <1>1 DEF Rules!DeniedOutright
<1>5. Rules!Granted(p, tool, input) => Rules!Granted(q, tool, input)
  BY <1>1, <1>2, <1>3 DEF Rules!Granted
<1>6. Rules!MayEscalate(p, tool)
         => Rules!MayEscalate(q, tool) \/ Rules!Granted(q, tool, input)
  BY <1>1, <1>2 DEF Rules!MayEscalate, Rules!Granted
<1>7. Rules!Authorize(p, tool, input, override, prompter) = "allow"
  BY DEF p
<1> QED
  BY <1>1, <1>4, <1>5, <1>6, <1>7
     DEF Rules!Authorize, Rules!Evaluate, Rules!PromptOrDeny, q

\* More allow rules and fewer deny rules, in the same mode.
LEMMA LooserRules ==
    ASSUME NEW strict, NEW loose, NEW tool, NEW input, NEW override, NEW prompter,
           loose.mode = strict.mode, loose.required = strict.required,
           loose.ask = strict.ask, loose.denied = strict.denied,
           strict.allow \subseteq loose.allow, loose.deny \subseteq strict.deny,
           Rules!Authorize(strict, tool, input, override, prompter) = "allow"
    PROVE  Rules!Authorize(loose, tool, input, override, prompter) = "allow"
<1>1. Rules!Matches(strict.allow, tool, input) => Rules!Matches(loose.allow, tool, input)
  BY DEF Rules!Matches
<1>2. Rules!DeniedOutright(loose, tool, input) => Rules!DeniedOutright(strict, tool, input)
  BY DEF Rules!DeniedOutright, Rules!Matches
<1>3. Rules!Granted(strict, tool, input) => Rules!Granted(loose, tool, input)
  BY <1>1 DEF Rules!Granted
<1>4. Rules!MayEscalate(strict, tool) <=> Rules!MayEscalate(loose, tool)
  BY DEF Rules!MayEscalate
<1> QED
  BY <1>2, <1>3, <1>4 DEF Rules!Authorize, Rules!Evaluate, Rules!PromptOrDeny

----------------------------------------------------------------------------
(* The calls that are made *)

\* What was answered is what the configuration of that moment, which is still
\* the configuration, answers.
RulesInv ==
    /\ mode \in Rules!Mode
    /\ Rules!Made => /\ asked.tool \in {"bash", "WebFetch"}
                     /\ asked.outcome = Rules!Again(Rules!Configured)

LEMMA RulesStart == Rules!Init \/ Rules!NothingAsked => RulesInv
  BY DEF Rules!Init, Rules!NothingAsked, RulesInv, Rules!Made, Rules!Mode, Rules!ModeRank

LEMMA RulesSteps == RulesInv /\ Rules!Next => RulesInv'
<1> SUFFICES ASSUME RulesInv, Rules!Next PROVE RulesInv'
  OBVIOUS
<1>1. PICK tool \in {"bash", "WebFetch"}, input \in {"i1", "i2"},
           override \in Rules!Override, prompter \in Rules!Prompter :
        asked' = [tool |-> tool, input |-> input, override |-> override,
                  prompter |-> prompter,
                  outcome |-> Rules!Authorize(Rules!Configured, tool, input,
                                              override, prompter)]
  BY DEF Rules!Next, Rules!Ask
<1>2. mode' = mode /\ config' = config
  BY DEF Rules!Next, Rules!Ask
<1>3. Rules!Configured' = Rules!Configured
  BY <1>2 DEF Rules!Configured
<1>4. asked'.tool = tool /\ asked'.outcome = Rules!Again(Rules!Configured)'
  BY <1>1, <1>3 DEF Rules!Again
<1> QED
  BY <1>2, <1>4 DEF RulesInv

\* A more permissive mode or one more allow rule never refuses what was let
\* through, and one more deny rule never lets a call through.
THEOREM LooserStaysLooser == EachSpec => []LooserIsLooser
<1>1. EachInit => RulesInv
  BY RulesStart DEF EachInit
<1>2. RulesInv /\ [EachNext]_eachVars => RulesInv'
  <2>1. RulesInv /\ UNCHANGED ruleVars => RulesInv'
    BY DEF ruleVars, RulesInv, Rules!Made, Rules!Configured, Rules!Again
  <2> QED
    BY <2>1, RulesSteps DEF EachNext, eachVars
<1>3. RulesInv => LooserIsLooser
  <2> SUFFICES ASSUME RulesInv, Rules!Made PROVE LooserIsLooser
    BY DEF LooserIsLooser, Rules!LooserIsLooser
  <2>1. /\ asked.tool \in {"bash", "WebFetch"} /\ mode \in Rules!Mode
        /\ asked.outcome = Rules!Again(Rules!Configured)
    BY DEF RulesInv, Rules!Made
  <2>2. Rules!Requirements[asked.tool] \in Rules!Mode
    BY <2>1 DEF Rules!Requirements, Rules!Mode, Rules!ModeRank
  <2>3. ASSUME NEW looser \in Rules!Mode, Rules!AtLeast(looser, mode),
               asked.outcome = "allow"
        PROVE  Rules!Again(Rules!PolicyOf(looser, Rules!Requirements, config)) = "allow"
    <3>1. Rules!Authorize(Rules!PolicyOf(mode, Rules!Requirements, config), asked.tool,
                          asked.input, asked.override, asked.prompter) = "allow"
      BY <2>1, <2>3 DEF Rules!Again, Rules!Configured
    <3>2. Rules!Authorize(Rules!PolicyOf(looser, Rules!Requirements, config), asked.tool,
                          asked.input, asked.override, asked.prompter) = "allow"
      BY <2>1, <2>2, <2>3, <3>1, LooserModes
    <3> QED
      BY <3>2 DEF Rules!Again
  <2>4. ASSUME NEW r
        PROVE  /\ Rules!Again([Rules!Configured EXCEPT !.deny = @ \cup Rules!ParseRules({r})])
                    = "allow" => asked.outcome = "allow"
               /\ asked.outcome = "allow" =>
                    Rules!Again([Rules!Configured EXCEPT !.allow = @ \cup Rules!ParseRules({r})])
                      = "allow"
    <3> DEFINE p == Rules!Configured
               more == Rules!ParseRules({r})
               allowing == [p EXCEPT !.allow = @ \cup more]
               denying == [p EXCEPT !.deny = @ \cup more]
    <3>1. /\ allowing.mode = p.mode /\ allowing.required = p.required
          /\ allowing.allow = p.allow \cup more /\ allowing.deny = p.deny
          /\ allowing.ask = p.ask /\ allowing.denied = p.denied
      BY DEF Rules!Configured, Rules!PolicyOf
    <3>2. /\ denying.mode = p.mode /\ denying.required = p.required
          /\ denying.allow = p.allow /\ denying.deny = p.deny \cup more
          /\ denying.ask = p.ask /\ denying.denied = p.denied
      BY DEF Rules!Configured, Rules!PolicyOf
    <3> HIDE DEF p, more, allowing, denying
    <3>3. Rules!Again(p) = "allow" => Rules!Again(allowing) = "allow"
      BY <3>1, LooserRules DEF Rules!Again
    <3>4. Rules!Again(denying) = "allow" => Rules!Again(p) = "allow"
      BY <3>2, LooserRules DEF Rules!Again
    <3> QED
      BY <2>1, <3>3, <3>4 DEF p, more, allowing, denying
  <2> QED
    BY <2>3, <2>4 DEF LooserIsLooser, Rules!LooserIsLooser
<1> QED
  BY <1>1, <1>2, <1>3, PTL DEF EachSpec

=============================================================================
