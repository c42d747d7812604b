---------------------------- MODULE AnswerProofs -----------------------------
(***************************************************************************)
(* Theorems about the answers of a model, as MCTranscripts puts together   *)
(* what becomes of them.                                                   *)
(*                                                                         *)
(*   I    Folds over finite sets of numbers, in their order                *)
(*   II   OpenAiStream: the events of an answer open and close its blocks  *)
(*        in turn, for any calls, chunks and fragments                     *)
(*   III  OpenAiStream: each call reaches its client whole, and once       *)
(*   IV   Trident: what its stages leave, and the newest writes, on any    *)
(*        transcript of the loop that it has compacted before              *)
(*   V    AnthropicStream: the events of an answer come in order and whole *)
(*        however its body is cut.                                         *)
(***************************************************************************)
EXTENDS MCTranscripts, SequenceTheorems, FiniteSetTheorems, WellFoundedInduction, TLAPS

----------------------------------------------------------------------------
(* I. Folds                                                                 *)

\* Induction, as a fact about a set of naturals.
LEMMA AllNaturals ==
    ASSUME NEW S \in SUBSET Nat, 0 \in S, \A n \in S : n + 1 \in S
    PROVE  S = Nat
<1> DEFINE T == Nat \ S
           Less == OpToRel(<, Nat)
<1>1. IsWellFoundedOn(Less, Nat)
  BY NatLessThanWellFounded
<1>2. \A y, x \in Nat : y < x => <<y, x>> \in Less
  BY DEF OpToRel
<1> HIDE DEF Less
<1> SUFFICES ASSUME T # {} PROVE FALSE
  OBVIOUS
<1>3. PICK x \in T : \A y \in T : ~ (<<y, x>> \in Less)
  BY <1>1, WFMin
<1>4. x - 1 \in Nat /\ x - 1 < x /\ x = (x - 1) + 1
  OBVIOUS
<1>5. x - 1 \notin T
  BY <1>2, <1>3, <1>4, Zenon
<1> QED
  BY <1>4, <1>5

\* The greatest member, which a fold takes off last.
Greatest(s) == CHOOSE x \in s : \A y \in s : x >= y

LEMMA GreatestIsOne ==
    ASSUME NEW s \in SUBSET Nat, IsFiniteSet(s), s # {}
    PROVE  Greatest(s) \in s /\ \E x \in s : \A y \in s : x >= y
<1> DEFINE Has(t) == t # {} => \E x \in t : \A y \in t : x >= y
           T == {n \in Nat : \A t \in SUBSET s : Cardinality(t) = n => Has(t)}
<1>1. \A t \in SUBSET s : IsFiniteSet(t) /\ Cardinality(t) \in Nat /\ t \in SUBSET Nat
  BY FS_Subset, FS_CardinalityType
<1>2. 0 \in T
  <2>1. \A t \in SUBSET s : Cardinality(t) = 0 => t = {}
    BY <1>1, FS_EmptySet
  <2> QED
    BY <2>1
<1>3. ASSUME NEW n \in T PROVE n + 1 \in T
  <2>1. n \in Nat /\ \A t \in SUBSET s : Cardinality(t) = n => Has(t)
    OBVIOUS
  <2>2. ASSUME NEW t \in SUBSET s, Cardinality(t) = n + 1, t # {} PROVE \E x \in t : \A y \in t : x >= y
    <3>1. PICK e \in t : TRUE
      BY <2>2
    <3>2. Cardinality(t \ {e}) = n
      <4>1. Cardinality(t \ {e}) = Cardinality(t) - 1
        BY <1>1, FS_RemoveElement
      <4> QED
        BY <2>1, <2>2, <4>1
    <3>3. Has(t \ {e})
      BY <2>1, <3>2
    <3>4. t \in SUBSET Nat
      BY <1>1
    <3>5. CASE t \ {e} = {}
      BY <3>4, <3>5
    <3>6. CASE t \ {e} # {}
      <4>1. PICK x \in t \ {e} : \A y \in t \ {e} : x >= y
        BY <3>3, <3>6
      <4>2. x \in Nat /\ e \in Nat /\ \A y \in t : y \in Nat
        BY <3>4
      <4>3. CASE x >= e
        BY <4>1, <4>2, <4>3
      <4>4. CASE e >= x
        BY <4>1, <4>2, <4>4
      <4> QED
        BY <4>2, <4>3, <4>4
    <3> QED
      BY <3>5, <3>6
  <2> QED
    BY <2>1, <2>2
<1>4. T = Nat
  <2> HIDE DEF T
  <2> QED
    BY <1>2, <1>3, AllNaturals DEF T
<1>5. Has(s)
  BY <1>1, <1>4
<1> QED
  BY <1>5 DEF Greatest

\* One step of a fold, with the function it is applied to as an argument.
Step(g, base, step, s) ==
    IF s = {} THEN base ELSE step[<<Greatest(s), g[s \ {Greatest(s)}]>>]

LEMMA OneLess ==
    ASSUME NEW S \in SUBSET Nat, IsFiniteSet(S), NEW s \in SUBSET S, s # {}
    PROVE  /\ Greatest(s) \in s /\ s \ {Greatest(s)} \in SUBSET S
           /\ Cardinality(s) \in Nat /\ Cardinality(s \ {Greatest(s)}) = Cardinality(s) - 1
<1>1. IsFiniteSet(s) /\ s \in SUBSET Nat
  BY FS_Subset
<1> DEFINE m == Greatest(s)
<1>2. m \in s
  BY <1>1, GreatestIsOne
<1> HIDE DEF m
<1>3. Cardinality(s) \in Nat /\ Cardinality(s \ {m}) = Cardinality(s) - 1
  BY <1>1, <1>2, FS_RemoveElement, FS_CardinalityType
<1> QED
  BY <1>2, <1>3 DEF m

LEMMA GreatestIn ==
    ASSUME NEW S \in SUBSET Nat, IsFiniteSet(S), NEW s \in SUBSET S, s # {}
    PROVE  Greatest(s) \in s /\ \A y \in s : Greatest(s) >= y
<1>1. IsFiniteSet(s) /\ s \in SUBSET Nat
  BY FS_Subset
<1>2. \E x \in s : \A y \in s : x >= y
  BY <1>1, GreatestIsOne
<1> QED
  BY <1>2 DEF Greatest

\* The folds over all subsets, as one function.
IsFold(g, S, base, step) == g = [s \in SUBSET S |-> Step(g, base, step, s)]

LEMMA FoldExists ==
    ASSUME NEW S \in SUBSET Nat, IsFiniteSet(S), NEW base, NEW step
    PROVE  \E g : IsFold(g, S, base, step)
<1> DEFINE UpTo(g, n) == \A s \in SUBSET S : Cardinality(s) <= n => g[s] = Step(g, base, step, s)
           T == {n \in Nat : \E g : UpTo(g, n)}
<1>1. \A s \in SUBSET S : Cardinality(s) \in Nat /\ (Cardinality(s) = 0 <=> s = {})
  <2>1. \A s \in SUBSET S : IsFiniteSet(s)
    BY FS_Subset
  <2> QED
    BY <2>1, FS_CardinalityType, FS_EmptySet
<1>2. 0 \in T
  <2> DEFINE g == [s \in SUBSET S |-> base]
  <2>1. \A s \in SUBSET S : g[s] = base
    OBVIOUS
  <2> HIDE DEF g
  <2>2. UpTo(g, 0)
    BY <1>1, <2>1 DEF Step
  <2> QED
    BY <2>2
<1>3. ASSUME NEW n \in T PROVE n + 1 \in T
  <2>1. n \in Nat /\ \E g : UpTo(g, n)
    OBVIOUS
  <2>2. PICK g : UpTo(g, n)
    BY <2>1
  <2> DEFINE h == [s \in SUBSET S |-> IF Cardinality(s) <= n THEN g[s] ELSE Step(g, base, step, s)]
  <2>3. \A s \in SUBSET S : h[s] = IF Cardinality(s) <= n THEN g[s] ELSE Step(g, base, step, s)
    OBVIOUS
  <2>4. \A s \in SUBSET S : h[s] = Step(g, base, step, s)
    BY <2>2, <2>3
  <2> HIDE DEF h
  <2>5. ASSUME NEW s \in SUBSET S, Cardinality(s) <= n + 1 PROVE h[s] = Step(h, base, step, s)
    <3>1. CASE s = {}
      BY <2>4, <3>1 DEF Step
    <3>2. CASE s # {}
      <4> DEFINE r == s \ {Greatest(s)}
      <4>1. r \in SUBSET S /\ Cardinality(r) <= n
        BY <2>1, <2>5, <3>2, OneLess
      <4>2. h[r] = g[r]
        BY <2>3, <4>1
      <4> QED
        BY <2>4, <3>2, <4>2 DEF Step
    <3> QED
      BY <3>1, <3>2
  <2>6. UpTo(h, n + 1)
    BY <2>5
  <2> QED
    BY <2>1, <2>6
<1>4. T = Nat
  <2> HIDE DEF T
  <2> QED
    BY <1>2, <1>3, AllNaturals DEF T
<1>5. PICK g : UpTo(g, Cardinality(S))
  BY <1>1, <1>4
<1> DEFINE f == [s \in SUBSET S |-> g[s]]
<1>6. \A s \in SUBSET S : f[s] = g[s]
  OBVIOUS
<1>7. \A s \in SUBSET S : Cardinality(s) <= Cardinality(S)
  BY FS_Subset
<1>8. \A s \in SUBSET S : g[s] = Step(f, base, step, s)
  <2> TAKE s \in SUBSET S
  <2>1. g[s] = Step(g, base, step, s)
    BY <1>5, <1>7
  <2>2. s \ {Greatest(s)} \in SUBSET S
    OBVIOUS
  <2>3. f[s \ {Greatest(s)}] = g[s \ {Greatest(s)}]
    BY <1>6, <2>2
  <2> HIDE DEF f
  <2> QED
    BY <2>1, <2>3 DEF Step
<1>9. f = [s \in SUBSET S |-> Step(f, base, step, s)]
  <2>1. f = [s \in SUBSET S |-> g[s]]
    OBVIOUS
  <2> HIDE DEF f
  <2> QED
    BY <1>8, <2>1
<1> QED
  BY <1>9 DEF IsFold

\* What the fold of nothing has, and every step keeps, the folds have.
LEMMA FoldKeeps ==
    ASSUME NEW S \in SUBSET Nat, IsFiniteSet(S), NEW g, NEW good, g[{}] \in good[{}],
           \A s \in SUBSET S : s # {} /\ g[s \ {Greatest(s)}] \in good[s \ {Greatest(s)}]
                                   => g[s] \in good[s]
    PROVE  \A s \in SUBSET S : g[s] \in good[s]
<1> DEFINE T == {n \in Nat : \A s \in SUBSET S : Cardinality(s) = n => g[s] \in good[s]}
<1>1. \A s \in SUBSET S : Cardinality(s) \in Nat /\ (Cardinality(s) = 0 <=> s = {})
  <2>1. \A s \in SUBSET S : IsFiniteSet(s)
    BY FS_Subset
  <2> QED
    BY <2>1, FS_CardinalityType, FS_EmptySet
<1>2. 0 \in T
  BY <1>1
<1>3. ASSUME NEW n \in T PROVE n + 1 \in T
  <2>1. n \in Nat /\ \A s \in SUBSET S : Cardinality(s) = n => g[s] \in good[s]
    OBVIOUS
  <2>2. ASSUME NEW s \in SUBSET S, Cardinality(s) = n + 1 PROVE g[s] \in good[s]
    <3>1. s # {}
      BY <1>1, <2>1, <2>2
    <3> DEFINE r == s \ {Greatest(s)}
    <3>2. r \in SUBSET S /\ Cardinality(r) = n
      BY <2>1, <2>2, <3>1, OneLess
    <3>3. g[r] \in good[r]
      BY <2>1, <3>2
    <3> QED
      BY <3>1, <3>3
  <2> QED
    BY <2>1, <2>2
<1>4. T = Nat
  <2> HIDE DEF T
  <2> QED
    BY <1>2, <1>3, AllNaturals DEF T
<1> QED
  BY <1>1, <1>4

----------------------------------------------------------------------------
(* II. Blocks                                                               *)

CallState == [named : BOOLEAN, arguments : Nat, emitted : Nat,
              started : BOOLEAN, stopped : BOOLEAN]

StateType == [messageStarted : BOOLEAN, thinkingStarted : BOOLEAN, thinkingFinished : BOOLEAN,
              textStarted : BOOLEAN, textFinished : BOOLEAN, finished : BOOLEAN,
              calls : [Call -> CallState]]

EventType == [kind : {"message_start", "start", "delta", "stop", "message_stop"}, index : Nat,
              block : [kind : {"thinking", "text", "tool"}, call : Nat],
              part : Seq([call : Nat, n : Nat])]

\* A state with the events that lead to it.
Told == [st : StateType, events : Seq(EventType)]

\* Blocks by their index, open or not; an event fits them, and changes them.
BlockFits(b, e) ==
    LET held == e.index \in DOMAIN b /\ b[e.index] IN
    CASE e.kind = "start" -> e.index \notin DOMAIN b
      [] e.kind \in {"delta", "stop"} -> held
      [] e.kind = "message_stop" -> \A index \in DOMAIN b : ~b[index]
      [] OTHER -> DOMAIN b = {}

BlockAfter(b, e) ==
    IF e.kind \in {"start", "stop"}
    THEN [i \in DOMAIN b \cup {e.index} |-> IF i = e.index THEN e.kind = "start" ELSE b[i]]
    ELSE b

\* Calls by their index, as a client knows them: with how many fragments, and
\* whether they are complete.  Calls have the blocks from r.offset on.  The
\* program ("cli") has one place for what is not complete, and completes what
\* is there with any block that stops.
CallFits(r, v, e) ==
    LET alone == r.who = "cli" => \A c \in Call : v[c].at # "open" IN
    IF e.block.kind = "tool"
    THEN LET c == e.block.call IN
         /\ c \in Call /\ e.index = c + r.offset
         /\ CASE e.kind = "start" -> v[c].at = "none" /\ alone
              [] e.kind = "delta" ->
                   /\ v[c].at = "open"
                   /\ e.part = [k \in 1..Len(e.part) |-> [call |-> c, n |-> v[c].n + k]]
              [] e.kind = "stop" -> v[c].at = "open" \/ (v[c].at = "done" /\ alone)
              [] OTHER -> TRUE
    ELSE e.index < r.offset /\ (e.kind = "stop" /\ e.block.kind = "thinking" => alone)

CallAfter(r, v, e) ==
    IF e.block.kind = "tool" THEN
       LET c == e.block.call IN
       CASE e.kind = "start" -> [v EXCEPT ![c] = [at |-> "open", n |-> 0]]
         [] e.kind = "delta" -> [v EXCEPT ![c].n = @ + Len(e.part)]
         [] e.kind = "stop" -> [v EXCEPT ![c].at = "done"]
         [] OTHER -> v
    ELSE IF e.kind = "stop" /\ r.who = "cli"
    THEN [c \in Call |-> IF v[c].at = "open" THEN [v[c] EXCEPT !.at = "done"] ELSE v[c]]
    ELSE v

\* A reader of events looks at blocks or at calls.
Blocks == [of |-> "blocks", who |-> "", offset |-> 0]
CallsFor(who, offset) == [of |-> "calls", who |-> who, offset |-> offset]

FitsIn(r, b, e) == IF r.of = "blocks" THEN BlockFits(b, e) ELSE CallFits(r, b, e)
After(r, b, e) == IF r.of = "blocks" THEN BlockAfter(b, e) ELSE CallAfter(r, b, e)

\* Events that fit, one after the other, take a reader from b to d.
Runs(r, b, evs, d) ==
    \E t : /\ t[0] = b /\ t[Len(evs)] = d
           /\ \A k \in 1..Len(evs) : FitsIn(r, t[k - 1], evs[k]) /\ t[k] = After(r, t[k - 1], evs[k])

LEMMA NoneRuns == \A r, b : Runs(r, b, << >>, b)
<1> TAKE r, b
<1> DEFINE t == [k \in {0} |-> b]
<1>1. t[0] = b /\ Len(<< >>) = 0
  OBVIOUS
<1>2. 1..0 = {}
  OBVIOUS
<1> HIDE DEF t
<1> QED
  BY <1>1, <1>2 DEF Runs

LEMMA OneRuns ==
    ASSUME NEW r, NEW b, NEW e \in EventType, FitsIn(r, b, e)
    PROVE  Runs(r, b, <<e>>, After(r, b, e))
<1> DEFINE t == [k \in {0, 1} |-> IF k = 0 THEN b ELSE After(r, b, e)]
<1>1. t[0] = b /\ t[1] = After(r, b, e)
  OBVIOUS
<1>2. Len(<<e>>) = 1 /\ <<e>>[1] = e
  OBVIOUS
<1>3. \A k \in 1..1 : k = 1 /\ k - 1 = 0
  OBVIOUS
<1> HIDE DEF t
<1> QED
  BY <1>1, <1>2, <1>3 DEF Runs

LEMMA MoreRuns ==
    ASSUME NEW r, NEW b, NEW c, NEW d, NEW first \in Seq(EventType), NEW second \in Seq(EventType),
           Runs(r, b, first, c), Runs(r, c, second, d)
    PROVE  Runs(r, b, first \o second, d)
<1> DEFINE both == first \o second
<1>1. PICK t : /\ t[0] = b /\ t[Len(first)] = c
               /\ \A k \in 1..Len(first) : FitsIn(r, t[k - 1], first[k]) /\ t[k] = After(r, t[k - 1], first[k])
  BY DEF Runs
<1>2. PICK u : /\ u[0] = c /\ u[Len(second)] = d
               /\ \A k \in 1..Len(second) : FitsIn(r, u[k - 1], second[k]) /\ u[k] = After(r, u[k - 1], second[k])
  BY DEF Runs
<1>3. /\ Len(first) \in Nat /\ Len(second) \in Nat /\ Len(both) = Len(first) + Len(second)
      /\ \A k \in 1..Len(first) : both[k] = first[k]
      /\ \A k \in 1..Len(second) : both[Len(first) + k] = second[k]
  <2>1. \A k \in 1..(Len(first) + Len(second)) :
            both[k] = IF k <= Len(first) THEN first[k] ELSE second[k - Len(first)]
    OBVIOUS
  <2>2. Len(first) \in Nat /\ Len(second) \in Nat /\ Len(both) = Len(first) + Len(second)
    OBVIOUS
  <2> HIDE DEF both
  <2>3. \A k \in 1..Len(first) : k \in 1..(Len(first) + Len(second)) /\ k <= Len(first)
    BY <2>2
  <2>4. \A k \in 1..Len(second) : /\ Len(first) + k \in 1..(Len(first) + Len(second))
                                  /\ ~(Len(first) + k <= Len(first))
                                  /\ (Len(first) + k) - Len(first) = k
    BY <2>2
  <2> QED
    BY <2>1, <2>2, <2>3, <2>4
<1> HIDE DEF both
<1> DEFINE v == [k \in 0..Len(both) |-> IF k <= Len(first) THEN t[k] ELSE u[k - Len(first)]]
<1>4. \A k \in 0..Len(both) : v[k] = IF k <= Len(first) THEN t[k] ELSE u[k - Len(first)]
  OBVIOUS
<1> HIDE DEF v
<1>5. v[0] = b
  BY <1>1, <1>3, <1>4
<1>6. \A k \in 0..Len(second) : v[Len(first) + k] = u[k]
  <2> TAKE k \in 0..Len(second)
  <2>1. Len(first) + k \in 0..Len(both) /\ (Len(first) + k) - Len(first) = k
    BY <1>3
  <2>2. CASE k = 0
    BY <1>1, <1>2, <1>3, <1>4, <2>1, <2>2
  <2>3. CASE k # 0
    <3>1. ~(Len(first) + k <= Len(first))
      BY <1>3, <2>3
    <3> QED
      BY <1>4, <2>1, <3>1
  <2> QED
    BY <2>2, <2>3
<1>7. v[Len(both)] = d
  BY <1>2, <1>3, <1>6
<1>8. ASSUME NEW k \in 1..Len(both)
      PROVE  FitsIn(r, v[k - 1], both[k]) /\ v[k] = After(r, v[k - 1], both[k])
  <2>1. CASE k <= Len(first)
    <3>1. k \in 1..Len(first) /\ k \in 0..Len(both) /\ k - 1 \in 0..Len(both) /\ k - 1 <= Len(first)
      BY <1>3, <2>1
    <3>2. v[k] = t[k] /\ v[k - 1] = t[k - 1]
      BY <1>4, <2>1, <3>1
    <3> QED
      BY <1>1, <1>3, <3>1, <3>2
  <2>2. CASE k > Len(first)
    <3>1. PICK j \in 1..Len(second) : k = Len(first) + j /\ k - 1 = Len(first) + (j - 1)
      <4>1. k - Len(first) \in 1..Len(second) /\ k = Len(first) + (k - Len(first))
            /\ k - 1 = Len(first) + ((k - Len(first)) - 1)
        BY <1>3, <2>2
      <4> QED
        BY <4>1
    <3>2. j \in 0..Len(second) /\ j - 1 \in 0..Len(second)
      BY <1>3
    <3>3. v[k] = u[j] /\ v[k - 1] = u[j - 1]
      BY <1>6, <3>1, <3>2
    <3>4. both[k] = second[j]
      BY <1>3, <3>1
    <3> QED
      BY <1>2, <3>3, <3>4
  <2> QED
    BY <1>3, <2>1, <2>2
<1>9. Runs(r, b, both, d)
  BY <1>5, <1>7, <1>8 DEF Runs
<1> QED
  BY <1>9 DEF both

LEMMA FirstRuns ==
    ASSUME NEW r, NEW b, NEW d, NEW evs \in Seq(EventType), evs # << >>, Runs(r, b, evs, d)
    PROVE  FitsIn(r, b, Head(evs)) /\ Runs(r, After(r, b, Head(evs)), Tail(evs), d)
<1>1. PICK t : /\ t[0] = b /\ t[Len(evs)] = d
               /\ \A k \in 1..Len(evs) : FitsIn(r, t[k - 1], evs[k]) /\ t[k] = After(r, t[k - 1], evs[k])
  BY DEF Runs
<1>2. /\ Len(evs) \in Nat \ {0} /\ Head(evs) = evs[1] /\ Len(Tail(evs)) = Len(evs) - 1
      /\ \A k \in 1..(Len(evs) - 1) : Tail(evs)[k] = evs[k + 1]
  <2>1. Len(evs) \in Nat \ {0}
    BY EmptySeq
  <2> QED
    BY <2>1, HeadTailProperties
<1>3. FitsIn(r, b, Head(evs)) /\ t[1] = After(r, b, Head(evs))
  <2>1. 1 \in 1..Len(evs) /\ 1 - 1 = 0
    BY <1>2
  <2> QED
    BY <1>1, <1>2, <2>1
<1> DEFINE u == [k \in 0..(Len(evs) - 1) |-> t[k + 1]]
<1>4. \A k \in 0..(Len(evs) - 1) : u[k] = t[k + 1]
  OBVIOUS
<1> HIDE DEF u
<1>5. u[0] = After(r, b, Head(evs)) /\ u[Len(Tail(evs))] = d
  <2>1. 0 \in 0..(Len(evs) - 1) /\ Len(evs) - 1 \in 0..(Len(evs) - 1) /\ (Len(evs) - 1) + 1 = Len(evs)
        /\ 0 + 1 = 1
    BY <1>2
  <2> QED
    BY <1>1, <1>2, <1>3, <1>4, <2>1
<1>6. ASSUME NEW k \in 1..Len(Tail(evs))
      PROVE  FitsIn(r, u[k - 1], Tail(evs)[k]) /\ u[k] = After(r, u[k - 1], Tail(evs)[k])
  <2>1. /\ k \in 1..(Len(evs) - 1) /\ k \in 0..(Len(evs) - 1) /\ k - 1 \in 0..(Len(evs) - 1)
        /\ k + 1 \in 1..Len(evs) /\ (k - 1) + 1 = k /\ (k + 1) - 1 = k
    BY <1>2
  <2>2. u[k] = t[k + 1] /\ u[k - 1] = t[k] /\ Tail(evs)[k] = evs[k + 1]
    BY <1>2, <1>4, <2>1
  <2> QED
    BY <1>1, <2>1, <2>2
<1> QED
  BY <1>3, <1>5, <1>6 DEF Runs

----------------------------------------------------------------------------
(* What a state has told of its blocks.                                     *)

Status(st, i) ==
    IF i = 0 /\ st.thinkingStarted THEN IF st.thinkingFinished THEN "closed" ELSE "open"
    ELSE IF i = Streams!TextBlockIndex(st) /\ st.textStarted
         THEN IF st.textFinished THEN "closed" ELSE "open"
    ELSE LET c == i - Streams!ToolIndexOffset(st) IN
         IF c \in Call /\ st.calls[c].started
         THEN IF st.calls[c].stopped THEN "closed" ELSE "open"
         ELSE "none"

Shown(st) == [i \in {k \in Nat : Status(st, k) # "none"} |-> Status(st, i) = "open"]

LEMMA StatusIsOne == \A st, i : Status(st, i) \in {"none", "open", "closed"}
  BY DEF Status

LEMMA ShowStart ==
    ASSUME NEW old, NEW new, NEW e \in EventType, e.kind = "start",
           Status(old, e.index) = "none", Status(new, e.index) = "open",
           \A i \in Nat \ {e.index} : Status(new, i) = Status(old, i)
    PROVE  Runs(Blocks, Shown(old), <<e>>, Shown(new))
<1>1. e.index \in Nat
  BY DEF EventType
<1>2. FitsIn(Blocks, Shown(old), e)
  BY DEF FitsIn, BlockFits, Blocks, Shown
<1>3. {k \in Nat : Status(new, k) # "none"} = {k \in Nat : Status(old, k) # "none"} \cup {e.index}
  BY <1>1
<1>4. After(Blocks, Shown(old), e) = Shown(new)
  <2> DEFINE D == {k \in Nat : Status(old, k) # "none"}
  <2>1. After(Blocks, Shown(old), e) = [i \in D \cup {e.index} |->
            IF i = e.index THEN TRUE ELSE Shown(old)[i]]
    BY DEF After, BlockAfter, Blocks, Shown
  <2>2. \A i \in D : i # e.index => Shown(old)[i] = (Status(new, i) = "open")
    BY DEF Shown
  <2>3. Shown(new) = [i \in D \cup {e.index} |-> Status(new, i) = "open"]
    BY <1>3 DEF Shown
  <2>4. \A i \in D \cup {e.index} :
            (IF i = e.index THEN TRUE ELSE Shown(old)[i]) = (Status(new, i) = "open")
    BY <2>2
  <2> HIDE DEF D
  <2> QED
    BY <2>1, <2>3, <2>4
<1> QED
  BY <1>2, <1>4, OneRuns

LEMMA ShowDelta ==
    ASSUME NEW old, NEW new, NEW e \in EventType, e.kind = "delta", Status(old, e.index) = "open",
           \A i \in Nat : Status(new, i) = Status(old, i)
    PROVE  Runs(Blocks, Shown(old), <<e>>, Shown(new))
<1>1. e.index \in Nat
  BY DEF EventType
<1>2. FitsIn(Blocks, Shown(old), e)
  BY <1>1 DEF FitsIn, BlockFits, Blocks, Shown
<1>3. Shown(new) = Shown(old)
  BY DEF Shown
<1>4. After(Blocks, Shown(old), e) = Shown(old)
  BY DEF After, BlockAfter, Blocks
<1> QED
  BY <1>2, <1>3, <1>4, OneRuns

LEMMA ShowStop ==
    ASSUME NEW old, NEW new, NEW e \in EventType, e.kind = "stop",
           Status(old, e.index) = "open", Status(new, e.index) = "closed",
           \A i \in Nat \ {e.index} : Status(new, i) = Status(old, i)
    PROVE  Runs(Blocks, Shown(old), <<e>>, Shown(new))
<1>1. e.index \in Nat
  BY DEF EventType
<1>2. FitsIn(Blocks, Shown(old), e)
  BY <1>1 DEF FitsIn, BlockFits, Blocks, Shown
<1> DEFINE D == {k \in Nat : Status(old, k) # "none"}
<1>3. {k \in Nat : Status(new, k) # "none"} = D /\ D \cup {e.index} = D
  BY <1>1
<1>4. After(Blocks, Shown(old), e) = Shown(new)
  <2>1. After(Blocks, Shown(old), e) = [i \in D \cup {e.index} |->
            IF i = e.index THEN FALSE ELSE Shown(old)[i]]
    BY DEF After, BlockAfter, Blocks, Shown
  <2>2. \A i \in D : i # e.index => Shown(old)[i] = (Status(new, i) = "open")
    BY DEF Shown
  <2>3. Shown(new) = [i \in D |-> Status(new, i) = "open"]
    BY <1>3 DEF Shown
  <2>4. \A i \in D : (IF i = e.index THEN FALSE ELSE Shown(old)[i]) = (Status(new, i) = "open")
    BY <2>2
  <2> HIDE DEF D
  <2>5. After(Blocks, Shown(old), e) = [i \in D |-> IF i = e.index THEN FALSE ELSE Shown(old)[i]]
    BY <1>3, <2>1
  <2> QED
    BY <2>3, <2>4, <2>5
<1> QED
  BY <1>2, <1>4, OneRuns

----------------------------------------------------------------------------
(* The operators of StreamState.                                            *)

\* Events that take the blocks b to what the state has told of them.
Tells(b, x) == x \in Told /\ Runs(Blocks, b, x.events, Shown(x.st))

LEMMA EmitTells ==
    ASSUME NEW b, NEW x, Tells(b, x), NEW new \in StateType, NEW evs \in Seq(EventType),
           Runs(Blocks, Shown(x.st), evs, Shown(new))
    PROVE  Tells(b, Streams!Emit(x, new, evs)) /\ Streams!Emit(x, new, evs).st = new
<1>1. x.st \in StateType /\ x.events \in Seq(EventType) /\ Runs(Blocks, b, x.events, Shown(x.st))
  BY DEF Tells, Told
<1>2. Runs(Blocks, b, x.events \o evs, Shown(new)) /\ x.events \o evs \in Seq(EventType)
  BY <1>1, MoreRuns
<1> DEFINE y == Streams!Emit(x, new, evs)
<1>3. y.st = new /\ y.events = x.events \o evs /\ y \in Told
  BY <1>2 DEF Streams!Emit, Told
<1> QED
  BY <1>2, <1>3 DEF Tells

LEMMA EmitOneTells ==
    ASSUME NEW b, NEW x, Tells(b, x), NEW new \in StateType, NEW e \in EventType,
           Runs(Blocks, Shown(x.st), <<e>>, Shown(new))
    PROVE  Tells(b, Streams!Emit(x, new, <<e>>)) /\ Streams!Emit(x, new, <<e>>).st = new
<1>1. <<e>> \in Seq(EventType)
  OBVIOUS
<1> QED
  BY <1>1, EmitTells

LEMMA EventsAreTyped ==
    ASSUME NEW index \in Nat, NEW c \in Nat, NEW part \in Seq([call : Nat, n : Nat])
    PROVE  /\ Streams!Thinking \in [kind : {"thinking", "text", "tool"}, call : Nat]
           /\ Streams!Text \in [kind : {"thinking", "text", "tool"}, call : Nat]
           /\ Streams!ToolUse(c) \in [kind : {"thinking", "text", "tool"}, call : Nat]
           /\ \A block \in [kind : {"thinking", "text", "tool"}, call : Nat] :
                 /\ Streams!Start(index, block) \in EventType
                 /\ Streams!Start(index, block).kind = "start"
                 /\ Streams!Start(index, block).index = index
                 /\ Streams!Stop(index, block) \in EventType
                 /\ Streams!Stop(index, block).kind = "stop"
                 /\ Streams!Stop(index, block).index = index
                 /\ Streams!Delta(index, block, part) \in EventType
                 /\ Streams!Delta(index, block, part).kind = "delta"
                 /\ Streams!Delta(index, block, part).index = index
<1>1. << >> \in Seq([call : Nat, n : Nat])
  OBVIOUS
<1> QED
  BY <1>1 DEF Streams!Thinking, Streams!Text, Streams!ToolUse, Streams!Start, Streams!Stop,
              Streams!Delta, Streams!Event, EventType

LEMMA ToolEventsAreTyped ==
    ASSUME NEW index \in Nat, NEW c \in Call
    PROVE  /\ Streams!Start(index, Streams!ToolUse(c)) \in EventType
           /\ Streams!Start(index, Streams!ToolUse(c)).kind = "start"
           /\ Streams!Start(index, Streams!ToolUse(c)).index = index
           /\ Streams!Stop(index, Streams!ToolUse(c)) \in EventType
           /\ Streams!Stop(index, Streams!ToolUse(c)).kind = "stop"
           /\ Streams!Stop(index, Streams!ToolUse(c)).index = index
           /\ \A part \in Seq([call : Nat, n : Nat]) :
                 /\ Streams!Delta(index, Streams!ToolUse(c), part) \in EventType
                 /\ Streams!Delta(index, Streams!ToolUse(c), part).kind = "delta"
                 /\ Streams!Delta(index, Streams!ToolUse(c), part).index = index
<1> DEFINE block == Streams!ToolUse(c)
<1>1. c \in Nat /\ << >> \in Seq([call : Nat, n : Nat])
  BY CallsAreNumbers
<1>2. block \in [kind : {"thinking", "text", "tool"}, call : Nat]
  BY <1>1, EventsAreTyped
<1> HIDE DEF block
<1>3. ASSUME NEW part \in Seq([call : Nat, n : Nat])
      PROVE  /\ Streams!Start(index, block) \in EventType
             /\ Streams!Start(index, block).kind = "start"
             /\ Streams!Start(index, block).index = index
             /\ Streams!Stop(index, block) \in EventType
             /\ Streams!Stop(index, block).kind = "stop"
             /\ Streams!Stop(index, block).index = index
             /\ Streams!Delta(index, block, part) \in EventType
             /\ Streams!Delta(index, block, part).kind = "delta"
             /\ Streams!Delta(index, block, part).index = index
  BY <1>1, <1>2 DEF Streams!Start, Streams!Stop, Streams!Delta, Streams!Event, EventType
<1> QED
  BY <1>1, <1>3 DEF block

----------------------------------------------------------------------------
(* Calls *)

SetCall(st, c, k) == [st EXCEPT !.calls[c] = k]

\* Nothing but the call c differs.
OnlyCall(old, new, c) ==
    /\ new \in StateType
    /\ new.messageStarted = old.messageStarted
    /\ new.thinkingStarted = old.thinkingStarted /\ new.thinkingFinished = old.thinkingFinished
    /\ new.textStarted = old.textStarted /\ new.textFinished = old.textFinished
    /\ \A d \in Call \ {c} : new.calls[d] = old.calls[d]

LEMMA SetCallIs ==
    ASSUME NEW st \in StateType, NEW c \in Call, NEW k \in CallState
    PROVE  OnlyCall(st, SetCall(st, c, k), c) /\ SetCall(st, c, k).calls[c] = k
  BY DEF StateType, SetCall, OnlyCall

CallIndex(st, c) == c + Streams!ToolIndexOffset(st)

LEMMA SetCallStatus ==
    ASSUME NEW st \in StateType, NEW c \in Call, NEW k \in CallState
    PROVE  LET new == SetCall(st, c, k)
               j == CallIndex(st, c) IN
           /\ j \in Nat
           /\ Status(st, j) = IF ~st.calls[c].started THEN "none"
                              ELSE IF st.calls[c].stopped THEN "closed" ELSE "open"
           /\ Status(new, j) = IF ~k.started THEN "none"
                               ELSE IF k.stopped THEN "closed" ELSE "open"
           /\ \A i \in Nat \ {j} : Status(new, i) = Status(st, i)
<1> DEFINE new == SetCall(st, c, k)
           off == Streams!ToolIndexOffset(st)
           j == CallIndex(st, c)
<1>1. OnlyCall(st, new, c) /\ new.calls[c] = k
  BY SetCallIs
<1>2. c \in Nat /\ off \in {1, 2} /\ Streams!TextBlockIndex(st) = off - 1
  BY CallsAreNumbers DEF Streams!ToolIndexOffset, Streams!TextBlockIndex
<1>3. Streams!ToolIndexOffset(new) = off /\ Streams!TextBlockIndex(new) = Streams!TextBlockIndex(st)
  BY <1>1 DEF OnlyCall, Streams!ToolIndexOffset, Streams!TextBlockIndex
<1> HIDE DEF new
<1>4. j = c + off /\ j \in Nat /\ j # 0 /\ j # off - 1 /\ j - off = c
  BY <1>2 DEF CallIndex
<1> HIDE DEF off, j
<1>5. Status(st, j) = IF ~st.calls[c].started THEN "none"
                      ELSE IF st.calls[c].stopped THEN "closed" ELSE "open"
  BY <1>2, <1>4 DEF Status, off
<1>6. Status(new, j) = IF ~k.started THEN "none" ELSE IF k.stopped THEN "closed" ELSE "open"
  BY <1>1, <1>2, <1>3, <1>4 DEF Status
<1>7. ASSUME NEW i \in Nat \ {j} PROVE Status(new, i) = Status(st, i)
  <2>1. i - off # c
    BY <1>2, <1>4
  <2>2. i - off \in Call => new.calls[i - off] = st.calls[i - off]
    BY <1>1, <2>1 DEF OnlyCall
  <2>3. /\ new.thinkingStarted = st.thinkingStarted /\ new.thinkingFinished = st.thinkingFinished
        /\ new.textStarted = st.textStarted /\ new.textFinished = st.textFinished
    BY <1>1 DEF OnlyCall
  <2>4. Streams!ToolIndexOffset(st) = off
    BY DEF off
  <2> QED
    BY <1>3, <2>2, <2>3, <2>4 DEF Status
<1> QED
  BY <1>4, <1>5, <1>6, <1>7 DEF new, j

\* What holds of a call between two operators on it, and between two chunks.
CallSound(k) == k.emitted <= k.arguments /\ (k.stopped => k.started /\ k.emitted = k.arguments)
UpToDate(k) == k.started => k.emitted = k.arguments

LEMMA BeginTells ==
    ASSUME NEW b, NEW x, Tells(b, x), NEW c \in Call, CallSound(x.st.calls[c])
    PROVE  LET y == Streams!BeginCall(x, c) IN
           /\ Tells(b, y) /\ OnlyCall(x.st, y.st, c) /\ CallSound(y.st.calls[c])
           /\ y.st.calls[c].stopped = x.st.calls[c].stopped
           /\ y.st.calls[c].arguments = x.st.calls[c].arguments
<1> DEFINE k == x.st.calls[c]
           new == [k EXCEPT !.started = TRUE]
           e == Streams!Start(CallIndex(x.st, c), Streams!ToolUse(c))
<1>1. x.st \in StateType /\ k \in CallState
  BY DEF Tells, Told, StateType
<1>2. CASE k.started \/ ~k.named
  <2>1. Streams!BeginCall(x, c) = x
    BY <1>2 DEF Streams!BeginCall
  <2> QED
    BY <1>1, <2>1 DEF OnlyCall
<1>3. CASE ~k.started /\ k.named
  <2>1. new \in CallState /\ new.started /\ new.stopped = k.stopped /\ new.arguments = k.arguments
        /\ new.emitted = k.emitted /\ ~k.stopped
    BY <1>1, <1>3 DEF CallState, CallSound
  <2> DEFINE st == SetCall(x.st, c, new)
  <2>2. Streams!BeginCall(x, c) = Streams!Emit(x, st, <<e>>)
    <3>1. [x.st EXCEPT !.calls[c].started = TRUE] = st
      BY DEF SetCall
    <3>2. ~(k.started \/ ~k.named)
      BY <1>3
    <3> QED
      BY <3>1, <3>2 DEF Streams!BeginCall, CallIndex
  <2> HIDE DEF new
  <2>3. OnlyCall(x.st, st, c) /\ st.calls[c] = new
    BY <1>1, <2>1, SetCallIs
  <2>4. /\ CallIndex(x.st, c) \in Nat /\ Status(x.st, CallIndex(x.st, c)) = "none"
        /\ Status(st, CallIndex(x.st, c)) = "open"
        /\ \A i \in Nat \ {CallIndex(x.st, c)} : Status(st, i) = Status(x.st, i)
    BY <1>1, <1>3, <2>1, SetCallStatus
  <2>5. e \in EventType /\ e.kind = "start" /\ e.index = CallIndex(x.st, c)
    BY <2>4, ToolEventsAreTyped
  <2> HIDE DEF st, e
  <2>6. Runs(Blocks, Shown(x.st), <<e>>, Shown(st))
    BY <2>4, <2>5, ShowStart
  <2>7. Tells(b, Streams!Emit(x, st, <<e>>)) /\ Streams!Emit(x, st, <<e>>).st = st
    BY <2>3, <2>5, <2>6, EmitOneTells DEF OnlyCall
  <2> QED
    BY <2>1, <2>2, <2>3, <2>7 DEF CallSound
<1> QED
  BY <1>2, <1>3

LEMMA ArgumentsTell ==
    ASSUME NEW b, NEW x, Tells(b, x), NEW c \in Call, CallSound(x.st.calls[c])
    PROVE  LET y == Streams!EmitArguments(x, c) IN
           /\ Tells(b, y) /\ OnlyCall(x.st, y.st, c) /\ CallSound(y.st.calls[c])
           /\ UpToDate(y.st.calls[c])
           /\ y.st.calls[c].stopped = x.st.calls[c].stopped
<1> DEFINE k == x.st.calls[c]
           new == [k EXCEPT !.emitted = k.arguments]
           part == [i \in 1..(k.arguments - k.emitted) |-> [call |-> c, n |-> k.emitted + i]]
           e == Streams!Delta(CallIndex(x.st, c), Streams!ToolUse(c), part)
<1>1. x.st \in StateType /\ k \in CallState
  BY DEF Tells, Told, StateType
<1>2. CASE ~k.started \/ k.emitted >= k.arguments
  <2>1. Streams!EmitArguments(x, c) = x
    BY <1>2 DEF Streams!EmitArguments
  <2>2. UpToDate(k)
    BY <1>1, <1>2 DEF UpToDate, CallSound, CallState
  <2> QED
    BY <1>1, <2>1, <2>2 DEF OnlyCall
<1>3. CASE k.started /\ ~(k.emitted >= k.arguments)
  <2>1. new \in CallState /\ new.started /\ new.stopped = k.stopped /\ new.arguments = k.arguments
        /\ new.emitted = k.arguments /\ ~k.stopped /\ k.started
    BY <1>1, <1>3 DEF CallState, CallSound
  <2> DEFINE st == SetCall(x.st, c, new)
  <2>2. Streams!EmitArguments(x, c) = Streams!Emit(x, st, <<e>>)
    <3>1. [x.st EXCEPT !.calls[c].emitted = k.arguments] = st
      BY DEF SetCall
    <3>2. ~(~k.started \/ k.emitted >= k.arguments)
      BY <1>3
    <3> QED
      BY <3>1, <3>2 DEF Streams!EmitArguments, CallIndex
  <2>3. part \in Seq([call : Nat, n : Nat])
    <3>1. k.arguments - k.emitted \in Nat /\ k.emitted \in Nat /\ c \in Nat
      BY <1>1, <1>3, CallsAreNumbers DEF CallState
    <3> DEFINE n == k.arguments - k.emitted
               S == [call : Nat, n : Nat]
    <3>2. part = [i \in 1..n |-> [call |-> c, n |-> k.emitted + i]]
      OBVIOUS
    <3>3. n \in Nat
      BY <3>1
    <3> HIDE DEF n, part
    <3>4. part \in [1..n -> S]
      BY <3>1, <3>2
    <3> HIDE DEF S
    <3>5. part \in Seq(S)
      BY <3>3, <3>4
    <3> QED
      BY <3>5 DEF S
  <2> HIDE DEF new, part
  <2>4. OnlyCall(x.st, st, c) /\ st.calls[c] = new
    BY <1>1, <2>1, SetCallIs
  <2>5. /\ CallIndex(x.st, c) \in Nat /\ Status(x.st, CallIndex(x.st, c)) = "open"
        /\ Status(st, CallIndex(x.st, c)) = "open"
        /\ \A i \in Nat \ {CallIndex(x.st, c)} : Status(st, i) = Status(x.st, i)
    BY <1>1, <2>1, SetCallStatus
  <2>6. e \in EventType /\ e.kind = "delta" /\ e.index = CallIndex(x.st, c)
    BY <2>3, <2>5, ToolEventsAreTyped
  <2> HIDE DEF st, e
  <2>7. Runs(Blocks, Shown(x.st), <<e>>, Shown(st))
    <3>1. \A i \in Nat : Status(st, i) = Status(x.st, i)
      BY <2>5
    <3> QED
      BY <2>5, <2>6, <3>1, ShowDelta
  <2>8. Tells(b, Streams!Emit(x, st, <<e>>)) /\ Streams!Emit(x, st, <<e>>).st = st
    BY <2>4, <2>6, <2>7, EmitOneTells DEF OnlyCall
  <2>9. CallSound(new) /\ UpToDate(new)
    BY <1>1, <2>1 DEF CallSound, UpToDate, CallState
  <2> QED
    BY <2>1, <2>2, <2>4, <2>8, <2>9
<1> QED
  BY <1>2, <1>3

LEMMA StopTells ==
    ASSUME NEW b, NEW x, Tells(b, x), NEW c \in Call, CallSound(x.st.calls[c]),
           UpToDate(x.st.calls[c])
    PROVE  LET y == Streams!StopCall(x, c) IN
           /\ Tells(b, y) /\ OnlyCall(x.st, y.st, c) /\ CallSound(y.st.calls[c])
           /\ UpToDate(y.st.calls[c])
           /\ y.st.calls[c].started => y.st.calls[c].stopped
           /\ y.st.calls[c].started = x.st.calls[c].started
<1> DEFINE k == x.st.calls[c]
           new == [k EXCEPT !.stopped = TRUE]
           e == Streams!Stop(CallIndex(x.st, c), Streams!ToolUse(c))
<1>1. x.st \in StateType /\ k \in CallState
  BY DEF Tells, Told, StateType
<1>2. CASE ~k.started \/ k.stopped
  <2>1. Streams!StopCall(x, c) = x
    BY <1>2 DEF Streams!StopCall
  <2> QED
    BY <1>1, <1>2, <2>1 DEF OnlyCall
<1>3. CASE k.started /\ ~k.stopped
  <2>1. new \in CallState /\ new.started = k.started /\ new.started /\ new.stopped /\ new.arguments = k.arguments
        /\ new.emitted = k.emitted
    BY <1>1, <1>3 DEF CallState
  <2> DEFINE st == SetCall(x.st, c, new)
  <2>2. Streams!StopCall(x, c) = Streams!Emit(x, st, <<e>>)
    <3>1. [x.st EXCEPT !.calls[c].stopped = TRUE] = st
      BY DEF SetCall
    <3>2. ~(~k.started \/ k.stopped)
      BY <1>3
    <3> QED
      BY <3>1, <3>2 DEF Streams!StopCall, CallIndex
  <2> HIDE DEF new
  <2>3. OnlyCall(x.st, st, c) /\ st.calls[c] = new
    BY <1>1, <2>1, SetCallIs
  <2>4. /\ CallIndex(x.st, c) \in Nat /\ Status(x.st, CallIndex(x.st, c)) = "open"
        /\ Status(st, CallIndex(x.st, c)) = "closed"
        /\ \A i \in Nat \ {CallIndex(x.st, c)} : Status(st, i) = Status(x.st, i)
    BY <1>1, <1>3, <2>1, SetCallStatus
  <2>5. e \in EventType /\ e.kind = "stop" /\ e.index = CallIndex(x.st, c)
    BY <2>4, ToolEventsAreTyped
  <2> HIDE DEF st, e
  <2>6. Runs(Blocks, Shown(x.st), <<e>>, Shown(st))
    BY <2>4, <2>5, ShowStop
  <2>7. Tells(b, Streams!Emit(x, st, <<e>>)) /\ Streams!Emit(x, st, <<e>>).st = st
    BY <2>3, <2>5, <2>6, EmitOneTells DEF OnlyCall
  <2> QED
    BY <1>1, <2>1, <2>2, <2>3, <2>7 DEF CallSound, UpToDate
<1> QED
  BY <1>2, <1>3


----------------------------------------------------------------------------
(* Thinking and text *)

LEMMA BlockStatus ==
    ASSUME NEW st \in StateType
    PROVE  LET j == Streams!TextBlockIndex(st) IN
           /\ j \in Nat
           /\ st.thinkingStarted => /\ j # 0
                                    /\ Status(st, 0) = IF st.thinkingFinished THEN "closed" ELSE "open"
           /\ ~st.thinkingStarted => j = 0
           /\ Status(st, j) = IF ~st.textStarted THEN "none"
                              ELSE IF st.textFinished THEN "closed" ELSE "open"
<1> DEFINE off == Streams!ToolIndexOffset(st)
           j == Streams!TextBlockIndex(st)
<1>1. j \in Nat /\ j - off \notin Call /\ (st.thinkingStarted => j # 0) /\ (~st.thinkingStarted => j = 0)
  BY CallsAreNumbers DEF Streams!ToolIndexOffset, Streams!TextBlockIndex
<1> QED
  BY <1>1 DEF Status

\* What holds of a state while chunks come.
Sound(st) ==
    /\ st.thinkingFinished => st.thinkingStarted
    /\ ~st.textFinished
    /\ \A c \in Call : CallSound(st.calls[c])

\* Nothing has come that reasoning must come before.
Fresh(st) ==
    ~st.thinkingFinished /\ ~st.textStarted /\ \A c \in Call : ~st.calls[c].started

LEMMA CloseTells ==
    ASSUME NEW b, NEW x, Tells(b, x)
    PROVE  LET y == Streams!CloseThinking(x) IN
           /\ Tells(b, y)
           /\ y.st \in {x.st, [x.st EXCEPT !.thinkingFinished = TRUE]}
           /\ y.st.thinkingStarted => y.st.thinkingFinished
           /\ y.st # x.st => x.st.thinkingStarted
<1>1. x.st \in StateType
  BY DEF Tells, Told
<1>2. CASE ~(x.st.thinkingStarted /\ ~x.st.thinkingFinished)
  BY <1>1, <1>2 DEF Streams!CloseThinking
<1>3. CASE x.st.thinkingStarted /\ ~x.st.thinkingFinished
  <2> DEFINE new == [x.st EXCEPT !.thinkingFinished = TRUE]
             e == Streams!Stop(0, Streams!Thinking)
  <2>1. /\ new \in StateType /\ new.thinkingFinished /\ new.thinkingStarted = x.st.thinkingStarted
        /\ new.textStarted = x.st.textStarted /\ new.textFinished = x.st.textFinished
        /\ new.calls = x.st.calls
    BY <1>1 DEF StateType
  <2>2. Streams!CloseThinking(x) = Streams!Emit(x, new, <<e>>)
    BY <1>3 DEF Streams!CloseThinking
  <2>3. e \in EventType /\ e.kind = "stop" /\ e.index = 0
    <3>1. 0 \in Nat /\ << >> \in Seq([call : Nat, n : Nat])
      OBVIOUS
    <3>2. Streams!Thinking \in [kind : {"thinking", "text", "tool"}, call : Nat]
      BY <3>1, EventsAreTyped
    <3> QED
      BY <3>1, <3>2 DEF Streams!Stop, Streams!Event, EventType
  <2> HIDE DEF new, e
  <2>4. Status(x.st, 0) = "open" /\ Status(new, 0) = "closed"
    BY <1>1, <1>3, <2>1, BlockStatus
  <2>5. \A i \in Nat \ {0} : Status(new, i) = Status(x.st, i)
    BY <2>1 DEF Status, Streams!TextBlockIndex, Streams!ToolIndexOffset
  <2>6. Runs(Blocks, Shown(x.st), <<e>>, Shown(new))
    BY <2>3, <2>4, <2>5, ShowStop
  <2>7. Tells(b, Streams!Emit(x, new, <<e>>)) /\ Streams!Emit(x, new, <<e>>).st = new
    BY <2>1, <2>3, <2>6, EmitOneTells
  <2>8. new = [x.st EXCEPT !.thinkingFinished = TRUE]
    BY DEF new
  <2> QED
    BY <1>3, <2>1, <2>2, <2>7, <2>8
<1> QED
  BY <1>2, <1>3

LEMMA StartTells ==
    ASSUME NEW b, NEW x, Tells(b, x),
           x.st.messageStarted \/ \A i \in Nat : Status(x.st, i) = "none"
    PROVE  LET y == Streams!StartMessage(x) IN
           Tells(b, y) /\ y.st = [x.st EXCEPT !.messageStarted = TRUE]
<1>1. x.st \in StateType
  BY DEF Tells, Told
<1> DEFINE new == [x.st EXCEPT !.messageStarted = TRUE]
           e == Streams!MessageStart
<1>2. CASE x.st.messageStarted
  <2>1. x.st = new
    BY <1>1, <1>2 DEF StateType
  <2> QED
    BY <1>2, <2>1 DEF Streams!StartMessage
<1>3. CASE ~x.st.messageStarted
  <2>1. /\ new \in StateType /\ new.thinkingFinished = x.st.thinkingFinished
        /\ new.thinkingStarted = x.st.thinkingStarted
        /\ new.textStarted = x.st.textStarted /\ new.textFinished = x.st.textFinished
        /\ new.calls = x.st.calls
    BY <1>1 DEF StateType
  <2>2. Streams!StartMessage(x) = Streams!Emit(x, new, <<e>>)
    BY <1>3 DEF Streams!StartMessage
  <2>3. e \in EventType /\ e.kind = "message_start"
    <3>1. 0 \in Nat /\ << >> \in Seq([call : Nat, n : Nat])
      OBVIOUS
    <3> QED
      BY <3>1 DEF Streams!MessageStart, Streams!Event, Streams!Text, EventType
  <2> HIDE DEF new, e
  <2>4. \A i \in Nat : Status(new, i) = Status(x.st, i)
    BY <2>1 DEF Status, Streams!TextBlockIndex, Streams!ToolIndexOffset
  <2>5. Shown(new) = Shown(x.st) /\ DOMAIN Shown(x.st) = {}
    BY <1>3, <2>4 DEF Shown
  <2>6. FitsIn(Blocks, Shown(x.st), e) /\ After(Blocks, Shown(x.st), e) = Shown(x.st)
    BY <2>3, <2>5 DEF FitsIn, BlockFits, Blocks, After, BlockAfter, Blocks
  <2>7. Runs(Blocks, Shown(x.st), <<e>>, Shown(new))
    BY <2>3, <2>5, <2>6, OneRuns
  <2>8. Tells(b, Streams!Emit(x, new, <<e>>)) /\ Streams!Emit(x, new, <<e>>).st = new
    BY <2>1, <2>3, <2>7, EmitOneTells
  <2> QED
    BY <2>2, <2>8 DEF new
<1> QED
  BY <1>2, <1>3

\* A block that is started if it has not been, and a delta of it.
LEMMA OpenRuns ==
    ASSUME NEW old \in StateType, NEW new \in StateType, NEW begun \in BOOLEAN,
           NEW j \in Nat, NEW block \in [kind : {"thinking", "text", "tool"}, call : Nat],
           Status(old, j) = IF begun THEN "open" ELSE "none", Status(new, j) = "open",
           \A i \in Nat \ {j} : Status(new, i) = Status(old, i)
    PROVE  LET evs == (IF begun THEN << >> ELSE <<Streams!Start(j, block)>>)
                          \o <<Streams!Delta(j, block, << >>)>> IN
           evs \in Seq(EventType) /\ Runs(Blocks, Shown(old), evs, Shown(new))
<1> DEFINE s == Streams!Start(j, block)
           d == Streams!Delta(j, block, << >>)
<1>1. /\ s \in EventType /\ s.kind = "start" /\ s.index = j
      /\ d \in EventType /\ d.kind = "delta" /\ d.index = j
  <2>1. << >> \in Seq([call : Nat, n : Nat])
    OBVIOUS
  <2> QED
    BY <2>1 DEF Streams!Start, Streams!Delta, Streams!Event, EventType
<1> HIDE DEF s, d
<1>2. <<s>> \in Seq(EventType) /\ <<d>> \in Seq(EventType) /\ << >> \o <<d>> = <<d>>
      /\ <<s>> \o <<d>> \in Seq(EventType)
  BY <1>1
<1>3. CASE begun
  <2>1. Runs(Blocks, Shown(old), <<d>>, Shown(new))
    <3>1. \A i \in Nat : Status(new, i) = Status(old, i)
      BY <1>3
    <3> QED
      BY <1>1, <1>3, <3>1, ShowDelta
  <2> QED
    BY <1>2, <1>3, <2>1 DEF d
<1>4. CASE ~begun
  <2>1. Runs(Blocks, Shown(old), <<s>>, Shown(new))
    BY <1>1, <1>4, ShowStart
  <2>2. Runs(Blocks, Shown(new), <<d>>, Shown(new))
    BY <1>1, ShowDelta
  <2>3. Runs(Blocks, Shown(old), <<s>> \o <<d>>, Shown(new))
    BY <1>2, <2>1, <2>2, MoreRuns
  <2> QED
    BY <1>2, <1>4, <2>3 DEF s, d
<1> QED
  BY <1>3, <1>4

LEMMA ThinkingTells ==
    ASSUME NEW b, NEW x, Tells(b, x), Fresh(x.st)
    PROVE  LET y == Streams!IngestThinking(x) IN
           Tells(b, y) /\ y.st = [x.st EXCEPT !.thinkingStarted = TRUE]
<1>1. x.st \in StateType
  BY DEF Tells, Told
<1> DEFINE new == [x.st EXCEPT !.thinkingStarted = TRUE]
           evs == (IF x.st.thinkingStarted THEN << >> ELSE <<Streams!Start(0, Streams!Thinking)>>)
                      \o <<Streams!Delta(0, Streams!Thinking, << >>)>>
<1>2. /\ new \in StateType /\ new.thinkingFinished = x.st.thinkingFinished /\ new.thinkingStarted
      /\ new.textStarted = x.st.textStarted /\ new.textFinished = x.st.textFinished
      /\ new.calls = x.st.calls /\ x.st.thinkingStarted \in BOOLEAN
  BY <1>1 DEF StateType
<1>3. Streams!IngestThinking(x) = Streams!Emit(x, new, evs)
  BY DEF Streams!IngestThinking
<1> HIDE DEF new
<1>4. Status(new, 0) = "open" /\ Status(x.st, 0) = IF x.st.thinkingStarted THEN "open" ELSE "none"
  BY <1>1, <1>2, BlockStatus DEF Fresh
<1>5. \A i \in Nat \ {0} : Status(new, i) = Status(x.st, i)
  <2> TAKE i \in Nat \ {0}
  <2>1. Status(new, i) = "none" /\ Status(x.st, i) = "none"
    BY <1>2 DEF Fresh, Status
  <2> QED
    BY <2>1
<1>6. Streams!Thinking \in [kind : {"thinking", "text", "tool"}, call : Nat]
  BY DEF Streams!Thinking
<1>7. evs \in Seq(EventType) /\ Runs(Blocks, Shown(x.st), evs, Shown(new))
  BY <1>1, <1>2, <1>4, <1>5, <1>6, OpenRuns
<1> HIDE DEF evs
<1>8. Tells(b, Streams!Emit(x, new, evs)) /\ Streams!Emit(x, new, evs).st = new
  BY <1>2, <1>7, EmitTells
<1> QED
  BY <1>3, <1>8 DEF new

LEMMA TextTells ==
    ASSUME NEW b, NEW x, Tells(b, x), ~x.st.textFinished
    PROVE  LET y == Streams!IngestText(x) IN
           /\ Tells(b, y)
           /\ y.st \in {[x.st EXCEPT !.textStarted = TRUE],
                        [x.st EXCEPT !.textStarted = TRUE, !.thinkingFinished = TRUE]}
           /\ y.st.thinkingFinished # x.st.thinkingFinished => x.st.thinkingStarted
<1> DEFINE z == Streams!CloseThinking(x)
<1>1. /\ Tells(b, z) /\ z.st \in {x.st, [x.st EXCEPT !.thinkingFinished = TRUE]}
      /\ z.st # x.st => x.st.thinkingStarted
  BY CloseTells
<1>2. x.st \in StateType /\ z.st \in StateType
  BY <1>1 DEF Tells, Told
<1> DEFINE new == [z.st EXCEPT !.textStarted = TRUE]
           j == Streams!TextBlockIndex(z.st)
           evs == (IF z.st.textStarted THEN << >> ELSE <<Streams!Start(j, Streams!Text)>>)
                      \o <<Streams!Delta(j, Streams!Text, << >>)>>
<1>3. Streams!IngestText(x) = Streams!Emit(z, new, evs)
  BY DEF Streams!IngestText
<1> HIDE DEF z
<1>4. /\ new \in StateType /\ new.thinkingFinished = z.st.thinkingFinished
      /\ new.thinkingStarted = z.st.thinkingStarted
      /\ new.textStarted /\ new.textFinished = z.st.textFinished
      /\ new.calls = z.st.calls /\ z.st.textStarted \in BOOLEAN /\ ~z.st.textFinished
  BY <1>1, <1>2 DEF StateType
<1>5. /\ new \in {[x.st EXCEPT !.textStarted = TRUE],
                  [x.st EXCEPT !.textStarted = TRUE, !.thinkingFinished = TRUE]}
      /\ new.thinkingFinished # x.st.thinkingFinished => x.st.thinkingStarted
  BY <1>1, <1>2, <1>4 DEF StateType
<1> HIDE DEF new
<1>6. j \in Nat /\ Status(z.st, j) = IF z.st.textStarted THEN "open" ELSE "none"
  BY <1>2, <1>4, BlockStatus
<1>7. Status(new, j) = "open"
  <2>1. Streams!TextBlockIndex(new) = j
    BY <1>4 DEF Streams!TextBlockIndex
  <2> QED
    BY <1>4, <2>1, BlockStatus
<1>8. \A i \in Nat \ {j} : Status(new, i) = Status(z.st, i)
  BY <1>4 DEF Status, Streams!TextBlockIndex, Streams!ToolIndexOffset
<1>9. Streams!Text \in [kind : {"thinking", "text", "tool"}, call : Nat]
  BY DEF Streams!Text
<1> HIDE DEF j
<1>10. evs \in Seq(EventType) /\ Runs(Blocks, Shown(z.st), evs, Shown(new))
  BY <1>2, <1>4, <1>6, <1>7, <1>8, <1>9, OpenRuns
<1> HIDE DEF evs
<1>11. Tells(b, Streams!Emit(z, new, evs)) /\ Streams!Emit(z, new, evs).st = new
  BY <1>1, <1>4, <1>10, EmitTells
<1> QED
  BY <1>3, <1>5, <1>11

----------------------------------------------------------------------------
(* The calls of a chunk *)

\* The other blocks are as they were, but that reasoning may have been closed.
SameBlocks(old, new) ==
    /\ new.messageStarted = old.messageStarted /\ new.thinkingStarted = old.thinkingStarted
    /\ new.textStarted = old.textStarted /\ new.textFinished = old.textFinished
    /\ old.thinkingFinished => new.thinkingFinished
    /\ new.thinkingFinished # old.thinkingFinished => old.thinkingStarted

LEMMA ApplyIs ==
    ASSUME NEW k \in CallState, CallSound(k), ~k.stopped, NEW delta \in Streams!ToolCallDelta
    PROVE  LET new == Streams!Apply(k, delta) IN
           new \in CallState /\ CallSound(new) /\ new.started = k.started /\ ~new.stopped
<1> DEFINE named == k.named \/ delta.name
           arguments == k.arguments + delta.fragments
           new == [k EXCEPT !.named = named, !.arguments = arguments]
<1>1. named \in BOOLEAN
  OBVIOUS
<1>2. k.arguments \in Nat /\ k.emitted \in Nat /\ delta.fragments \in Nat /\ k.emitted <= k.arguments
  BY DEF CallState, CallSound, Streams!ToolCallDelta
<1>3. arguments \in Nat /\ k.emitted <= arguments
  BY <1>2
<1>4. Streams!Apply(k, delta) = new
  BY DEF Streams!Apply
<1> HIDE DEF named, arguments
<1>5. /\ new \in CallState /\ new.emitted = k.emitted /\ new.arguments = arguments
      /\ new.started = k.started /\ new.stopped = k.stopped
  BY <1>1, <1>3 DEF CallState
<1> HIDE DEF new
<1> QED
  BY <1>3, <1>4, <1>5 DEF CallSound

LEMMA ToolCallTells ==
    ASSUME NEW b, NEW x, Tells(b, x), Sound(x.st), NEW delta \in Streams!ToolCallDelta, NEW finish,
           ~x.st.calls[delta.index].stopped
    PROVE  LET y == Streams!IngestToolCall(x, delta, finish)
               c == delta.index IN
           /\ Tells(b, y) /\ Sound(y.st) /\ SameBlocks(x.st, y.st)
           /\ \A d \in Call \ {c} : y.st.calls[d] = x.st.calls[d]
           /\ UpToDate(y.st.calls[c])
           /\ finish # "tool_calls" => ~y.st.calls[c].stopped
<1> DEFINE c == delta.index
           y == Streams!CloseThinking(x)
           k == Streams!Apply(y.st.calls[c], delta)
           z == [y EXCEPT !.st.calls[c] = Streams!Apply(@, delta)]
           begun == Streams!BeginCall(z, c)
           emitted == Streams!EmitArguments(begun, c)
           stopped == Streams!StopCall(emitted, c)
<1>1. c \in Call /\ delta.name \in BOOLEAN /\ delta.fragments \in Nat
  BY DEF Streams!ToolCallDelta
<1>2. /\ Tells(b, y) /\ y.st \in {x.st, [x.st EXCEPT !.thinkingFinished = TRUE]}
      /\ y.st # x.st => x.st.thinkingStarted
  BY CloseTells
<1>3. Streams!IngestToolCall(x, delta, finish) = IF finish = "tool_calls" THEN stopped ELSE emitted
  BY DEF Streams!IngestToolCall
<1> HIDE DEF y
<1>4. x.st \in StateType /\ y.st \in StateType /\ y.events \in Seq(EventType) /\ y \in Told
  BY <1>2 DEF Tells, Told
<1>5. SameBlocks(x.st, y.st) /\ y.st.calls = x.st.calls
  BY <1>2, <1>4 DEF SameBlocks, StateType
<1>6. y.st.calls[c] \in CallState /\ CallSound(y.st.calls[c]) /\ ~y.st.calls[c].stopped
  BY <1>1, <1>4, <1>5 DEF Sound, StateType
<1>7. /\ k \in CallState /\ CallSound(k) /\ k.started = y.st.calls[c].started /\ ~k.stopped
  BY <1>1, <1>6, ApplyIs
<1> DEFINE new == SetCall(y.st, c, k)
<1>8. OnlyCall(y.st, new, c) /\ new.calls[c] = k
  BY <1>1, <1>4, <1>7, SetCallIs
<1>9. z.st = new /\ z.events = y.events /\ z \in Told
  <2>1. z.st = new /\ z.events = y.events /\ z = [st |-> new, events |-> y.events]
    BY <1>4 DEF Told, SetCall
  <2> QED
    BY <1>4, <1>8, <2>1 DEF Told, OnlyCall
<1> HIDE DEF z
<1>10. Shown(new) = Shown(y.st)
  <2>1. \A i \in Nat : Status(new, i) = Status(y.st, i)
    BY <1>1, <1>4, <1>6, <1>7, SetCallStatus
  <2> QED
    BY <2>1 DEF Shown
<1> HIDE DEF k, new
<1>11. Tells(b, z) /\ CallSound(z.st.calls[c]) /\ ~z.st.calls[c].stopped
  BY <1>2, <1>7, <1>8, <1>9, <1>10 DEF Tells
<1>12. /\ Tells(b, begun) /\ OnlyCall(z.st, begun.st, c) /\ CallSound(begun.st.calls[c])
       /\ ~begun.st.calls[c].stopped
  BY <1>1, <1>11, BeginTells
<1> HIDE DEF begun
<1>13. /\ Tells(b, emitted) /\ OnlyCall(begun.st, emitted.st, c) /\ CallSound(emitted.st.calls[c])
       /\ UpToDate(emitted.st.calls[c]) /\ ~emitted.st.calls[c].stopped
  BY <1>1, <1>12, ArgumentsTell
<1> HIDE DEF emitted
<1>14. /\ Tells(b, stopped) /\ OnlyCall(emitted.st, stopped.st, c) /\ CallSound(stopped.st.calls[c])
       /\ UpToDate(stopped.st.calls[c])
  BY <1>1, <1>13, StopTells
<1> HIDE DEF stopped
<1> DEFINE Good(r) == /\ Tells(b, r) /\ Sound(r.st) /\ SameBlocks(x.st, r.st)
                      /\ \A d \in Call \ {c} : r.st.calls[d] = x.st.calls[d]
                      /\ UpToDate(r.st.calls[c])
<1>15. ASSUME NEW r, Tells(b, r), OnlyCall(y.st, r.st, c), CallSound(r.st.calls[c]),
              UpToDate(r.st.calls[c])
       PROVE  Good(r)
  <2>1. SameBlocks(x.st, r.st)
    BY <1>5, <1>15 DEF SameBlocks, OnlyCall
  <2>2. \A d \in Call \ {c} : r.st.calls[d] = x.st.calls[d]
    BY <1>5, <1>15 DEF OnlyCall
  <2>3. Sound(r.st)
    BY <1>15, <2>1, <2>2 DEF Sound, SameBlocks
  <2> QED
    BY <1>15, <2>1, <2>2, <2>3
<1>16. OnlyCall(y.st, emitted.st, c)
  BY <1>8, <1>9, <1>12, <1>13 DEF OnlyCall
<1>17. OnlyCall(y.st, stopped.st, c)
  BY <1>14, <1>16 DEF OnlyCall
<1>18. Good(emitted) /\ Good(stopped)
  BY <1>13, <1>14, <1>15, <1>16, <1>17
<1> HIDE DEF c
<1> QED
  BY <1>3, <1>13, <1>18 DEF c

\* The folds over the calls, or over the calls of a chunk.
LEMMA FoldIs ==
    ASSUME NEW S \in SUBSET Nat, IsFiniteSet(S), NEW base, NEW step, NEW good,
           base \in good[{}],
           \A s \in SUBSET S : s # {} =>
               \A y \in good[s \ {Greatest(s)}] : step[<<Greatest(s), y>>] \in good[s]
    PROVE  \E g : IsFold(g, S, base, step) /\ \A s \in SUBSET S : g[s] \in good[s]
<1>1. PICK g : IsFold(g, S, base, step)
  BY FoldExists
<1>2. \A s \in SUBSET S : g[s] = Step(g, base, step, s)
  BY <1>1 DEF IsFold
<1>3. g[{}] \in good[{}]
  <2>1. {} \in SUBSET S
    OBVIOUS
  <2> QED
    BY <1>2, <2>1 DEF Step
<1>4. \A s \in SUBSET S : s # {} /\ g[s \ {Greatest(s)}] \in good[s \ {Greatest(s)}] => g[s] \in good[s]
  BY <1>2 DEF Step
<1>5. \A s \in SUBSET S : g[s] \in good[s]
  BY <1>3, <1>4, FoldKeeps
<1> QED
  BY <1>1, <1>5

\* What the loops over the calls keep, from call to call, they keep.
LEMMA StopCallsKeep ==
    ASSUME NEW x, NEW good, x \in good[{}], \A s \in SUBSET Call : good[s] \subseteq Told,
           \A s \in SUBSET Call : \A c \in s : (\A d \in s : c >= d) =>
               \A y \in good[s \ {c}] : Streams!StopCall(y, c) \in good[s]
    PROVE  Streams!StopCalls(x) \in good[Call]
<1> DEFINE Op(y, c) == Streams!StopCall(y, c)
           step == [p \in Call \X Told |-> Op(p[2], p[1])]
<1>1. ASSUME NEW s \in SUBSET Call, s # {}, NEW y \in good[s \ {Greatest(s)}]
      PROVE  Op(y, Greatest(s)) \in good[s]
  <2>1. Greatest(s) \in s /\ \A d \in s : Greatest(s) >= d
    BY <1>1, CallsAreNumbers, GreatestIn
  <2> QED
    BY <1>1, <2>1
<1>2. ASSUME NEW s \in SUBSET Call, s # {}, NEW y \in good[s \ {Greatest(s)}]
      PROVE  step[<<Greatest(s), y>>] = Op(y, Greatest(s))
  <2>1. Greatest(s) \in s
    BY <1>2, CallsAreNumbers, GreatestIn
  <2>2. s \ {Greatest(s)} \in SUBSET Call
    OBVIOUS
  <2>3. y \in Told /\ Greatest(s) \in Call
    BY <1>2, <2>1, <2>2
  <2> QED
    BY <2>3
<1> HIDE DEF Op, step
<1> DEFINE Fold(g) == [s \in SUBSET Call |->
                          IF s = {} THEN x ELSE Op(g[s \ {Greatest(s)}], Greatest(s))]
<1>3. \E g : g = Fold(g)
  <2>1. \A s \in SUBSET Call : s # {} =>
            \A y \in good[s \ {Greatest(s)}] : step[<<Greatest(s), y>>] \in good[s]
    BY <1>1, <1>2
  <2>2. PICK g : IsFold(g, Call, x, step) /\ \A s \in SUBSET Call : g[s] \in good[s]
    <3> HIDE DEF Fold
    <3> QED
      BY <2>1, CallsAreNumbers, FoldIs
  <2>3. ASSUME NEW s \in SUBSET Call
        PROVE  Step(g, x, step, s) = IF s = {} THEN x ELSE Op(g[s \ {Greatest(s)}], Greatest(s))
    <3>1. g[s \ {Greatest(s)}] \in good[s \ {Greatest(s)}]
      BY <2>2
    <3> QED
      BY <1>2, <3>1 DEF Step
  <2>4. g = Fold(g)
    BY <2>2, <2>3 DEF IsFold
  <2> QED
    BY <2>4
<1>4. ASSUME NEW g, g = Fold(g) PROVE g[Call] \in good[Call]
  <2>1. \A s \in SUBSET Call : g[s] = IF s = {} THEN x ELSE Op(g[s \ {Greatest(s)}], Greatest(s))
    BY <1>4
  <2> HIDE DEF Fold
  <2>2. g[{}] \in good[{}]
    <3>1. {} \in SUBSET Call
      OBVIOUS
    <3> QED
      BY <2>1, <3>1
  <2>3. \A s \in SUBSET Call : s # {} /\ g[s \ {Greatest(s)}] \in good[s \ {Greatest(s)}]
                                 => g[s] \in good[s]
    BY <1>1, <2>1
  <2> QED
    BY <2>2, <2>3, CallsAreNumbers, FoldKeeps
<1> QED
  BY <1>3, <1>4 DEF Streams!StopCalls, Streams!MapThenFoldSet, Streams!Max, Greatest, Op

LEMMA FinishCallsKeep ==
    ASSUME NEW x, NEW good, x \in good[{}], \A s \in SUBSET Call : good[s] \subseteq Told,
           \A s \in SUBSET Call : \A c \in s : (\A d \in s : c >= d) =>
               \A y \in good[s \ {c}] : Streams!FinishCall(y, c) \in good[s]
    PROVE  Streams!FinishCalls(x) \in good[Call]
<1> DEFINE Op(y, c) == Streams!FinishCall(y, c)
           step == [p \in Call \X Told |-> Op(p[2], p[1])]
<1>1. ASSUME NEW s \in SUBSET Call, s # {}, NEW y \in good[s \ {Greatest(s)}]
      PROVE  Op(y, Greatest(s)) \in good[s]
  <2>1. Greatest(s) \in s /\ \A d \in s : Greatest(s) >= d
    BY <1>1, CallsAreNumbers, GreatestIn
  <2> QED
    BY <1>1, <2>1
<1>2. ASSUME NEW s \in SUBSET Call, s # {}, NEW y \in good[s \ {Greatest(s)}]
      PROVE  step[<<Greatest(s), y>>] = Op(y, Greatest(s))
  <2>1. Greatest(s) \in s
    BY <1>2, CallsAreNumbers, GreatestIn
  <2>2. s \ {Greatest(s)} \in SUBSET Call
    OBVIOUS
  <2>3. y \in Told /\ Greatest(s) \in Call
    BY <1>2, <2>1, <2>2
  <2> QED
    BY <2>3
<1> HIDE DEF Op, step
<1> DEFINE Fold(g) == [s \in SUBSET Call |->
                          IF s = {} THEN x ELSE Op(g[s \ {Greatest(s)}], Greatest(s))]
<1>3. \E g : g = Fold(g)
  <2>1. \A s \in SUBSET Call : s # {} =>
            \A y \in good[s \ {Greatest(s)}] : step[<<Greatest(s), y>>] \in good[s]
    BY <1>1, <1>2
  <2>2. PICK g : IsFold(g, Call, x, step) /\ \A s \in SUBSET Call : g[s] \in good[s]
    <3> HIDE DEF Fold
    <3> QED
      BY <2>1, CallsAreNumbers, FoldIs
  <2>3. ASSUME NEW s \in SUBSET Call
        PROVE  Step(g, x, step, s) = IF s = {} THEN x ELSE Op(g[s \ {Greatest(s)}], Greatest(s))
    <3>1. g[s \ {Greatest(s)}] \in good[s \ {Greatest(s)}]
      BY <2>2
    <3> QED
      BY <1>2, <3>1 DEF Step
  <2>4. g = Fold(g)
    BY <2>2, <2>3 DEF IsFold
  <2> QED
    BY <2>4
<1>4. ASSUME NEW g, g = Fold(g) PROVE g[Call] \in good[Call]
  <2>1. \A s \in SUBSET Call : g[s] = IF s = {} THEN x ELSE Op(g[s \ {Greatest(s)}], Greatest(s))
    BY <1>4
  <2> HIDE DEF Fold
  <2>2. g[{}] \in good[{}]
    <3>1. {} \in SUBSET Call
      OBVIOUS
    <3> QED
      BY <2>1, <3>1
  <2>3. \A s \in SUBSET Call : s # {} /\ g[s \ {Greatest(s)}] \in good[s \ {Greatest(s)}]
                                 => g[s] \in good[s]
    BY <1>1, <2>1
  <2> QED
    BY <2>2, <2>3, CallsAreNumbers, FoldKeeps
<1> QED
  BY <1>3, <1>4 DEF Streams!FinishCalls, Streams!MapThenFoldSet, Streams!Max, Greatest, Op

LEMMA ToolsAreNumbered ==
    ASSUME NEW chunk \in Streams!Chunk
    PROVE  LET S == DOMAIN chunk.tools IN
           /\ S \in SUBSET (Nat \ {0}) /\ IsFiniteSet(S) /\ (S = {} <=> chunk.tools = << >>)
           /\ \A i \in S : chunk.tools[i] \in Streams!ToolCallDelta /\ chunk.tools[i].index \in Call
<1> DEFINE S == DOMAIN chunk.tools
<1>1. chunk.tools \in Seq(Streams!ToolCallDelta)
  <2> DEFINE D == Streams!ToolCallDelta
  <2>1. chunk.tools \in {<< >>} \cup {<<d>> : d \in D} \cup {<<d, e>> : d, e \in D}
    BY DEF Streams!Chunk
  <2> HIDE DEF D
  <2>2. CASE chunk.tools = << >>
    BY <2>2
  <2>3. CASE \E d \in D : chunk.tools = <<d>>
    <3>1. PICK d \in D : chunk.tools = <<d>>
      BY <2>3
    <3>2. <<d>> \in Seq(D)
      OBVIOUS
    <3> QED
      BY <3>1, <3>2 DEF D
  <2>4. CASE \E d, e \in D : chunk.tools = <<d, e>>
    <3>1. PICK d \in D, e \in D : chunk.tools = <<d, e>>
      BY <2>4
    <3>2. <<d, e>> \in Seq(D)
      OBVIOUS
    <3> QED
      BY <3>1, <3>2 DEF D
  <2> QED
    BY <2>1, <2>2, <2>3, <2>4
<1>2. S = 1..Len(chunk.tools) /\ Len(chunk.tools) \in Nat
  BY <1>1
<1>3. IsFiniteSet(S)
  BY <1>2, FS_Interval
<1>4. S = {} <=> chunk.tools = << >>
  <2>1. Len(chunk.tools) = 0 <=> chunk.tools = << >>
    BY <1>1, EmptySeq
  <2>2. Len(chunk.tools) # 0 => 1 \in S
    BY <1>2
  <2>3. Len(chunk.tools) = 0 => S = {}
    BY <1>2
  <2> HIDE DEF S
  <2> QED
    BY <2>1, <2>2, <2>3 DEF S
<1>5. \A i \in S : chunk.tools[i] \in Streams!ToolCallDelta
  BY <1>1, <1>2
<1> QED
  BY <1>2, <1>3, <1>4, <1>5 DEF Streams!ToolCallDelta

\* The calls of a chunk, one after the other.
ToolsTold(x, chunk) ==
    Streams!FoldLeft(LAMBDA y, d : Streams!IngestToolCall(y, d, chunk.finish), x, chunk.tools)

LEMMA ToolsKeep ==
    ASSUME NEW x, NEW chunk \in Streams!Chunk,
           NEW good, x \in good[{}], \A s \in SUBSET DOMAIN chunk.tools : good[s] \subseteq Told,
           \A s \in SUBSET DOMAIN chunk.tools : \A c \in s : (\A d \in s : c >= d) =>
               \A y \in good[s \ {c}] : Streams!IngestToolCall(y, chunk.tools[c], chunk.finish) \in good[s]
    PROVE  ToolsTold(x, chunk) \in good[DOMAIN chunk.tools]
<1> DEFINE S == DOMAIN chunk.tools
           Op(y, c) == Streams!IngestToolCall(y, chunk.tools[c], chunk.finish)
           step == [p \in S \X Told |-> Op(p[2], p[1])]
<1>0. S \in SUBSET Nat /\ IsFiniteSet(S)
  BY ToolsAreNumbered
<1>1. ASSUME NEW s \in SUBSET S, s # {}, NEW y \in good[s \ {Greatest(s)}]
      PROVE  Op(y, Greatest(s)) \in good[s]
  <2>1. Greatest(s) \in s /\ \A d \in s : Greatest(s) >= d
    BY <1>1, <1>0, GreatestIn
  <2> QED
    BY <1>1, <2>1
<1>2. ASSUME NEW s \in SUBSET S, s # {}, NEW y \in good[s \ {Greatest(s)}]
      PROVE  step[<<Greatest(s), y>>] = Op(y, Greatest(s))
  <2>1. Greatest(s) \in s
    BY <1>2, <1>0, GreatestIn
  <2>2. s \ {Greatest(s)} \in SUBSET S
    OBVIOUS
  <2>3. y \in Told /\ Greatest(s) \in S
    BY <1>2, <2>1, <2>2
  <2> QED
    BY <2>3
<1> HIDE DEF Op, step, S
<1> DEFINE Fold(g) == [s \in SUBSET S |->
                          IF s = {} THEN x ELSE Op(g[s \ {Greatest(s)}], Greatest(s))]
<1>3. \E g : g = Fold(g)
  <2>1. \A s \in SUBSET S : s # {} =>
            \A y \in good[s \ {Greatest(s)}] : step[<<Greatest(s), y>>] \in good[s]
    BY <1>1, <1>2
  <2>2. PICK g : IsFold(g, S, x, step) /\ \A s \in SUBSET S : g[s] \in good[s]
    <3> HIDE DEF Fold
    <3> QED
      BY <2>1, <1>0, FoldIs
  <2>3. ASSUME NEW s \in SUBSET S
        PROVE  Step(g, x, step, s) = IF s = {} THEN x ELSE Op(g[s \ {Greatest(s)}], Greatest(s))
    <3>1. g[s \ {Greatest(s)}] \in good[s \ {Greatest(s)}]
      BY <2>2
    <3> QED
      BY <1>2, <3>1 DEF Step
  <2>4. g = Fold(g)
    BY <2>2, <2>3 DEF IsFold
  <2> QED
    BY <2>4
<1>4. ASSUME NEW g, g = Fold(g) PROVE g[S] \in good[S]
  <2>1. \A s \in SUBSET S : g[s] = IF s = {} THEN x ELSE Op(g[s \ {Greatest(s)}], Greatest(s))
    BY <1>4
  <2> HIDE DEF Fold
  <2>2. g[{}] \in good[{}]
    <3>1. {} \in SUBSET S
      OBVIOUS
    <3> QED
      BY <2>1, <3>1
  <2>3. \A s \in SUBSET S : s # {} /\ g[s \ {Greatest(s)}] \in good[s \ {Greatest(s)}]
                                 => g[s] \in good[s]
    BY <1>1, <2>1
  <2> QED
    BY <2>2, <2>3, <1>0, FoldKeeps
<1> QED
  BY <1>3, <1>4 DEF ToolsTold, Streams!FoldLeft, Streams!MapThenFoldSet, Streams!Max, Greatest, Op, S

LEMMA StopCallsTell ==
    ASSUME NEW b, NEW x, Tells(b, x), Sound(x.st), \A c \in Call : UpToDate(x.st.calls[c])
    PROVE  LET y == Streams!StopCalls(x) IN
           /\ Tells(b, y) /\ Sound(y.st) /\ \A c \in Call : UpToDate(y.st.calls[c])
           /\ SameBlocks(x.st, y.st)
<1> DEFINE Good(y) == /\ Tells(b, y) /\ Sound(y.st) /\ \A c \in Call : UpToDate(y.st.calls[c])
                      /\ SameBlocks(x.st, y.st)
           good == [s \in SUBSET Call |-> {y \in Told : Good(y)}]
<1>1. ASSUME NEW y, Good(y), NEW c \in Call PROVE Good(Streams!StopCall(y, c))
  <2> DEFINE z == Streams!StopCall(y, c)
  <2>1. CallSound(y.st.calls[c]) /\ UpToDate(y.st.calls[c]) /\ Tells(b, y)
    BY <1>1 DEF Sound
  <2>2. Tells(b, z) /\ OnlyCall(y.st, z.st, c) /\ CallSound(z.st.calls[c]) /\ UpToDate(z.st.calls[c])
    BY <2>1, StopTells
  <2> HIDE DEF z
  <2>3. Good(z)
    BY <1>1, <2>2 DEF OnlyCall, Sound, SameBlocks
  <2> QED
    BY <2>3 DEF z
<1>2. \A y : Good(y) => y \in Told
  BY DEF Tells
<1>3. Good(x)
  BY DEF SameBlocks
<1> HIDE DEF Good
<1>4. \A s \in SUBSET Call : \A y : y \in good[s] <=> Good(y)
  BY <1>2
<1> HIDE DEF good
<1>5. \A s \in SUBSET Call : good[s] \subseteq Told
  BY <1>2, <1>4
<1>6. \A s \in SUBSET Call : \A c \in s : (\A d \in s : c >= d) =>
          \A y \in good[s \ {c}] : Streams!StopCall(y, c) \in good[s]
  BY <1>1, <1>4
<1>7. Streams!StopCalls(x) \in good[Call]
  BY <1>3, <1>4, <1>5, <1>6, StopCallsKeep
<1>8. Good(Streams!StopCalls(x))
  BY <1>4, <1>7
<1> QED
  BY <1>8 DEF Good

LEMMA FinishCallTells ==
    ASSUME NEW b, NEW x, Tells(b, x), NEW c \in Call, CallSound(x.st.calls[c]),
           UpToDate(x.st.calls[c])
    PROVE  LET y == Streams!FinishCall(x, c) IN
           /\ Tells(b, y) /\ OnlyCall(x.st, y.st, c) /\ CallSound(y.st.calls[c])
           /\ UpToDate(y.st.calls[c])
           /\ y.st.calls[c].started => y.st.calls[c].stopped
<1> DEFINE begun == Streams!BeginCall(x, c)
           emitted == Streams!EmitArguments(begun, c)
           z == IF x.st.calls[c].started THEN x ELSE emitted
<1>1. Streams!FinishCall(x, c) = Streams!StopCall(z, c)
  BY DEF Streams!FinishCall
<1>2. Tells(b, begun) /\ OnlyCall(x.st, begun.st, c) /\ CallSound(begun.st.calls[c])
  BY BeginTells
<1> HIDE DEF begun
<1>3. /\ Tells(b, emitted) /\ OnlyCall(begun.st, emitted.st, c) /\ CallSound(emitted.st.calls[c])
      /\ UpToDate(emitted.st.calls[c])
  BY <1>2, ArgumentsTell
<1> HIDE DEF emitted
<1>4. OnlyCall(x.st, x.st, c) /\ OnlyCall(x.st, emitted.st, c)
  BY <1>2, <1>3 DEF OnlyCall, Tells, Told
<1>5. Tells(b, z) /\ OnlyCall(x.st, z.st, c) /\ CallSound(z.st.calls[c]) /\ UpToDate(z.st.calls[c])
  BY <1>3, <1>4
<1> DEFINE y == Streams!StopCall(z, c)
<1> HIDE DEF z
<1>6. /\ Tells(b, y) /\ OnlyCall(z.st, y.st, c) /\ CallSound(y.st.calls[c])
      /\ UpToDate(y.st.calls[c])
      /\ y.st.calls[c].started => y.st.calls[c].stopped
  BY <1>5, StopTells
<1> HIDE DEF y
<1>7. OnlyCall(x.st, y.st, c)
  BY <1>5, <1>6 DEF OnlyCall
<1> QED
  BY <1>1, <1>6, <1>7 DEF y

LEMMA FinishCallsTell ==
    ASSUME NEW b, NEW x, Tells(b, x),
           \A c \in Call : CallSound(x.st.calls[c]) /\ UpToDate(x.st.calls[c])
    PROVE  LET y == Streams!FinishCalls(x) IN
           /\ Tells(b, y) /\ SameBlocks(x.st, y.st) /\ y.st.thinkingFinished = x.st.thinkingFinished
           /\ \A c \in Call : y.st.calls[c].started => y.st.calls[c].stopped
<1> DEFINE Good(s, y) == /\ Tells(b, y) /\ SameBlocks(x.st, y.st)
                         /\ y.st.thinkingFinished = x.st.thinkingFinished
                         /\ \A c \in Call : CallSound(y.st.calls[c]) /\ UpToDate(y.st.calls[c])
                         /\ \A c \in s : y.st.calls[c].started => y.st.calls[c].stopped
           Op(y, c) == Streams!FinishCall(y, c)
           good == [s \in SUBSET Call |-> {y \in Told : Good(s, y)}]
<1>1. ASSUME NEW s \in SUBSET Call, NEW c \in s, NEW y, Good(s \ {c}, y) PROVE Good(s, Op(y, c))
  <2>1. c \in Call /\ CallSound(y.st.calls[c]) /\ UpToDate(y.st.calls[c]) /\ Tells(b, y)
    BY <1>1
  <2>2. /\ Tells(b, Op(y, c)) /\ OnlyCall(y.st, Op(y, c).st, c) /\ CallSound(Op(y, c).st.calls[c])
        /\ UpToDate(Op(y, c).st.calls[c])
        /\ Op(y, c).st.calls[c].started => Op(y, c).st.calls[c].stopped
    BY <2>1, FinishCallTells
  <2> HIDE DEF Op
  <2> QED
    BY <1>1, <2>2 DEF OnlyCall, SameBlocks
<1>2. \A s, y : Good(s, y) => y \in Told
  BY DEF Tells
<1>3. Good({}, x)
  BY DEF SameBlocks
<1> HIDE DEF Good
<1>4. \A s \in SUBSET Call : \A y : y \in good[s] <=> Good(s, y)
  BY <1>2
<1> HIDE DEF good
<1>5. \A s \in SUBSET Call : good[s] \subseteq Told
  BY <1>2, <1>4
<1>6. \A s \in SUBSET Call : \A c \in s : (\A d \in s : c >= d) =>
          \A y \in good[s \ {c}] : Op(y, c) \in good[s]
  <2>1. \A s \in SUBSET Call : \A c \in s : s \ {c} \in SUBSET Call
    OBVIOUS
  <2> QED
    BY <1>1, <1>4, <2>1
<1>7. Streams!FinishCalls(x) \in good[Call]
  <2>1. x \in good[{}]
    BY <1>3, <1>4
  <2> QED
    BY <1>5, <1>6, <2>1, FinishCallsKeep
<1>8. Good(Call, Streams!FinishCalls(x))
  BY <1>4, <1>7
<1> QED
  BY <1>8 DEF Good

LEMMA ToolCallsTell ==
    ASSUME NEW b, NEW x, Tells(b, x), Sound(x.st), \A c \in Call : UpToDate(x.st.calls[c]),
           NEW chunk \in Streams!Chunk,
           \A i, j \in DOMAIN chunk.tools :
               j < i => chunk.tools[j].index # chunk.tools[i].index,
           chunk.tools # << >> => \A c \in Call : ~x.st.calls[c].stopped
    PROVE  LET y == ToolsTold(x, chunk) IN
           /\ Tells(b, y) /\ Sound(y.st) /\ \A c \in Call : UpToDate(y.st.calls[c])
           /\ SameBlocks(x.st, y.st)
           /\ chunk.tools = << >> => y = x
           /\ chunk.finish # "tool_calls" => \A c \in Call : y.st.calls[c].stopped = x.st.calls[c].stopped
<1> DEFINE S == DOMAIN chunk.tools
           Good(s, y) == /\ Tells(b, y) /\ Sound(y.st) /\ \A c \in Call : UpToDate(y.st.calls[c])
                         /\ SameBlocks(x.st, y.st)
                         /\ s = {} => y = x
                         /\ \A c \in Call : y.st.calls[c].stopped # x.st.calls[c].stopped =>
                                /\ chunk.finish = "tool_calls"
                                /\ \E i \in s : chunk.tools[i].index = c
           Op(y, i) == Streams!IngestToolCall(y, chunk.tools[i], chunk.finish)
           good == [s \in SUBSET S |-> {y \in Told : Good(s, y)}]
<1>0. /\ S \in SUBSET Nat /\ IsFiniteSet(S) /\ (S = {} <=> chunk.tools = << >>)
      /\ \A i \in S : chunk.tools[i] \in Streams!ToolCallDelta /\ chunk.tools[i].index \in Call
  BY ToolsAreNumbered
<1>1. ASSUME NEW s \in SUBSET S, NEW i \in s, \A j \in s : i >= j, NEW y, Good(s \ {i}, y)
      PROVE  Good(s, Op(y, i))
  <2> DEFINE c == chunk.tools[i].index
             z == Op(y, i)
  <2>1. i \in S /\ chunk.tools[i] \in Streams!ToolCallDelta /\ c \in Call
    BY <1>0
  <2>2. ~y.st.calls[c].stopped
    <3>1. \A j \in s \ {i} : chunk.tools[j].index # c
      <4> TAKE j \in s \ {i}
      <4>1. j \in Nat /\ i \in Nat /\ j \in S /\ j < i
        BY <1>0, <1>1, <2>1
      <4> QED
        BY <2>1, <4>1
    <3>2. ~x.st.calls[c].stopped
      BY <1>0, <2>1
    <3> QED
      BY <1>1, <2>1, <3>1, <3>2
  <2>3. /\ Tells(b, z) /\ Sound(z.st) /\ SameBlocks(y.st, z.st)
        /\ \A d \in Call \ {c} : z.st.calls[d] = y.st.calls[d]
        /\ UpToDate(z.st.calls[c])
        /\ chunk.finish # "tool_calls" => ~z.st.calls[c].stopped
    BY <1>1, <2>1, <2>2, ToolCallTells
  <2> HIDE DEF z
  <2>4. \A d \in Call : UpToDate(z.st.calls[d])
    BY <1>1, <2>3
  <2>5. SameBlocks(x.st, z.st)
    BY <1>1, <2>3 DEF SameBlocks
  <2>6. ASSUME NEW d \in Call, z.st.calls[d].stopped # x.st.calls[d].stopped
        PROVE  chunk.finish = "tool_calls" /\ \E j \in s : chunk.tools[j].index = d
    <3>1. CASE d = c
      <4>1. ~x.st.calls[c].stopped
        BY <1>0, <2>1
      <4>2. CASE chunk.finish = "tool_calls"
        BY <3>1, <4>2
      <4>3. CASE chunk.finish # "tool_calls"
        <5>1. x.st \in StateType /\ z.st \in StateType
          BY <2>3 DEF Tells, Told
        <5>2. x.st.calls[c].stopped \in BOOLEAN /\ z.st.calls[c].stopped \in BOOLEAN
          BY <2>1, <5>1 DEF StateType, CallState
        <5> QED
          BY <2>3, <2>6, <3>1, <4>1, <4>3, <5>2
      <4> QED
        BY <4>2, <4>3
    <3>2. CASE d # c
      BY <1>1, <2>3, <2>6, <3>2
    <3> QED
      BY <3>1, <3>2
  <2> QED
    BY <2>3, <2>4, <2>5, <2>6 DEF z
<1>2. \A s, y : Good(s, y) => y \in Told
  BY DEF Tells
<1>3. Good({}, x)
  BY DEF SameBlocks
<1> HIDE DEF Good
<1>4. \A s \in SUBSET S : \A y : y \in good[s] <=> Good(s, y)
  BY <1>2
<1> HIDE DEF good
<1>5. \A s \in SUBSET S : good[s] \subseteq Told
  BY <1>2, <1>4
<1>6. \A s \in SUBSET S : \A c \in s : (\A d \in s : c >= d) =>
          \A y \in good[s \ {c}] : Op(y, c) \in good[s]
  <2>1. \A s \in SUBSET S : \A c \in s : s \ {c} \in SUBSET S
    OBVIOUS
  <2> QED
    BY <1>1, <1>4, <2>1
<1>7. ToolsTold(x, chunk) \in good[S]
  <2>1. x \in good[{}]
    BY <1>3, <1>4
  <2> QED
    BY <1>5, <1>6, <2>1, ToolsKeep
<1>8. Good(S, ToolsTold(x, chunk))
  BY <1>4, <1>7
<1> QED
  BY <1>8, <1>0 DEF Good

----------------------------------------------------------------------------
(* A chunk, and the end of the body *)

\* What holds of a state between two chunks.
Ready(st) ==
    /\ st \in StateType /\ Sound(st) /\ \A c \in Call : UpToDate(st.calls[c])
    /\ ~st.messageStarted => Fresh(st) /\ ~st.thinkingStarted

LEMMA FreshIsNotShown ==
    ASSUME NEW st, Fresh(st), ~st.thinkingStarted
    PROVE  \A i : Status(st, i) = "none"
  BY DEF Fresh, Status

LEMMA ChunkTells ==
    ASSUME NEW st, Ready(st), NEW chunk \in Streams!Chunk,
           chunk.thinking => Fresh(st),
           \A i, j \in DOMAIN chunk.tools :
               j < i => chunk.tools[j].index # chunk.tools[i].index,
           chunk.tools # << >> => \A c \in Call : ~st.calls[c].stopped
    PROVE  LET y == Streams!IngestChunk(st, chunk) IN
           /\ Tells(Shown(st), y) /\ Ready(y.st)
           /\ Fresh(st) /\ ~chunk.text /\ chunk.tools = << >> /\ chunk.finish # "tool_calls"
                  => Fresh(y.st)
           /\ chunk.finish # "tool_calls" =>
                  \A c \in Call : y.st.calls[c].stopped = st.calls[c].stopped
<1> DEFINE b == Shown(st)
           none == [st |-> st, events |-> << >>]
           start == Streams!StartMessage(none)
           thought == IF chunk.thinking THEN Streams!IngestThinking(start) ELSE start
           told == IF chunk.text THEN Streams!IngestText(thought) ELSE thought
           called == ToolsTold(told, chunk)
           stopped == Streams!StopCalls(called)
<1>1. Streams!IngestChunk(st, chunk) = IF chunk.finish = "tool_calls" THEN stopped ELSE called
  BY DEF Streams!IngestChunk, ToolsTold
<1>2. st \in StateType /\ Sound(st) /\ \A c \in Call : UpToDate(st.calls[c])
  BY DEF Ready
<1>3. Tells(b, none) /\ none.st = st
  <2>1. none \in Told /\ none.st = st /\ none.events = << >>
    BY <1>2 DEF Told
  <2> QED
    BY <2>1, NoneRuns DEF Tells
<1> HIDE DEF none
<1>4. Tells(b, start) /\ start.st = [st EXCEPT !.messageStarted = TRUE]
  <2>1. st.messageStarted \/ \A i \in Nat : Status(st, i) = "none"
    BY FreshIsNotShown DEF Ready
  <2> QED
    BY <1>3, <2>1, StartTells
<1> HIDE DEF start
<1> DEFINE Like(new) ==
               /\ Tells(b, new) /\ new.st.messageStarted /\ new.st.calls = st.calls
               /\ ~new.st.textFinished /\ new.st.thinkingFinished => new.st.thinkingStarted
<1>5. /\ start.st.messageStarted /\ start.st.calls = st.calls
      /\ start.st.thinkingStarted = st.thinkingStarted /\ start.st.thinkingFinished = st.thinkingFinished
      /\ start.st.textStarted = st.textStarted /\ start.st.textFinished = st.textFinished
  BY <1>2, <1>4 DEF StateType
<1>6. /\ Tells(b, thought) /\ thought.st.messageStarted /\ thought.st.calls = st.calls
      /\ ~thought.st.textFinished
      /\ thought.st.thinkingFinished => thought.st.thinkingStarted
      /\ Fresh(st) => Fresh(thought.st)
  <2>1. CASE ~chunk.thinking
    BY <1>2, <1>4, <1>5, <2>1 DEF Sound, Fresh
  <2>2. CASE chunk.thinking
    <3>1. Fresh(start.st) /\ start.st \in StateType
      BY <1>4, <1>5, <2>2 DEF Fresh, Tells, Told
    <3>2. Tells(b, thought) /\ thought.st = [start.st EXCEPT !.thinkingStarted = TRUE]
      BY <1>4, <2>2, <3>1, ThinkingTells
    <3> HIDE DEF thought
    <3>3. /\ thought.st.messageStarted = start.st.messageStarted /\ thought.st.calls = start.st.calls
          /\ thought.st.textFinished = start.st.textFinished /\ thought.st.thinkingStarted
          /\ thought.st.textStarted = start.st.textStarted
          /\ thought.st.thinkingFinished = start.st.thinkingFinished
      BY <3>1, <3>2 DEF StateType
    <3> QED
      BY <1>2, <1>5, <3>2, <3>3 DEF Sound, Fresh
  <2> QED
    BY <2>1, <2>2
<1> HIDE DEF thought
<1>7. /\ Tells(b, told) /\ told.st.messageStarted /\ told.st.calls = st.calls
      /\ ~told.st.textFinished
      /\ told.st.thinkingFinished => told.st.thinkingStarted
      /\ ~chunk.text => told = thought
  <2>1. CASE ~chunk.text
    BY <1>6, <2>1
  <2>2. CASE chunk.text
    <3>1. /\ Tells(b, told)
          /\ told.st \in {[thought.st EXCEPT !.textStarted = TRUE],
                          [thought.st EXCEPT !.textStarted = TRUE, !.thinkingFinished = TRUE]}
          /\ told.st.thinkingFinished # thought.st.thinkingFinished => thought.st.thinkingStarted
      BY <1>6, <2>2, TextTells
    <3>2. thought.st \in StateType /\ told.st \in StateType
      BY <1>6, <3>1 DEF Tells, Told
    <3> HIDE DEF told
    <3>3. /\ told.st.messageStarted = thought.st.messageStarted /\ told.st.calls = thought.st.calls
          /\ told.st.textFinished = thought.st.textFinished
          /\ told.st.thinkingStarted = thought.st.thinkingStarted
      BY <3>1, <3>2 DEF StateType
    <3> QED
      BY <1>6, <2>2, <3>1, <3>2, <3>3 DEF StateType
  <2> QED
    BY <2>1, <2>2
<1> HIDE DEF told
<1>8. Sound(told.st) /\ \A c \in Call : UpToDate(told.st.calls[c])
  BY <1>2, <1>7 DEF Sound
<1>9. /\ Tells(b, called) /\ Sound(called.st) /\ \A c \in Call : UpToDate(called.st.calls[c])
      /\ SameBlocks(told.st, called.st)
      /\ chunk.tools = << >> => called = told
      /\ chunk.finish # "tool_calls" =>
             \A c \in Call : called.st.calls[c].stopped = told.st.calls[c].stopped
  <2>1. chunk.tools # << >> => \A c \in Call : ~told.st.calls[c].stopped
    BY <1>7
  <2> QED
    BY <1>7, <1>8, <2>1, ToolCallsTell
<1> HIDE DEF called
<1>10. /\ Tells(b, stopped) /\ Sound(stopped.st) /\ \A c \in Call : UpToDate(stopped.st.calls[c])
       /\ SameBlocks(called.st, stopped.st)
  BY <1>9, StopCallsTell
<1> HIDE DEF stopped
<1>11. \A y : Tells(b, y) => y.st \in StateType
  BY DEF Tells, Told
<1>12. Ready(called.st) /\ Ready(stopped.st)
  <2>1. called.st.messageStarted /\ stopped.st.messageStarted
    BY <1>7, <1>9, <1>10 DEF SameBlocks
  <2> QED
    BY <1>9, <1>10, <1>11, <2>1 DEF Ready
<1> HIDE DEF b
<1>13. ASSUME Fresh(st), ~chunk.text, chunk.tools = << >>, chunk.finish # "tool_calls"
       PROVE  Fresh(Streams!IngestChunk(st, chunk).st)
  BY <1>1, <1>6, <1>7, <1>9, <1>13
<1> QED
  BY <1>1, <1>7, <1>9, <1>10, <1>12, <1>13 DEF b

LEMMA FinishTells ==
    ASSUME NEW st, Ready(st)
    PROVE  Tells(Shown(st), Streams!FinishStream(st))
<1> DEFINE b == Shown(st)
           none == [st |-> [st EXCEPT !.finished = TRUE], events |-> << >>]
           thought == Streams!CloseThinking(none)
           closed == [thought.st EXCEPT !.textFinished = TRUE]
           j == Streams!TextBlockIndex(st)
           e == Streams!Stop(j, Streams!Text)
           told == IF ~st.textStarted \/ st.textFinished THEN thought
                   ELSE Streams!Emit(thought, closed, <<e>>)
           called == Streams!FinishCalls(told)
           ended == Streams!Emit(called, called.st, <<Streams!MessageStop>>)
<1>1. Streams!FinishStream(st) = IF st.messageStarted THEN ended ELSE called
  BY DEF Streams!FinishStream, Streams!Ends
<1>2. st \in StateType /\ Sound(st)
  BY DEF Ready
<1>3. /\ none.st \in StateType /\ none.events = << >> /\ none \in Told
      /\ none.st.thinkingStarted = st.thinkingStarted /\ none.st.thinkingFinished = st.thinkingFinished
      /\ none.st.textStarted = st.textStarted /\ none.st.textFinished = st.textFinished
      /\ none.st.calls = st.calls
  <2> DEFINE new == [st EXCEPT !.finished = TRUE]
  <2>1. /\ new \in StateType
        /\ new.thinkingStarted = st.thinkingStarted /\ new.thinkingFinished = st.thinkingFinished
        /\ new.textStarted = st.textStarted /\ new.textFinished = st.textFinished
        /\ new.calls = st.calls
    BY <1>2 DEF StateType
  <2>2. none = [st |-> new, events |-> << >>]
    OBVIOUS
  <2> HIDE DEF new, none
  <2>3. none.st = new /\ none.events = << >> /\ none \in Told
    BY <2>1, <2>2 DEF Told
  <2> QED
    BY <2>1, <2>3
<1> HIDE DEF none
<1>4. Tells(b, none)
  <2>1. \A i \in Nat : Status(none.st, i) = Status(st, i)
    BY <1>3 DEF Status, Streams!TextBlockIndex, Streams!ToolIndexOffset
  <2>2. Shown(none.st) = b
    BY <2>1 DEF Shown
  <2> QED
    BY <1>3, <2>2, NoneRuns DEF Tells
<1>5. /\ Tells(b, thought) /\ thought.st \in StateType /\ thought.st.calls = st.calls
      /\ thought.st.thinkingStarted = st.thinkingStarted
      /\ thought.st.thinkingStarted => thought.st.thinkingFinished
      /\ thought.st.textStarted = st.textStarted /\ ~thought.st.textFinished
  <2>1. /\ Tells(b, thought) /\ thought.st \in {none.st, [none.st EXCEPT !.thinkingFinished = TRUE]}
        /\ thought.st.thinkingStarted => thought.st.thinkingFinished
    BY <1>4, CloseTells
  <2>2. thought.st \in StateType
    BY <2>1 DEF Tells, Told
  <2> HIDE DEF thought
  <2> QED
    BY <1>2, <1>3, <2>1, <2>2 DEF StateType, Sound
<1> HIDE DEF thought
<1>6. /\ Tells(b, told) /\ told.st \in StateType /\ told.st.calls = st.calls
      /\ told.st.thinkingStarted => told.st.thinkingFinished
      /\ told.st.textStarted => told.st.textFinished
  <2>1. CASE ~st.textStarted
    BY <1>5, <2>1
  <2>2. CASE st.textStarted
    <3>1. told = Streams!Emit(thought, closed, <<e>>)
      BY <1>2, <2>2 DEF Sound
    <3>2. /\ closed \in StateType /\ closed.textFinished /\ closed.calls = thought.st.calls
          /\ closed.thinkingStarted = thought.st.thinkingStarted
          /\ closed.thinkingFinished = thought.st.thinkingFinished
          /\ closed.textStarted = thought.st.textStarted
      BY <1>5 DEF StateType
    <3> HIDE DEF told, closed
    <3>3. /\ j = Streams!TextBlockIndex(thought.st) /\ j = Streams!TextBlockIndex(closed)
      BY <1>5, <3>2 DEF Streams!TextBlockIndex
    <3>4. j \in Nat /\ Status(thought.st, j) = "open" /\ Status(closed, j) = "closed"
      BY <1>5, <2>2, <3>2, <3>3, BlockStatus
    <3>5. \A i \in Nat \ {j} : Status(closed, i) = Status(thought.st, i)
      BY <3>2, <3>3 DEF Status, Streams!ToolIndexOffset
    <3>6. e \in EventType /\ e.kind = "stop" /\ e.index = j
      <4>1. << >> \in Seq([call : Nat, n : Nat])
        OBVIOUS
      <4>2. Streams!Text \in [kind : {"thinking", "text", "tool"}, call : Nat]
        BY DEF Streams!Text
      <4> QED
        BY <3>4, <4>1, <4>2 DEF Streams!Stop, Streams!Event, EventType
    <3> HIDE DEF e, j
    <3>7. Runs(Blocks, Shown(thought.st), <<e>>, Shown(closed))
      BY <3>4, <3>5, <3>6, ShowStop
    <3>8. Tells(b, told) /\ told.st = closed
      BY <1>5, <3>1, <3>2, <3>6, <3>7, EmitOneTells
    <3> QED
      BY <1>5, <3>2, <3>8
  <2> QED
    BY <2>1, <2>2
<1> HIDE DEF told
<1>7. /\ Tells(b, called) /\ SameBlocks(told.st, called.st)
      /\ called.st.thinkingFinished = told.st.thinkingFinished
      /\ \A c \in Call : called.st.calls[c].started => called.st.calls[c].stopped
  <2>1. \A c \in Call : CallSound(told.st.calls[c]) /\ UpToDate(told.st.calls[c])
    BY <1>2, <1>6 DEF Sound, Ready
  <2> QED
    BY <1>6, <2>1, FinishCallsTell
<1> HIDE DEF called
<1>8. called.st \in StateType
  BY <1>7 DEF Tells, Told
<1>9. \A i \in Nat : Status(called.st, i) # "open"
  BY <1>6, <1>7 DEF SameBlocks, Status
<1>10. Tells(b, ended)
  <2> DEFINE m == Streams!MessageStop
             d == Shown(called.st)
  <2>1. m \in EventType /\ m.kind = "message_stop"
    <3>1. 0 \in Nat /\ << >> \in Seq([call : Nat, n : Nat])
      OBVIOUS
    <3> QED
      BY <3>1 DEF Streams!MessageStop, Streams!Event, Streams!Text, EventType
  <2>2. \A i \in DOMAIN d : ~d[i]
    BY <1>9 DEF Shown
  <2> HIDE DEF m, d
  <2>3. FitsIn(Blocks, d, m) /\ After(Blocks, d, m) = d
    BY <2>1, <2>2 DEF FitsIn, BlockFits, Blocks, After, BlockAfter, Blocks
  <2>4. Runs(Blocks, d, <<m>>, d)
    BY <2>1, <2>3, OneRuns
  <2> QED
    BY <1>7, <1>8, <2>1, <2>4, EmitOneTells DEF m, d
<1> QED
  BY <1>1, <1>7, <1>10

----------------------------------------------------------------------------
(* The invariant *)

\* What is pending fits the blocks the client has been told of and leads to
\* those of the state.  While chunks come, the state can take the next one:
\* reasoning only before anything else, calls only before a finish reason.
AnswerInv ==
    /\ progress \in {"reasoning", "content", "finished"}
    /\ lateness = {} =>
          /\ events \in Seq(EventType)
          /\ blocks = [i \in DOMAIN blocks |-> blocks[i]]
          /\ Runs(Blocks, blocks, events, Shown(state))
          /\ ~done => /\ Ready(state)
                      /\ progress = "reasoning" => Fresh(state)
                      /\ \A c \in Call : state.calls[c].stopped => progress = "finished"

LEMMA NothingRuns == \A r, b, d : Runs(r, b, << >>, d) => b = d
<1> TAKE r, b, d
<1>1. Len(<< >>) = 0
  OBVIOUS
<1> QED
  BY <1>1 DEF Runs

LEMMA NewStateIsReady ==
    /\ Ready(Streams!NewState) /\ Fresh(Streams!NewState)
    /\ \A c \in Call : ~Streams!NewState.calls[c].stopped
    /\ Runs(Blocks, << >>, << >>, Shown(Streams!NewState))
<1> DEFINE st == Streams!NewState
<1>1. Streams!NewCall \in CallState
  BY DEF Streams!NewCall, CallState
<1>2. \A c \in Call : st.calls[c] = Streams!NewCall
  BY DEF Streams!NewState
<1>3. st \in StateType
  BY <1>1 DEF Streams!NewState, StateType
<1>4. /\ ~st.messageStarted /\ ~st.thinkingStarted /\ ~st.thinkingFinished /\ ~st.textStarted
      /\ ~st.textFinished
  BY DEF Streams!NewState
<1> HIDE DEF st
<1>5. \A c \in Call : /\ CallSound(st.calls[c]) /\ UpToDate(st.calls[c])
                      /\ ~st.calls[c].started /\ ~st.calls[c].stopped
  BY <1>2 DEF CallSound, UpToDate, Streams!NewCall
<1>6. Fresh(st) /\ Ready(st)
  BY <1>3, <1>4, <1>5 DEF Fresh, Ready, Sound
<1>7. Shown(st) = << >>
  <2>1. {k \in Nat : Status(st, k) # "none"} = {}
    BY <1>4, <1>6, FreshIsNotShown
  <2> QED
    BY <2>1 DEF Shown
<1>8. Runs(Blocks, << >>, << >>, Shown(st))
  BY <1>7, NoneRuns
<1> QED
  BY <1>5, <1>6, <1>8 DEF st

LEMMA AnswerStarts == Streams!Init => AnswerInv
<1> SUFFICES ASSUME Streams!Init PROVE AnswerInv
  OBVIOUS
<1>1. state = Streams!NewState /\ events = << >> /\ progress = "reasoning" /\ blocks = << >>
  BY DEF Streams!Init
<1>2. events \in Seq(EventType) /\ blocks = [i \in DOMAIN blocks |-> blocks[i]]
  BY <1>1
<1> QED
  BY <1>1, <1>2, NewStateIsReady DEF AnswerInv

LEMMA NewStreamKeeps == Streams!NewStream => AnswerInv'
<1> SUFFICES ASSUME Streams!NewStream PROVE AnswerInv'
  OBVIOUS
<1>1. state' = Streams!NewState /\ events' = << >> /\ progress' = "reasoning" /\ blocks' = << >>
  BY DEF Streams!NewStream
<1>2. events' \in Seq(EventType) /\ blocks' = [i \in DOMAIN blocks' |-> blocks'[i]]
  BY <1>1
<1> QED
  BY <1>1, <1>2, NewStateIsReady DEF AnswerInv

LEMMA ChunkKeeps == AnswerInv /\ Streams!ReceiveChunk => AnswerInv'
<1> SUFFICES ASSUME AnswerInv, Streams!ReceiveChunk PROVE AnswerInv'
  OBVIOUS
<1>1. PICK chunk \in Streams!Chunk :
          /\ Streams!MaySend(chunk)
          /\ state' = Streams!IngestChunk(state, chunk).st
          /\ events' = Streams!IngestChunk(state, chunk).events
          /\ lateness' = Streams!LateWith(chunk)
          /\ progress' = IF progress = "finished" \/ chunk.finish # "none" THEN "finished"
                         ELSE IF chunk.text \/ chunk.tools # << >> THEN "content"
                         ELSE progress
  BY DEF Streams!ReceiveChunk
<1>2. events = << >> /\ ~done /\ done' = done /\ blocks' = blocks
  BY DEF Streams!ReceiveChunk, Streams!Waits
<1>3. progress' \in {"reasoning", "content", "finished"}
  BY <1>1 DEF AnswerInv
<1>4. SUFFICES ASSUME lateness' = {}
               PROVE  /\ events' \in Seq(EventType)
                      /\ blocks' = [i \in DOMAIN blocks' |-> blocks'[i]]
                      /\ Runs(Blocks, blocks', events', Shown(state'))
                      /\ Ready(state')
                      /\ progress' = "reasoning" => Fresh(state')
                      /\ \A c \in Call : state'.calls[c].stopped => progress' = "finished"
  BY <1>3 DEF AnswerInv
<1>5. lateness = {} /\ (chunk.thinking => progress # "content")
  <2>1. lateness \subseteq lateness'
    BY <1>1 DEF Streams!LateWith
  <2>2. chunk.thinking /\ progress = "content" => "resumed" \in lateness'
    BY <1>1 DEF Streams!LateWith, Streams!Late
  <2> QED
    BY <1>4, <2>1, <2>2
<1>6. /\ blocks = [i \in DOMAIN blocks |-> blocks[i]] /\ blocks = Shown(state) /\ Ready(state)
      /\ progress = "reasoning" => Fresh(state)
      /\ \A c \in Call : state.calls[c].stopped => progress = "finished"
  BY <1>2, <1>5, NothingRuns DEF AnswerInv
<1>7. chunk.thinking => Fresh(state)
  <2>1. chunk.thinking => progress # "finished"
    BY <1>1 DEF Streams!MaySend
  <2> QED
    BY <1>5, <1>6, <2>1 DEF AnswerInv
<1>8. chunk.tools # << >> => \A c \in Call : ~state.calls[c].stopped
  BY <1>1, <1>6 DEF Streams!MaySend
<1>9. \A i, j \in DOMAIN chunk.tools : j < i => chunk.tools[j].index # chunk.tools[i].index
  <2>1. DOMAIN chunk.tools \in SUBSET (Nat \ {0})
    BY ToolsAreNumbered
  <2>2. ASSUME NEW i \in DOMAIN chunk.tools, NEW j \in DOMAIN chunk.tools, j < i
        PROVE  chunk.tools[j].index # chunk.tools[i].index
    <3>1. j \in 1..(i - 1)
      BY <2>1, <2>2
    <3> QED
      BY <1>1, <3>1 DEF Streams!MaySend
  <2> QED
    BY <2>2
<1> DEFINE y == Streams!IngestChunk(state, chunk)
<1>10. /\ Tells(Shown(state), y) /\ Ready(y.st)
       /\ Fresh(state) /\ ~chunk.text /\ chunk.tools = << >> /\ chunk.finish # "tool_calls"
              => Fresh(y.st)
       /\ chunk.finish # "tool_calls" =>
              \A c \in Call : y.st.calls[c].stopped = state.calls[c].stopped
  BY <1>6, <1>7, <1>8, <1>9, ChunkTells
<1>11. state' = y.st /\ events' = y.events
  BY <1>1
<1> HIDE DEF y
<1>12. events' \in Seq(EventType) /\ Runs(Blocks, blocks', events', Shown(state'))
  BY <1>2, <1>6, <1>10, <1>11 DEF Tells, Told
<1>13. progress' = "reasoning" => Fresh(state')
  BY <1>1, <1>6, <1>10, <1>11
<1>14. \A c \in Call : state'.calls[c].stopped => progress' = "finished"
  BY <1>1, <1>6, <1>10, <1>11
<1> QED
  BY <1>2, <1>6, <1>10, <1>11, <1>12, <1>13, <1>14

LEMMA EndKeeps == AnswerInv /\ Streams!BodyEnds => AnswerInv'
<1> SUFFICES ASSUME AnswerInv, Streams!BodyEnds PROVE AnswerInv'
  OBVIOUS
<1> DEFINE y == Streams!FinishStream(state)
<1>1. /\ events = << >> /\ ~done /\ done' /\ blocks' = blocks /\ lateness' = lateness
      /\ progress' = progress /\ state' = y.st /\ events' = y.events
  BY DEF Streams!BodyEnds, Streams!Waits
<1>2. ASSUME lateness = {}
      PROVE  /\ events' \in Seq(EventType) /\ blocks' = [i \in DOMAIN blocks' |-> blocks'[i]]
             /\ Runs(Blocks, blocks', events', Shown(state'))
  <2>1. blocks = [i \in DOMAIN blocks |-> blocks[i]] /\ blocks = Shown(state) /\ Ready(state)
    BY <1>1, <1>2, NothingRuns DEF AnswerInv
  <2>2. Tells(Shown(state), y)
    BY <2>1, FinishTells
  <2> HIDE DEF y
  <2> QED
    BY <1>1, <2>1, <2>2 DEF Tells, Told
<1> HIDE DEF y
<1> QED
  BY <1>1, <1>2 DEF AnswerInv

LEMMA EventKeeps == AnswerInv /\ Streams!NextEvent => AnswerInv'
<1> SUFFICES ASSUME AnswerInv, Streams!NextEvent PROVE AnswerInv'
  OBVIOUS
<1>1. /\ events # << >> /\ events' = Tail(events) /\ blocks' = After(Blocks, blocks, Head(events))
      /\ state' = state /\ done' = done /\ lateness' = lateness /\ progress' = progress
  BY DEF Streams!NextEvent, After, BlockAfter, Blocks
<1>2. ASSUME lateness = {}
      PROVE  /\ events' \in Seq(EventType) /\ blocks' = [i \in DOMAIN blocks' |-> blocks'[i]]
             /\ Runs(Blocks, blocks', events', Shown(state'))
  <2>1. events \in Seq(EventType) /\ blocks = [i \in DOMAIN blocks |-> blocks[i]]
        /\ Runs(Blocks, blocks, events, Shown(state))
    BY <1>2 DEF AnswerInv
  <2>2. Tail(events) \in Seq(EventType)
    BY <1>1, <2>1
  <2>3. Runs(Blocks, After(Blocks, blocks, Head(events)), Tail(events), Shown(state))
    BY <1>1, <2>1, FirstRuns
  <2>4. After(Blocks, blocks, Head(events)) = [i \in DOMAIN After(Blocks, blocks, Head(events)) |->
                                          After(Blocks, blocks, Head(events))[i]]
    BY <2>1 DEF After, BlockAfter, Blocks
  <2> QED
    BY <1>1, <2>2, <2>3, <2>4
<1> QED
  BY <1>1, <1>2 DEF AnswerInv

LEMMA AnswerStays ==
    AnswerInv /\ UNCHANGED <<state, events, done, progress, lateness, blocks>> => AnswerInv'
  BY DEF AnswerInv

LEMMA AnswerStep == AnswerInv /\ [EachNext]_eachVars => AnswerInv'
<1> SUFFICES ASSUME AnswerInv, [EachNext]_eachVars PROVE AnswerInv'
  OBVIOUS
<1> DEFINE Same == UNCHANGED <<state, events, done, progress, lateness, blocks>>
<1>1. Same => AnswerInv'
  BY AnswerStays
<1>2. CASE UNCHANGED eachVars
  <2>1. Same
    BY <1>2 DEF eachVars, streamVars
  <2> QED
    BY <1>1, <2>1
<1>3. CASE subject \in {"loop", "trident"} /\ UNCHANGED streamVars
  <2>1. Same
    BY <1>3 DEF streamVars
  <2> QED
    BY <1>1, <2>1
<1>4. CASE Streams!EachNext
  <2>1. CASE Streams!Next
    <3>1. CASE Streams!ReceiveChunk
      BY <3>1, ChunkKeeps
    <3>2. CASE Streams!BodyEnds
      BY <3>2, EndKeeps
    <3>3. CASE Streams!BodyBreaks
      <4>1. Streams!NewStream \/ Same
        BY <3>3 DEF Streams!BodyBreaks, Streams!streamVars
      <4> QED
        BY <1>1, <4>1, NewStreamKeeps
    <3>4. CASE Streams!Stalls
      BY <3>4, NewStreamKeeps DEF Streams!Stalls
    <3>5. CASE Streams!NextEvent
      BY <3>5, EventKeeps
    <3>6. CASE Streams!StreamEnds
      <4>1. Same
        BY <3>6 DEF Streams!StreamEnds, Streams!streamVars
      <4> QED
        BY <1>1, <4>1
    <3> QED
      BY <2>1, <3>1, <3>2, <3>3, <3>4, <3>5, <3>6 DEF Streams!Next
  <2>2. CASE UNCHANGED Streams!vars
    <3>1. Same
      BY <2>2 DEF Streams!vars, Streams!streamVars
    <3> QED
      BY <1>1, <3>1
  <2> QED
    BY <1>4, <2>1, <2>2 DEF Streams!EachNext
<1> QED
  BY <1>2, <1>3, <1>4 DEF EachNext

LEMMA AnswerSafe == AnswerInv => BlocksAreBracketed
<1> SUFFICES ASSUME AnswerInv, lateness = {}, events # << >>
             PROVE  Streams!Fits(Head(events))
  BY DEF BlocksAreBracketed, Streams!BlocksAreBracketed
<1>1. /\ events \in Seq(EventType) /\ blocks = [i \in DOMAIN blocks |-> blocks[i]]
      /\ Runs(Blocks, blocks, events, Shown(state))
  BY DEF AnswerInv
<1>2. FitsIn(Blocks, blocks, Head(events)) /\ Head(events) \in EventType
  BY <1>1, FirstRuns
<1>3. DOMAIN blocks = {} => blocks = << >>
  BY <1>1
<1> QED
  BY <1>2, <1>3 DEF FitsIn, BlockFits, Blocks, Streams!Fits

\* However an answer is cut into chunks, with whatever calls and fragments, its
\* events open each block once, fill it while it is open and close it before
\* the message ends, unless reasoning comes after what it is about: what
\* StreamState (openai_compat.rs) makes of a provider's deltas.
THEOREM AnswersAreBracketed == EachSpec => []BlocksAreBracketed
<1>1. EachInit => AnswerInv
  BY AnswerStarts DEF EachInit, Streams!EachInit
<1>2. AnswerInv /\ [EachNext]_eachVars => AnswerInv'
  BY AnswerStep
<1>3. AnswerInv => BlocksAreBracketed
  BY AnswerSafe
<1> QED
  BY <1>1, <1>2, <1>3, PTL DEF EachSpec

----------------------------------------------------------------------------
(* III. Calls                                                               *)

(***************************************************************************)
(* A client knows the calls of an answer by what it has been told of each: *)
(* nothing, how many of its fragments, or that it is complete.  Each       *)
(* operator of StreamState tells it the next of what is so; a client that  *)
(* is told so keeps the calls whole.                                       *)
(***************************************************************************)

OfCalls(r) == r.of = "calls" /\ r.offset \in {1, 2}

LEMMA CallsForIs ==
    \A who : \A offset \in {1, 2} :
        /\ OfCalls(CallsFor(who, offset)) /\ CallsFor(who, offset).who = who
        /\ CallsFor(who, offset).offset = offset
  BY DEF OfCalls, CallsFor

\* What a state has told of a call.  The end of the text completes what is
\* pending in the program's one place.
Reported(r, st) ==
    [c \in Call |->
        [at |-> IF ~st.calls[c].started THEN "none"
                ELSE IF st.calls[c].stopped \/ (r.who = "cli" /\ st.textFinished) THEN "done"
                ELSE "open",
         n |-> st.calls[c].emitted]]

\* Events that take a client from v to what the state has told of the calls.
Reports(r, v, x) == x \in Told /\ Runs(r, v, x.events, Reported(r, x.st))

\* What holds of a call between two operators, and between two chunks.
CallKept(k) ==
    /\ CallSound(k) /\ (k.started => k.named) /\ (~k.started => k.emitted = 0)

CallCurrent(k) == CallKept(k) /\ UpToDate(k) /\ (k.named => k.started)

\* Only the calls m are named, for the program one.
OnlyNamed(r, m, st) ==
    /\ \A c \in Call : st.calls[c].named => c \in m
    /\ r.who = "cli" => \A c, d \in m : c = d

\* No call is named while reasoning goes on.
Reasoned(st) ==
    (\E c \in Call : st.calls[c].named) => (st.thinkingStarted => st.thinkingFinished)

LEMMA EmitReports ==
    ASSUME NEW r, NEW v, NEW x, Reports(r, v, x), NEW new \in StateType, NEW evs \in Seq(EventType),
           Runs(r, Reported(r, x.st), evs, Reported(r, new))
    PROVE  Reports(r, v, Streams!Emit(x, new, evs)) /\ Streams!Emit(x, new, evs).st = new
<1>1. x.st \in StateType /\ x.events \in Seq(EventType) /\ Runs(r, v, x.events, Reported(r, x.st))
  BY DEF Reports, Told
<1>2. Runs(r, v, x.events \o evs, Reported(r, new)) /\ x.events \o evs \in Seq(EventType)
  BY <1>1, MoreRuns
<1> DEFINE y == Streams!Emit(x, new, evs)
<1>3. y.st = new /\ y.events = x.events \o evs /\ y \in Told
  BY <1>2 DEF Streams!Emit, Told
<1> QED
  BY <1>2, <1>3 DEF Reports

LEMMA EmitOneReports ==
    ASSUME NEW r, OfCalls(r), NEW v, NEW x, Reports(r, v, x), NEW new \in StateType,
           NEW e \in EventType, CallFits(r, Reported(r, x.st), e),
           CallAfter(r, Reported(r, x.st), e) = Reported(r, new)
    PROVE  Reports(r, v, Streams!Emit(x, new, <<e>>)) /\ Streams!Emit(x, new, <<e>>).st = new
<1> DEFINE evs == <<e>>
<1>1. evs \in Seq(EventType)
  OBVIOUS
<1>2. FitsIn(r, Reported(r, x.st), e) /\ After(r, Reported(r, x.st), e) = Reported(r, new)
  BY DEF FitsIn, After, OfCalls
<1>3. Runs(r, Reported(r, x.st), evs, Reported(r, new))
  BY <1>2, OneRuns
<1> HIDE DEF evs
<1>4. Reports(r, v, Streams!Emit(x, new, evs)) /\ Streams!Emit(x, new, evs).st = new
  BY <1>1, <1>3, EmitReports
<1> QED
  BY <1>4 DEF evs

LEMMA ReportedIs ==
    ASSUME NEW r, NEW st \in StateType, NEW c \in Call
    PROVE  /\ Reported(r, st)[c].n = st.calls[c].emitted
           /\ Reported(r, st)[c].at = IF ~st.calls[c].started THEN "none"
                ELSE IF st.calls[c].stopped \/ (r.who = "cli" /\ st.textFinished) THEN "done"
                ELSE "open"
  BY DEF Reported

\* What a view of the calls becomes when one of them changes.
LEMMA ReportedWith ==
    ASSUME NEW r, NEW old, NEW new, NEW c \in Call, OnlyCall(old, new, c)
    PROVE  Reported(r, new) = [Reported(r, old) EXCEPT ![c] = Reported(r, new)[c]]
  BY DEF Reported, OnlyCall

LEMMA ReportsBegin ==
    ASSUME NEW r, OfCalls(r), NEW v, NEW x, Reports(r, v, x), NEW c \in Call,
           CallKept(x.st.calls[c]), r.offset = Streams!ToolIndexOffset(x.st),
           NEW m, OnlyNamed(r, m, x.st), ~x.st.textFinished,
           \A d \in Call \ {c} : CallKept(x.st.calls[d])
    PROVE  LET y == Streams!BeginCall(x, c) IN
           /\ Reports(r, v, y) /\ OnlyCall(x.st, y.st, c) /\ CallKept(y.st.calls[c])
           /\ y.st.calls[c].stopped = x.st.calls[c].stopped
           /\ y.st.calls[c].arguments = x.st.calls[c].arguments
           /\ y.st.calls[c].named = x.st.calls[c].named
           /\ y.st.calls[c].named => y.st.calls[c].started
<1> DEFINE k == x.st.calls[c]
           new == [k EXCEPT !.started = TRUE]
           e == Streams!Start(CallIndex(x.st, c), Streams!ToolUse(c))
<1>1. x.st \in StateType /\ k \in CallState
  BY DEF Reports, Told, StateType
<1>2. CASE k.started \/ ~k.named
  <2>1. Streams!BeginCall(x, c) = x
    BY <1>2 DEF Streams!BeginCall
  <2> QED
    BY <1>1, <1>2, <2>1 DEF OnlyCall
<1>3. CASE ~k.started /\ k.named
  <2>1. new \in CallState /\ new.started /\ new.stopped = k.stopped /\ new.arguments = k.arguments
        /\ new.emitted = k.emitted /\ ~k.stopped /\ new.named = k.named /\ k.emitted = 0
    BY <1>1, <1>3 DEF CallState, CallSound, CallKept
  <2> DEFINE st == SetCall(x.st, c, new)
  <2>2. Streams!BeginCall(x, c) = Streams!Emit(x, st, <<e>>)
    <3>1. [x.st EXCEPT !.calls[c].started = TRUE] = st
      BY DEF SetCall
    <3>2. ~(k.started \/ ~k.named)
      BY <1>3
    <3> QED
      BY <3>1, <3>2 DEF Streams!BeginCall, CallIndex
  <2> HIDE DEF new
  <2>3. OnlyCall(x.st, st, c) /\ st.calls[c] = new
    BY <1>1, <2>1, SetCallIs
  <2>4. CallIndex(x.st, c) \in Nat /\ CallIndex(x.st, c) = c + r.offset
    BY CallsAreNumbers DEF CallIndex, OfCalls
  <2>5. e \in EventType /\ e.kind = "start" /\ e.index = CallIndex(x.st, c)
    BY <2>4, ToolEventsAreTyped
  <2>6. e.block.kind = "tool" /\ e.block.call = c
    BY DEF Streams!Start, Streams!Event, Streams!ToolUse
  <2> HIDE DEF st, e
  <2>7. CallFits(r, Reported(r, x.st), e)
    <3>1. r.who = "cli" => \A d \in Call : ~x.st.calls[d].started
      BY <1>3 DEF OnlyNamed, CallKept
    <3>2. Reported(r, x.st)[c].at = "none"
          /\ (r.who = "cli" => \A d \in Call : Reported(r, x.st)[d].at # "open")
      BY <1>1, <1>3, <3>1, ReportedIs
    <3> QED
      BY <2>4, <2>5, <2>6, <3>2 DEF CallFits
  <2>8. CallAfter(r, Reported(r, x.st), e) = Reported(r, st)
    <3>1. Reported(r, st)[c] = [at |-> "open", n |-> 0]
      BY <2>1, <2>3 DEF Reported, OnlyCall
    <3>2. Reported(r, st) = [Reported(r, x.st) EXCEPT ![c] = [at |-> "open", n |-> 0]]
      BY <2>3, <3>1, ReportedWith
    <3> QED
      BY <2>5, <2>6, <3>2 DEF CallAfter
  <2>9. Reports(r, v, Streams!Emit(x, st, <<e>>)) /\ Streams!Emit(x, st, <<e>>).st = st
    BY <2>3, <2>5, <2>7, <2>8, EmitOneReports DEF OnlyCall
  <2> QED
    BY <1>3, <2>1, <2>2, <2>3, <2>9 DEF CallSound, CallKept
<1> QED
  BY <1>2, <1>3

LEMMA ReportsArguments ==
    ASSUME NEW r, OfCalls(r), NEW v, NEW x, Reports(r, v, x), NEW c \in Call,
           CallKept(x.st.calls[c]), r.offset = Streams!ToolIndexOffset(x.st), ~x.st.textFinished
    PROVE  LET y == Streams!EmitArguments(x, c) IN
           /\ Reports(r, v, y) /\ OnlyCall(x.st, y.st, c) /\ CallKept(y.st.calls[c])
           /\ UpToDate(y.st.calls[c])
           /\ y.st.calls[c].stopped = x.st.calls[c].stopped
           /\ y.st.calls[c].arguments = x.st.calls[c].arguments
           /\ y.st.calls[c].named = x.st.calls[c].named
           /\ y.st.calls[c].started = x.st.calls[c].started
<1> DEFINE k == x.st.calls[c]
           new == [k EXCEPT !.emitted = k.arguments]
           part == [i \in 1..(k.arguments - k.emitted) |-> [call |-> c, n |-> k.emitted + i]]
           e == Streams!Delta(CallIndex(x.st, c), Streams!ToolUse(c), part)
<1>1. x.st \in StateType /\ k \in CallState
  BY DEF Reports, Told, StateType
<1>2. CASE ~k.started \/ k.emitted >= k.arguments
  <2>1. Streams!EmitArguments(x, c) = x
    BY <1>2 DEF Streams!EmitArguments
  <2>2. UpToDate(k)
    BY <1>1, <1>2 DEF UpToDate, CallKept, CallSound, CallState
  <2> QED
    BY <1>1, <2>1, <2>2 DEF OnlyCall
<1>3. CASE k.started /\ ~(k.emitted >= k.arguments)
  <2>1. new \in CallState /\ new.started /\ new.stopped = k.stopped /\ new.arguments = k.arguments
        /\ new.emitted = k.arguments /\ ~k.stopped /\ k.started /\ new.named = k.named
    BY <1>1, <1>3 DEF CallState, CallKept, CallSound
  <2> DEFINE st == SetCall(x.st, c, new)
  <2>2. Streams!EmitArguments(x, c) = Streams!Emit(x, st, <<e>>)
    <3>1. [x.st EXCEPT !.calls[c].emitted = k.arguments] = st
      BY DEF SetCall
    <3>2. ~(~k.started \/ k.emitted >= k.arguments)
      BY <1>3
    <3> QED
      BY <3>1, <3>2 DEF Streams!EmitArguments, CallIndex
  <2> DEFINE n == k.arguments - k.emitted
  <2>3. n \in Nat /\ k.emitted \in Nat /\ c \in Nat /\ k.emitted + n = k.arguments
    BY <1>1, <1>3, CallsAreNumbers DEF CallState
  <2>4. part \in Seq([call : Nat, n : Nat]) /\ Len(part) = n
        /\ part = [i \in 1..n |-> [call |-> c, n |-> k.emitted + i]]
    <3> DEFINE S == [call : Nat, n : Nat]
    <3>1. part = [i \in 1..n |-> [call |-> c, n |-> k.emitted + i]]
      OBVIOUS
    <3> HIDE DEF n, part
    <3>2. part \in [1..n -> S]
      BY <2>3, <3>1
    <3> HIDE DEF S
    <3>3. part \in Seq(S) /\ Len(part) = n
      BY <2>3, <3>2
    <3> QED
      BY <3>1, <3>3 DEF S
  <2> HIDE DEF new, part, n
  <2>5. OnlyCall(x.st, st, c) /\ st.calls[c] = new
    BY <1>1, <2>1, SetCallIs
  <2>6. CallIndex(x.st, c) \in Nat /\ CallIndex(x.st, c) = c + r.offset
    BY CallsAreNumbers DEF CallIndex, OfCalls
  <2>7. e \in EventType /\ e.kind = "delta" /\ e.index = CallIndex(x.st, c)
    BY <2>4, <2>6, ToolEventsAreTyped
  <2>8. e.block.kind = "tool" /\ e.block.call = c /\ e.part = part
    BY DEF Streams!Delta, Streams!Event, Streams!ToolUse
  <2> HIDE DEF st, e
  <2>9. /\ Reported(r, x.st)[c] = [at |-> "open", n |-> k.emitted]
        /\ Reported(r, st)[c] = [at |-> "open", n |-> k.emitted + n]
    BY <2>1, <2>3, <2>5 DEF Reported, OnlyCall
  <2>10. CallFits(r, Reported(r, x.st), e)
    <3> DEFINE told == Reported(r, x.st)
               many == told[c].n
               size == Len(e.part)
    <3>0. size = n
      BY <2>4, <2>8
    <3>1. many = k.emitted /\ size = n /\ told[c].at = "open"
      <4> HIDE DEF size
      <4> QED
        BY <2>9, <3>0
    <3> HIDE DEF many, size, told
    <3>2. e.part = [i \in 1..size |-> [call |-> c, n |-> many + i]]
      BY <2>4, <2>8, <3>1
    <3>3. e.part = [i \in 1..Len(e.part) |-> [call |-> c, n |-> told[c].n + i]]
      BY <3>2 DEF many, size
    <3>4. CallFits(r, told, e)
      BY <2>6, <2>7, <2>8, <3>1, <3>3 DEF CallFits
    <3> QED
      BY <3>4 DEF told
  <2>11. CallAfter(r, Reported(r, x.st), e) = Reported(r, st)
    <3>1. [Reported(r, x.st) EXCEPT ![c].n = @ + Len(e.part)]
              = [Reported(r, x.st) EXCEPT ![c] = [at |-> "open", n |-> k.emitted + n]]
      <4> DEFINE told == Reported(r, x.st)
      <4>1. Len(e.part) = n /\ told[c] = [at |-> "open", n |-> k.emitted]
        BY <2>4, <2>8, <2>9
      <4> HIDE DEF told
      <4>2. [told[c] EXCEPT !.n = @ + Len(e.part)] = [at |-> "open", n |-> k.emitted + n]
        BY <4>1
      <4>3. [told EXCEPT ![c].n = @ + Len(e.part)] = [told EXCEPT ![c] = [told[c] EXCEPT !.n = @ + Len(e.part)]]
        OBVIOUS
      <4> QED
        BY <4>2, <4>3 DEF told
    <3>2. Reported(r, st) = [Reported(r, x.st) EXCEPT ![c] = [at |-> "open", n |-> k.emitted + n]]
      BY <2>5, <2>9, ReportedWith
    <3> QED
      BY <2>7, <2>8, <3>1, <3>2 DEF CallAfter
  <2>12. Reports(r, v, Streams!Emit(x, st, <<e>>)) /\ Streams!Emit(x, st, <<e>>).st = st
    BY <2>5, <2>7, <2>10, <2>11, EmitOneReports DEF OnlyCall
  <2>13. CallKept(new) /\ UpToDate(new)
    BY <1>1, <2>1 DEF CallSound, UpToDate, CallState, CallKept
  <2> QED
    BY <2>1, <2>2, <2>5, <2>12, <2>13
<1> QED
  BY <1>2, <1>3

LEMMA ReportsStop ==
    ASSUME NEW r, OfCalls(r), NEW v, NEW x, Reports(r, v, x), NEW c \in Call,
           CallKept(x.st.calls[c]), UpToDate(x.st.calls[c]),
           r.offset = Streams!ToolIndexOffset(x.st)
    PROVE  LET y == Streams!StopCall(x, c) IN
           /\ Reports(r, v, y) /\ OnlyCall(x.st, y.st, c) /\ CallKept(y.st.calls[c])
           /\ UpToDate(y.st.calls[c])
           /\ y.st.calls[c].arguments = x.st.calls[c].arguments
           /\ y.st.calls[c].named = x.st.calls[c].named
           /\ y.st.calls[c].started = x.st.calls[c].started
           /\ y.st.calls[c].started => y.st.calls[c].stopped
<1> DEFINE k == x.st.calls[c]
           new == [k EXCEPT !.stopped = TRUE]
           e == Streams!Stop(CallIndex(x.st, c), Streams!ToolUse(c))
<1>1. x.st \in StateType /\ k \in CallState
  BY DEF Reports, Told, StateType
<1>2. CASE ~k.started \/ k.stopped
  <2>1. Streams!StopCall(x, c) = x
    BY <1>2 DEF Streams!StopCall
  <2> QED
    BY <1>1, <1>2, <2>1 DEF OnlyCall
<1>3. CASE k.started /\ ~k.stopped
  <2>1. new \in CallState /\ new.started = k.started /\ new.started /\ new.stopped
        /\ new.arguments = k.arguments /\ new.emitted = k.emitted /\ new.named = k.named
    BY <1>1, <1>3 DEF CallState
  <2> DEFINE st == SetCall(x.st, c, new)
  <2>2. Streams!StopCall(x, c) = Streams!Emit(x, st, <<e>>)
    <3>1. [x.st EXCEPT !.calls[c].stopped = TRUE] = st
      BY DEF SetCall
    <3>2. ~(~k.started \/ k.stopped)
      BY <1>3
    <3> QED
      BY <3>1, <3>2 DEF Streams!StopCall, CallIndex
  <2> HIDE DEF new
  <2>3. OnlyCall(x.st, st, c) /\ st.calls[c] = new
    BY <1>1, <2>1, SetCallIs
  <2>4. CallIndex(x.st, c) \in Nat /\ CallIndex(x.st, c) = c + r.offset
    BY CallsAreNumbers DEF CallIndex, OfCalls
  <2>5. e \in EventType /\ e.kind = "stop" /\ e.index = CallIndex(x.st, c)
    BY <2>4, ToolEventsAreTyped
  <2>6. e.block.kind = "tool" /\ e.block.call = c
    BY DEF Streams!Stop, Streams!Event, Streams!ToolUse
  <2> HIDE DEF st, e
  <2>7. CallFits(r, Reported(r, x.st), e)
    <3>1. Reported(r, x.st)[c].at = IF r.who = "cli" /\ x.st.textFinished THEN "done" ELSE "open"
      BY <1>3 DEF Reported
    <3>2. x.st.textFinished => (r.who = "cli" => \A d \in Call : Reported(r, x.st)[d].at # "open")
      BY DEF Reported
    <3> QED
      BY <2>4, <2>5, <2>6, <3>1, <3>2 DEF CallFits
  <2>8. CallAfter(r, Reported(r, x.st), e) = Reported(r, st)
    <3>1. Reported(r, st)[c] = [at |-> "done", n |-> k.emitted]
          /\ Reported(r, x.st)[c].n = k.emitted
      BY <2>1, <2>3 DEF Reported
    <3>2. Reported(r, st) = [Reported(r, x.st) EXCEPT ![c] = [at |-> "done", n |-> k.emitted]]
      BY <2>3, <3>1, ReportedWith
    <3>3. [Reported(r, x.st) EXCEPT ![c].at = "done"]
              = [Reported(r, x.st) EXCEPT ![c] = [at |-> "done", n |-> k.emitted]]
      <4> DEFINE told == Reported(r, x.st)
      <4>1. [told[c] EXCEPT !.at = "done"] = [at |-> "done", n |-> k.emitted]
        BY DEF Reported
      <4> HIDE DEF told
      <4>2. [told EXCEPT ![c].at = "done"] = [told EXCEPT ![c] = [@ EXCEPT !.at = "done"]]
        OBVIOUS
      <4> QED
        BY <4>1, <4>2 DEF told
    <3> QED
      BY <2>5, <2>6, <3>2, <3>3 DEF CallAfter
  <2>9. Reports(r, v, Streams!Emit(x, st, <<e>>)) /\ Streams!Emit(x, st, <<e>>).st = st
    BY <2>3, <2>5, <2>7, <2>8, EmitOneReports DEF OnlyCall
  <2>10. CallKept(new) /\ UpToDate(new)
    BY <1>1, <1>3, <2>1 DEF CallSound, UpToDate, CallState, CallKept
  <2> QED
    BY <2>1, <2>2, <2>3, <2>9, <2>10
<1> QED
  BY <1>2, <1>3

----------------------------------------------------------------------------
(* Other blocks say nothing of the calls.                                   *)

LEMMA OtherRuns ==
    ASSUME NEW r, OfCalls(r), NEW st \in StateType, NEW e \in EventType,
           e.block.kind # "tool", e.index < r.offset,
           e.kind = "stop" => \A c \in Call : Reported(r, st)[c].at # "open"
    PROVE  Runs(r, Reported(r, st), <<e>>, Reported(r, st))
<1> DEFINE told == Reported(r, st)
<1>1. told = [c \in Call |-> told[c]]
  BY DEF Reported
<1>2. e.kind = "stop" => \A c \in Call : told[c].at # "open"
  OBVIOUS
<1> HIDE DEF told
<1>3. CallFits(r, told, e)
  BY <1>2 DEF CallFits
<1>4. CallAfter(r, told, e) = told
  <2>1. CASE e.kind = "stop" /\ r.who = "cli"
    <3>1. CallAfter(r, told, e)
              = [c \in Call |-> IF told[c].at = "open" THEN [told[c] EXCEPT !.at = "done"] ELSE told[c]]
      BY <2>1 DEF CallAfter
    <3> QED
      BY <1>1, <1>2, <2>1, <3>1
  <2>2. CASE ~(e.kind = "stop" /\ r.who = "cli")
    BY <2>2 DEF CallAfter
  <2> QED
    BY <2>1, <2>2
<1>5. FitsIn(r, told, e) /\ After(r, told, e) = told
  BY <1>3, <1>4 DEF FitsIn, After, OfCalls
<1>6. Runs(r, told, <<e>>, told)
  BY <1>5, OneRuns
<1> QED
  BY <1>6 DEF told

SameCalls(old, new) == new.calls = old.calls /\ new.textFinished = old.textFinished

LEMMA SameCallsAreReported ==
    ASSUME NEW r, NEW old, NEW new, SameCalls(old, new)
    PROVE  Reported(r, new) = Reported(r, old)
  BY DEF SameCalls, Reported

LEMMA OtherReports ==
    ASSUME NEW r, OfCalls(r), NEW v, NEW x, Reports(r, v, x), NEW new \in StateType,
           SameCalls(x.st, new), NEW e \in EventType, e.block.kind # "tool", e.index < r.offset,
           e.kind = "stop" => \A c \in Call : Reported(r, x.st)[c].at # "open"
    PROVE  Reports(r, v, Streams!Emit(x, new, <<e>>)) /\ Streams!Emit(x, new, <<e>>).st = new
<1> DEFINE evs == <<e>>
<1>1. evs \in Seq(EventType) /\ x.st \in StateType
  BY DEF Reports, Told
<1>2. Runs(r, Reported(r, x.st), evs, Reported(r, x.st))
  BY <1>1, OtherRuns
<1> HIDE DEF evs
<1>3. Runs(r, Reported(r, x.st), evs, Reported(r, new))
  BY <1>2, SameCallsAreReported
<1>4. Reports(r, v, Streams!Emit(x, new, evs)) /\ Streams!Emit(x, new, evs).st = new
  BY <1>1, <1>3, EmitReports
<1> QED
  BY <1>4 DEF evs

LEMMA OpenReports ==
    ASSUME NEW r, OfCalls(r), NEW v, NEW x, Reports(r, v, x), NEW new \in StateType,
           SameCalls(x.st, new), NEW begun \in BOOLEAN, NEW j \in Nat, j < r.offset,
           NEW block \in [kind : {"thinking", "text"}, call : Nat]
    PROVE  LET evs == (IF begun THEN << >> ELSE <<Streams!Start(j, block)>>)
                          \o <<Streams!Delta(j, block, << >>)>>
               y == Streams!Emit(x, new, evs)
           IN  Reports(r, v, y) /\ y.st = new
<1> DEFINE s == Streams!Start(j, block)
           d == Streams!Delta(j, block, << >>)
           evs == (IF begun THEN << >> ELSE <<s>>) \o <<d>>
<1>1. /\ s \in EventType /\ s.kind = "start" /\ s.index = j /\ s.block.kind # "tool"
      /\ d \in EventType /\ d.kind = "delta" /\ d.index = j /\ d.block.kind # "tool"
  <2>1. << >> \in Seq([call : Nat, n : Nat])
    OBVIOUS
  <2> QED
    BY <2>1 DEF Streams!Start, Streams!Delta, Streams!Event, EventType
<1> HIDE DEF s, d
<1>2. <<s>> \in Seq(EventType) /\ <<d>> \in Seq(EventType) /\ << >> \o <<d>> = <<d>>
      /\ <<s>> \o <<d>> \in Seq(EventType)
  BY <1>1
<1>3. x.st \in StateType
  BY DEF Reports, Told
<1>4. Runs(r, Reported(r, x.st), <<s>>, Reported(r, x.st)) /\ Runs(r, Reported(r, x.st), <<d>>, Reported(r, x.st))
  BY <1>1, <1>3, OtherRuns
<1>5. evs \in Seq(EventType) /\ Runs(r, Reported(r, x.st), evs, Reported(r, x.st))
  <2>1. CASE begun
    BY <1>2, <1>4, <2>1
  <2>2. CASE ~begun
    <3>1. Runs(r, Reported(r, x.st), <<s>> \o <<d>>, Reported(r, x.st))
      BY <1>2, <1>4, MoreRuns
    <3> QED
      BY <1>2, <2>2, <3>1
  <2> QED
    BY <2>1, <2>2
<1> HIDE DEF evs
<1>6. Runs(r, Reported(r, x.st), evs, Reported(r, new))
  BY <1>5, SameCallsAreReported
<1>7. Reports(r, v, Streams!Emit(x, new, evs)) /\ Streams!Emit(x, new, evs).st = new
  BY <1>5, <1>6, EmitReports
<1> QED
  BY <1>7 DEF evs, s, d

LEMMA ReportsClose ==
    ASSUME NEW r, OfCalls(r), NEW v, NEW x, Reports(r, v, x), Reasoned(x.st),
           \A c \in Call : CallKept(x.st.calls[c])
    PROVE  LET y == Streams!CloseThinking(x) IN
           /\ Reports(r, v, y) /\ SameCalls(x.st, y.st)
           /\ y.st.thinkingStarted = x.st.thinkingStarted
           /\ y.st.thinkingStarted => y.st.thinkingFinished
           /\ y.st.textStarted = x.st.textStarted
<1>1. x.st \in StateType
  BY DEF Reports, Told
<1>2. CASE ~(x.st.thinkingStarted /\ ~x.st.thinkingFinished)
  BY <1>1, <1>2 DEF Streams!CloseThinking, SameCalls
<1>3. CASE x.st.thinkingStarted /\ ~x.st.thinkingFinished
  <2> DEFINE new == [x.st EXCEPT !.thinkingFinished = TRUE]
             e == Streams!Stop(0, Streams!Thinking)
  <2>1. /\ new \in StateType /\ new.thinkingFinished /\ new.thinkingStarted = x.st.thinkingStarted
        /\ new.textStarted = x.st.textStarted /\ SameCalls(x.st, new)
    BY <1>1 DEF StateType, SameCalls
  <2>2. Streams!CloseThinking(x) = Streams!Emit(x, new, <<e>>)
    BY <1>3 DEF Streams!CloseThinking
  <2>3. e \in EventType /\ e.kind = "stop" /\ e.index = 0 /\ e.block.kind # "tool"
    <3>1. << >> \in Seq([call : Nat, n : Nat])
      OBVIOUS
    <3> QED
      BY <3>1 DEF Streams!Stop, Streams!Event, Streams!Thinking, EventType
  <2> HIDE DEF new, e
  <2>4. \A c \in Call : Reported(r, x.st)[c].at # "open"
    <3>1. \A c \in Call : ~x.st.calls[c].started
      BY <1>3 DEF Reasoned, CallKept
    <3> QED
      BY <3>1 DEF Reported
  <2>5. Reports(r, v, Streams!Emit(x, new, <<e>>)) /\ Streams!Emit(x, new, <<e>>).st = new
    <3>1. e.index < r.offset
      BY <2>3 DEF OfCalls
    <3> QED
      BY <2>1, <2>3, <2>4, <3>1, OtherReports
  <2> QED
    BY <2>1, <2>2, <2>5
<1> QED
  BY <1>2, <1>3

LEMMA ReportsMessage ==
    ASSUME NEW r, OfCalls(r), NEW v, NEW x, Reports(r, v, x)
    PROVE  LET y == Streams!StartMessage(x) IN
           /\ Reports(r, v, y) /\ SameCalls(x.st, y.st)
           /\ y.st.thinkingStarted = x.st.thinkingStarted
           /\ y.st.thinkingFinished = x.st.thinkingFinished
<1>1. x.st \in StateType
  BY DEF Reports, Told
<1> DEFINE new == [x.st EXCEPT !.messageStarted = TRUE]
           e == Streams!MessageStart
<1>2. CASE x.st.messageStarted
  BY <1>2 DEF Streams!StartMessage, SameCalls
<1>3. CASE ~x.st.messageStarted
  <2>1. /\ new \in StateType /\ new.thinkingFinished = x.st.thinkingFinished
        /\ new.thinkingStarted = x.st.thinkingStarted /\ SameCalls(x.st, new)
    BY <1>1 DEF StateType, SameCalls
  <2>2. Streams!StartMessage(x) = Streams!Emit(x, new, <<e>>)
    BY <1>3 DEF Streams!StartMessage
  <2>3. e \in EventType /\ e.kind = "message_start" /\ e.index = 0 /\ e.block.kind # "tool"
    <3>1. << >> \in Seq([call : Nat, n : Nat])
      OBVIOUS
    <3> QED
      BY <3>1 DEF Streams!MessageStart, Streams!Event, Streams!Text, EventType
  <2> HIDE DEF new, e
  <2>4. Reports(r, v, Streams!Emit(x, new, <<e>>)) /\ Streams!Emit(x, new, <<e>>).st = new
    <3>1. e.index < r.offset
      BY <2>3 DEF OfCalls
    <3> QED
      BY <2>1, <2>3, <3>1, OtherReports
  <2> QED
    BY <2>1, <2>2, <2>4
<1> QED
  BY <1>2, <1>3

LEMMA ReportsThinking ==
    ASSUME NEW r, OfCalls(r), NEW v, NEW x, Reports(r, v, x)
    PROVE  LET y == Streams!IngestThinking(x) IN
           /\ Reports(r, v, y) /\ SameCalls(x.st, y.st)
           /\ y.st.thinkingStarted /\ y.st.thinkingFinished = x.st.thinkingFinished
<1>1. x.st \in StateType
  BY DEF Reports, Told
<1> DEFINE new == [x.st EXCEPT !.thinkingStarted = TRUE]
           begun == x.st.thinkingStarted
           evs == (IF begun THEN << >> ELSE <<Streams!Start(0, Streams!Thinking)>>)
                      \o <<Streams!Delta(0, Streams!Thinking, << >>)>>
<1>2. /\ new \in StateType /\ new.thinkingFinished = x.st.thinkingFinished /\ new.thinkingStarted
      /\ SameCalls(x.st, new) /\ begun \in BOOLEAN
  BY <1>1 DEF StateType, SameCalls
<1>3. Streams!IngestThinking(x) = Streams!Emit(x, new, evs)
  BY DEF Streams!IngestThinking
<1> HIDE DEF new, begun
<1>4. Streams!Thinking \in [kind : {"thinking", "text"}, call : Nat] /\ 0 \in Nat /\ 0 < r.offset
  BY DEF Streams!Thinking, OfCalls
<1>5. Reports(r, v, Streams!Emit(x, new, evs)) /\ Streams!Emit(x, new, evs).st = new
  BY <1>2, <1>4, OpenReports
<1> QED
  BY <1>2, <1>3, <1>5

LEMMA ReportsText ==
    ASSUME NEW r, OfCalls(r), NEW v, NEW x, Reports(r, v, x), Reasoned(x.st),
           \A c \in Call : CallKept(x.st.calls[c]), r.offset = Streams!ToolIndexOffset(x.st)
    PROVE  LET y == Streams!IngestText(x) IN
           /\ Reports(r, v, y) /\ SameCalls(x.st, y.st)
           /\ y.st.thinkingStarted = x.st.thinkingStarted
           /\ y.st.thinkingStarted => y.st.thinkingFinished
<1> DEFINE z == Streams!CloseThinking(x)
           new == [z.st EXCEPT !.textStarted = TRUE]
           j == Streams!TextBlockIndex(z.st)
           begun == z.st.textStarted
           evs == (IF begun THEN << >> ELSE <<Streams!Start(j, Streams!Text)>>)
                      \o <<Streams!Delta(j, Streams!Text, << >>)>>
<1>1. /\ Reports(r, v, z) /\ SameCalls(x.st, z.st) /\ z.st.thinkingStarted = x.st.thinkingStarted
      /\ z.st.thinkingStarted => z.st.thinkingFinished
  BY ReportsClose
<1>2. Streams!IngestText(x) = Streams!Emit(z, new, evs)
  BY DEF Streams!IngestText
<1> HIDE DEF z
<1>3. z.st \in StateType
  BY <1>1 DEF Reports, Told
<1>4. /\ new \in StateType /\ new.thinkingFinished = z.st.thinkingFinished
      /\ new.thinkingStarted = z.st.thinkingStarted /\ SameCalls(z.st, new) /\ begun \in BOOLEAN
  BY <1>3 DEF StateType, SameCalls
<1>5. j \in Nat /\ j < r.offset
  BY <1>1 DEF Streams!TextBlockIndex, Streams!ToolIndexOffset
<1> HIDE DEF new, begun, j
<1>6. Streams!Text \in [kind : {"thinking", "text"}, call : Nat]
  BY DEF Streams!Text
<1>7. Reports(r, v, Streams!Emit(z, new, evs)) /\ Streams!Emit(z, new, evs).st = new
  BY <1>1, <1>4, <1>5, <1>6, OpenReports
<1>8. SameCalls(x.st, new)
  BY <1>1, <1>4 DEF SameCalls
<1> QED
  BY <1>1, <1>2, <1>4, <1>7, <1>8

----------------------------------------------------------------------------
(* The calls of a chunk                                                     *)

\* What holds of a state between two chunks, and between the calls of one.
Kept(r, m, st) ==
    /\ r.offset = Streams!ToolIndexOffset(st) /\ ~st.textFinished
    /\ OnlyNamed(r, m, st) /\ Reasoned(st)
    /\ \A c \in Call : CallCurrent(st.calls[c])

LEMMA ApplyKeeps ==
    ASSUME NEW k \in CallState, CallKept(k), ~k.stopped, NEW delta \in Streams!ToolCallDelta
    PROVE  LET new == Streams!Apply(k, delta) IN
           /\ new \in CallState /\ CallKept(new) /\ new.started = k.started /\ ~new.stopped
           /\ new.named = (k.named \/ delta.name) /\ new.arguments = k.arguments + delta.fragments
<1> DEFINE named == k.named \/ delta.name
           arguments == k.arguments + delta.fragments
           new == [k EXCEPT !.named = named, !.arguments = arguments]
<1>1. named \in BOOLEAN /\ (k.named => named)
  OBVIOUS
<1>2. k.arguments \in Nat /\ k.emitted \in Nat /\ delta.fragments \in Nat /\ k.emitted <= k.arguments
  BY DEF CallState, CallKept, CallSound, Streams!ToolCallDelta
<1>3. arguments \in Nat /\ k.emitted <= arguments
  BY <1>2
<1>4. Streams!Apply(k, delta) = new
  BY DEF Streams!Apply
<1> HIDE DEF named, arguments
<1>5. /\ new \in CallState /\ new.emitted = k.emitted /\ new.arguments = arguments
      /\ new.started = k.started /\ new.stopped = k.stopped /\ new.named = named
  BY <1>1, <1>3 DEF CallState
<1> HIDE DEF new
<1>6. CallKept(new)
  BY <1>1, <1>3, <1>5 DEF CallSound, CallKept
<1> QED
  BY <1>4, <1>5, <1>6 DEF named, arguments

\* A call that changes, and is current again, leaves a state that is kept.
LEMMA OneCallKeeps ==
    ASSUME NEW r, NEW m, NEW old, Kept(r, m, old), NEW new, NEW c \in Call,
           new.thinkingStarted = old.thinkingStarted,
           new.thinkingStarted => new.thinkingFinished, new.textFinished = old.textFinished,
           \A d \in Call \ {c} : new.calls[d] = old.calls[d],
           CallCurrent(new.calls[c]), new.calls[c].named => c \in m
    PROVE  Kept(r, m, new)
  BY DEF Kept, OnlyNamed, Reasoned, Streams!ToolIndexOffset

\* What a delta of a call makes of x.
CallTaken(r, v, m, x, delta, finish, y) ==
    LET k == x.st.calls[delta.index]
        new == y.st.calls[delta.index]
    IN  /\ Reports(r, v, y) /\ Kept(r, m, y.st)
        /\ \A d \in Call \ {delta.index} : y.st.calls[d] = x.st.calls[d]
        /\ new.named = (k.named \/ delta.name) /\ new.arguments = k.arguments + delta.fragments
        /\ finish # "tool_calls" => ~new.stopped

LEMMA ReportsToolCall ==
    ASSUME NEW r, OfCalls(r), NEW v, NEW x, Reports(r, v, x), NEW m, Kept(r, m, x.st),
           NEW delta \in Streams!ToolCallDelta, NEW finish, delta.name => delta.index \in m,
           ~x.st.calls[delta.index].stopped
    PROVE  CallTaken(r, v, m, x, delta, finish, Streams!IngestToolCall(x, delta, finish))
<1> DEFINE c == delta.index
           y == Streams!CloseThinking(x)
           k == Streams!Apply(y.st.calls[c], delta)
           z == [y EXCEPT !.st.calls[c] = Streams!Apply(@, delta)]
           begun == Streams!BeginCall(z, c)
           emitted == Streams!EmitArguments(begun, c)
           stopped == Streams!StopCall(emitted, c)
<1>1. c \in Call /\ delta.name \in BOOLEAN /\ delta.fragments \in Nat
  BY DEF Streams!ToolCallDelta
<1>2. \A d \in Call : CallKept(x.st.calls[d])
  BY DEF Kept, CallCurrent
<1>3. /\ Reports(r, v, y) /\ SameCalls(x.st, y.st) /\ y.st.thinkingStarted = x.st.thinkingStarted
      /\ y.st.thinkingStarted => y.st.thinkingFinished
  BY <1>2, ReportsClose DEF Kept
<1>4. Streams!IngestToolCall(x, delta, finish) = IF finish = "tool_calls" THEN stopped ELSE emitted
  BY DEF Streams!IngestToolCall
<1> HIDE DEF y
<1>5. y.st \in StateType /\ y.events \in Seq(EventType) /\ y \in Told
  BY <1>3 DEF Reports, Told
<1>6. y.st.calls[c] \in CallState /\ CallKept(y.st.calls[c]) /\ ~y.st.calls[c].stopped
  BY <1>1, <1>2, <1>3, <1>5 DEF SameCalls, StateType
<1>7. /\ k \in CallState /\ CallKept(k) /\ k.started = y.st.calls[c].started /\ ~k.stopped
      /\ k.named = (x.st.calls[c].named \/ delta.name)
      /\ k.arguments = x.st.calls[c].arguments + delta.fragments
  BY <1>3, <1>6, ApplyKeeps DEF SameCalls
<1> DEFINE new == SetCall(y.st, c, k)
<1>8. OnlyCall(y.st, new, c) /\ new.calls[c] = k
  BY <1>1, <1>5, <1>7, SetCallIs
<1>9. z.st = new /\ z.events = y.events /\ z \in Told
  <2>1. z.st = new /\ z.events = y.events /\ z = [st |-> new, events |-> y.events]
    BY <1>5 DEF Told, SetCall
  <2> QED
    BY <1>5, <1>8, <2>1 DEF Told, OnlyCall
<1> HIDE DEF z, k, new
<1>10. Reports(r, v, z)
  <2>1. Reported(r, new)[c] = Reported(r, y.st)[c]
    <3>1. k.emitted = y.st.calls[c].emitted
      BY DEF k, Streams!Apply
    <3> QED
      BY <1>1, <1>6, <1>7, <1>8, <3>1 DEF Reported, OnlyCall
  <2>2. Reported(r, new) = [Reported(r, y.st) EXCEPT ![c] = Reported(r, y.st)[c]]
    <3>1. Reported(r, new) = [Reported(r, y.st) EXCEPT ![c] = Reported(r, new)[c]]
      <4>1. c \in Call /\ OnlyCall(y.st, new, c)
        BY <1>1, <1>8
      <4> HIDE DEF c
      <4> QED
        BY <4>1 DEF Reported, OnlyCall
    <3> QED
      BY <2>1, <3>1
  <2>3. Reported(r, new) = Reported(r, y.st)
    BY <2>2 DEF Reported
  <2> QED
    BY <1>3, <1>9, <2>3 DEF Reports
<1>11. /\ \A d \in Call \ {c} : z.st.calls[d] = x.st.calls[d]
       /\ z.st.calls[c] = k /\ ~z.st.textFinished
       /\ r.offset = Streams!ToolIndexOffset(z.st) /\ OnlyNamed(r, m, z.st)
  <2>1. \A d \in Call \ {c} : z.st.calls[d] = x.st.calls[d]
    BY <1>3, <1>8, <1>9 DEF OnlyCall, SameCalls
  <2>2. z.st.calls[c] = k /\ ~z.st.textFinished /\ r.offset = Streams!ToolIndexOffset(z.st)
    BY <1>3, <1>8, <1>9 DEF OnlyCall, SameCalls, Kept, Streams!ToolIndexOffset
  <2>3. OnlyNamed(r, m, z.st)
    BY <1>7, <2>1, <2>2 DEF OnlyNamed, Kept
  <2> QED
    BY <2>1, <2>2, <2>3
<1>12. /\ Reports(r, v, begun) /\ OnlyCall(z.st, begun.st, c) /\ CallKept(begun.st.calls[c])
       /\ begun.st.calls[c].stopped = k.stopped /\ begun.st.calls[c].arguments = k.arguments
       /\ begun.st.calls[c].named = k.named
       /\ begun.st.calls[c].named => begun.st.calls[c].started
  BY <1>1, <1>2, <1>7, <1>10, <1>11, ReportsBegin
<1> HIDE DEF begun
<1>13. r.offset = Streams!ToolIndexOffset(begun.st) /\ ~begun.st.textFinished
  BY <1>11, <1>12 DEF OnlyCall, Streams!ToolIndexOffset
<1>14. /\ Reports(r, v, emitted) /\ OnlyCall(begun.st, emitted.st, c)
       /\ CallCurrent(emitted.st.calls[c]) /\ ~emitted.st.calls[c].stopped
       /\ emitted.st.calls[c].arguments = k.arguments /\ emitted.st.calls[c].named = k.named
  BY <1>1, <1>7, <1>12, <1>13, ReportsArguments DEF CallCurrent
<1> HIDE DEF emitted
<1>15. r.offset = Streams!ToolIndexOffset(emitted.st)
  BY <1>13, <1>14 DEF OnlyCall, Streams!ToolIndexOffset
<1>16. /\ Reports(r, v, stopped) /\ OnlyCall(emitted.st, stopped.st, c)
       /\ CallCurrent(stopped.st.calls[c])
       /\ stopped.st.calls[c].arguments = k.arguments /\ stopped.st.calls[c].named = k.named
  BY <1>1, <1>14, <1>15, ReportsStop DEF CallCurrent
<1> HIDE DEF stopped
<1> DEFINE Good(u) == /\ Reports(r, v, u) /\ Kept(r, m, u.st)
                      /\ \A d \in Call \ {c} : u.st.calls[d] = x.st.calls[d]
                      /\ u.st.calls[c].named = (x.st.calls[c].named \/ delta.name)
                      /\ u.st.calls[c].arguments = x.st.calls[c].arguments + delta.fragments
<1>17. ASSUME NEW u, Reports(r, v, u), OnlyCall(y.st, u.st, c), CallCurrent(u.st.calls[c]),
              u.st.calls[c].arguments = k.arguments, u.st.calls[c].named = k.named
       PROVE  Good(u)
  <2>1. \A d \in Call \ {c} : u.st.calls[d] = x.st.calls[d]
    BY <1>3, <1>17 DEF OnlyCall, SameCalls
  <2>2. /\ u.st.thinkingStarted = x.st.thinkingStarted /\ u.st.textFinished = x.st.textFinished
        /\ u.st.thinkingStarted => u.st.thinkingFinished
    BY <1>3, <1>17 DEF OnlyCall, SameCalls
  <2>3. u.st.calls[c].named => c \in m
    BY <1>1, <1>7, <1>17 DEF Kept, OnlyNamed
  <2>4. Kept(r, m, u.st)
    BY <1>1, <1>17, <2>1, <2>2, <2>3, OneCallKeeps
  <2> QED
    BY <1>7, <1>17, <2>1, <2>4
<1>18. OnlyCall(y.st, emitted.st, c)
  BY <1>8, <1>9, <1>12, <1>14 DEF OnlyCall
<1>19. OnlyCall(y.st, stopped.st, c)
  BY <1>16, <1>18 DEF OnlyCall
<1>20. Good(emitted) /\ Good(stopped)
  BY <1>14, <1>16, <1>17, <1>18, <1>19
<1>21. CallTaken(r, v, m, x, delta, finish, IF finish = "tool_calls" THEN stopped ELSE emitted)
  BY <1>14, <1>20 DEF CallTaken
<1> QED
  BY <1>4, <1>21

\* What the end of the calls makes of x.
CallsStopped(r, v, m, x, y) ==
    /\ Reports(r, v, y) /\ Kept(r, m, y.st)
    /\ \A c \in Call : /\ y.st.calls[c].named = x.st.calls[c].named
                       /\ y.st.calls[c].arguments = x.st.calls[c].arguments

LEMMA ReportsStops ==
    ASSUME NEW r, OfCalls(r), NEW v, NEW x, Reports(r, v, x), NEW m, Kept(r, m, x.st)
    PROVE  CallsStopped(r, v, m, x, Streams!StopCalls(x))
<1> DEFINE Good(y) == /\ Reports(r, v, y) /\ Kept(r, m, y.st)
                      /\ y.st.thinkingStarted = x.st.thinkingStarted
                      /\ \A c \in Call : /\ y.st.calls[c].named = x.st.calls[c].named
                                         /\ y.st.calls[c].arguments = x.st.calls[c].arguments
           good == [s \in SUBSET Call |-> {y \in Told : Good(y)}]
<1>1. ASSUME NEW y, Good(y), NEW c \in Call PROVE Good(Streams!StopCall(y, c))
  <2> DEFINE z == Streams!StopCall(y, c)
  <2>1. CallKept(y.st.calls[c]) /\ UpToDate(y.st.calls[c]) /\ Reports(r, v, y)
        /\ r.offset = Streams!ToolIndexOffset(y.st)
    BY <1>1 DEF Kept, CallCurrent
  <2>2. /\ Reports(r, v, z) /\ OnlyCall(y.st, z.st, c) /\ CallKept(z.st.calls[c])
        /\ UpToDate(z.st.calls[c])
        /\ z.st.calls[c].arguments = y.st.calls[c].arguments
        /\ z.st.calls[c].named = y.st.calls[c].named
        /\ z.st.calls[c].started = y.st.calls[c].started
    BY <2>1, ReportsStop
  <2> HIDE DEF z
  <2>3. \A d \in Call : /\ z.st.calls[d].named = y.st.calls[d].named
                        /\ z.st.calls[d].arguments = y.st.calls[d].arguments
                        /\ CallCurrent(z.st.calls[d])
    <3>1. CallCurrent(z.st.calls[c])
      BY <1>1, <2>2 DEF CallCurrent, Kept
    <3> QED
      BY <1>1, <2>2, <3>1 DEF OnlyCall, Kept
  <2>4. Kept(r, m, z.st)
    <3>1. /\ z.st.thinkingStarted = y.st.thinkingStarted /\ z.st.textFinished = y.st.textFinished
          /\ z.st.thinkingFinished = y.st.thinkingFinished
      BY <2>2 DEF OnlyCall
    <3> QED
      BY <1>1, <2>3, <3>1 DEF Kept, OnlyNamed, Reasoned, Streams!ToolIndexOffset
  <2> QED
    BY <1>1, <2>2, <2>3, <2>4 DEF z, OnlyCall
<1>2. \A y : Good(y) => y \in Told
  BY DEF Reports
<1>3. Good(x)
  OBVIOUS
<1> HIDE DEF Good
<1>4. \A s \in SUBSET Call : \A y : y \in good[s] <=> Good(y)
  BY <1>2
<1> HIDE DEF good
<1>5. \A s \in SUBSET Call : good[s] \subseteq Told
  BY <1>2, <1>4
<1>6. \A s \in SUBSET Call : \A c \in s : (\A d \in s : c >= d) =>
          \A y \in good[s \ {c}] : Streams!StopCall(y, c) \in good[s]
  BY <1>1, <1>4
<1>7. Streams!StopCalls(x) \in good[Call]
  BY <1>3, <1>4, <1>5, <1>6, StopCallsKeep
<1>8. Good(Streams!StopCalls(x))
  BY <1>4, <1>7
<1> QED
  BY <1>8 DEF Good, CallsStopped

LEMMA ReportsTools ==
    ASSUME NEW r, OfCalls(r), NEW v, NEW x, Reports(r, v, x), NEW m, Kept(r, m, x.st),
           NEW chunk \in Streams!Chunk,
           \A i, j \in DOMAIN chunk.tools :
               j < i => chunk.tools[j].index # chunk.tools[i].index,
           \A i \in DOMAIN chunk.tools : chunk.tools[i].name => chunk.tools[i].index \in m,
           chunk.tools # << >> => \A c \in Call : ~x.st.calls[c].stopped
    PROVE  LET y == ToolsTold(x, chunk) IN
           /\ Reports(r, v, y) /\ Kept(r, m, y.st)
           /\ \A c \in Call :
                 LET mine == {i \in DOMAIN chunk.tools : chunk.tools[i].index = c} IN
                 /\ y.st.calls[c].named = (x.st.calls[c].named \/ \E i \in mine : chunk.tools[i].name)
                 /\ y.st.calls[c].arguments
                        = x.st.calls[c].arguments + Cardinality({i \in mine : chunk.tools[i].fragments = 1})
           /\ chunk.finish # "tool_calls" =>
                  \A c \in Call : y.st.calls[c].stopped = x.st.calls[c].stopped
<1> DEFINE S == DOMAIN chunk.tools
           Of(s, c) == {i \in s : chunk.tools[i].index = c}
           Count(s, c) == Cardinality({i \in Of(s, c) : chunk.tools[i].fragments = 1})
           Names(s, c) == \E i \in Of(s, c) : chunk.tools[i].name
           Good(s, y) == /\ Reports(r, v, y) /\ Kept(r, m, y.st)
                         /\ \A c \in Call :
                               /\ y.st.calls[c].named = (x.st.calls[c].named \/ Names(s, c))
                               /\ y.st.calls[c].arguments = x.st.calls[c].arguments + Count(s, c)
                         /\ \A c \in Call : y.st.calls[c].stopped # x.st.calls[c].stopped =>
                                /\ chunk.finish = "tool_calls"
                                /\ \E i \in s : chunk.tools[i].index = c
           Op(y, i) == Streams!IngestToolCall(y, chunk.tools[i], chunk.finish)
           good == [s \in SUBSET S |-> {y \in Told : Good(s, y)}]
<1>0. /\ S \in SUBSET Nat /\ IsFiniteSet(S) /\ (S = {} <=> chunk.tools = << >>)
      /\ \A i \in S : chunk.tools[i] \in Streams!ToolCallDelta /\ chunk.tools[i].index \in Call
  BY ToolsAreNumbered
<1>1. ASSUME NEW s \in SUBSET S, NEW i \in s, \A j \in s : i >= j, NEW y, Good(s \ {i}, y)
      PROVE  Good(s, Op(y, i))
  <2> DEFINE c == chunk.tools[i].index
             z == Op(y, i)
  <2>1. i \in S /\ chunk.tools[i] \in Streams!ToolCallDelta /\ c \in Call
    BY <1>0
  <2>2. \A j \in s \ {i} : chunk.tools[j].index # c
    <3> TAKE j \in s \ {i}
    <3>1. j \in Nat /\ i \in Nat /\ j \in S /\ j < i
      BY <1>0, <1>1, <2>1
    <3> QED
      BY <2>1, <3>1
  <2>3. ~x.st.calls[c].stopped
    BY <1>0, <2>1
  <2>4. ~y.st.calls[c].stopped
    BY <1>1, <2>1, <2>2, <2>3
  <2>5. /\ Reports(r, v, z) /\ Kept(r, m, z.st)
        /\ \A d \in Call \ {c} : z.st.calls[d] = y.st.calls[d]
        /\ z.st.calls[c].named = (y.st.calls[c].named \/ chunk.tools[i].name)
        /\ z.st.calls[c].arguments = y.st.calls[c].arguments + chunk.tools[i].fragments
        /\ chunk.finish # "tool_calls" => ~z.st.calls[c].stopped
    <3> DEFINE delta == chunk.tools[i]
    <3>1. /\ Reports(r, v, y) /\ Kept(r, m, y.st) /\ delta \in Streams!ToolCallDelta
          /\ delta.name => delta.index \in m
          /\ ~y.st.calls[delta.index].stopped
      BY <1>1, <2>1, <2>4
    <3> HIDE DEF delta
    <3>2. CallTaken(r, v, m, y, delta, chunk.finish, Streams!IngestToolCall(y, delta, chunk.finish))
      BY <3>1, ReportsToolCall
    <3>3. z = Streams!IngestToolCall(y, delta, chunk.finish)
      BY DEF delta
    <3> HIDE DEF z
    <3> QED
      BY <3>2, <3>3 DEF CallTaken, delta
  <2>6. x.st \in StateType /\ z.st \in StateType
    BY <2>5 DEF Reports, Told
  <2> HIDE DEF z
  <2>7. ASSUME NEW d \in Call
        PROVE  /\ z.st.calls[d].named = (x.st.calls[d].named \/ Names(s, d))
               /\ z.st.calls[d].arguments = x.st.calls[d].arguments + Count(s, d)
    <3>1. CASE d = c
      <4>1. Of(s \ {i}, c) = {} /\ Of(s, c) = {i}
        BY <2>2
      <4>2. Names(s, c) = chunk.tools[i].name /\ ~Names(s \ {i}, c)
        BY <2>1, <4>1 DEF Streams!ToolCallDelta
      <4>3. Count(s \ {i}, c) = 0
        <5>1. {k \in Of(s \ {i}, c) : chunk.tools[k].fragments = 1} = {}
          BY <4>1
        <5> QED
          BY <5>1, FS_EmptySet
      <4>4. Count(s, c) = chunk.tools[i].fragments
        <5> DEFINE f == chunk.tools[i].fragments
        <5>1. f \in 0..1
          BY <2>1 DEF Streams!ToolCallDelta
        <5>2. {k \in Of(s, c) : chunk.tools[k].fragments = 1} = IF f = 1 THEN {i} ELSE {}
          BY <4>1
        <5> HIDE DEF f
        <5>3. Cardinality(IF f = 1 THEN {i} ELSE {}) = f
          <6>1. Cardinality({i}) = 1 /\ Cardinality({}) = 0
            BY FS_EmptySet, FS_Singleton
          <6> QED
            BY <5>1, <6>1
        <5> QED
          BY <5>2, <5>3 DEF f
      <4> HIDE DEF Names, Count, Of
      <4>5. /\ y.st.calls[c].named = (x.st.calls[c].named \/ Names(s \ {i}, c))
            /\ y.st.calls[c].arguments = x.st.calls[c].arguments + Count(s \ {i}, c)
        BY <1>1, <2>1
      <4>6. x.st.calls[c].arguments \in Nat /\ x.st.calls[c].named \in BOOLEAN
        BY <2>1, <2>6 DEF StateType, CallState
      <4> HIDE DEF c
      <4>7. y.st.calls[c].arguments = x.st.calls[c].arguments
        BY <4>3, <4>5, <4>6
      <4>8. y.st.calls[c].named = x.st.calls[c].named
        BY <4>2, <4>5, <4>6
      <4> QED
        BY <2>5, <3>1, <4>2, <4>4, <4>7, <4>8
    <3>2. CASE d # c
      <4>1. Of(s, d) = Of(s \ {i}, d)
        BY <3>2
      <4>2. Names(s, d) = Names(s \ {i}, d) /\ Count(s, d) = Count(s \ {i}, d)
        BY <4>1
      <4> HIDE DEF Names, Count, Of
      <4>3. z.st.calls[d] = y.st.calls[d]
        BY <2>5, <3>2
      <4> HIDE DEF c
      <4> QED
        BY <1>1, <4>2, <4>3
    <3> QED
      BY <3>1, <3>2
  <2>8. ASSUME NEW d \in Call, z.st.calls[d].stopped # x.st.calls[d].stopped
        PROVE  chunk.finish = "tool_calls" /\ \E j \in s : chunk.tools[j].index = d
    <3>1. CASE d = c
      <4>1. x.st.calls[c].stopped \in BOOLEAN /\ z.st.calls[c].stopped \in BOOLEAN
        BY <2>1, <2>6 DEF StateType, CallState
      <4> QED
        BY <2>3, <2>5, <2>8, <3>1, <4>1
    <3>2. CASE d # c
      <4> HIDE DEF Names, Count
      <4> QED
        BY <1>1, <2>5, <2>8, <3>2
    <3> QED
      BY <3>1, <3>2
  <2> HIDE DEF Names, Count
  <2> QED
    BY <2>5, <2>7, <2>8 DEF z
<1>2. \A s, y : Good(s, y) => y \in Told
  BY DEF Reports
<1>3. Good({}, x)
  <2>1. x.st \in StateType
    BY DEF Reports, Told
  <2>2. ASSUME NEW c \in Call
        PROVE  /\ x.st.calls[c].named = (x.st.calls[c].named \/ Names({}, c))
               /\ x.st.calls[c].arguments = x.st.calls[c].arguments + Count({}, c)
    <3>1. Of({}, c) = {}
      OBVIOUS
    <3>2. ~Names({}, c) /\ Count({}, c) = 0
      <4>1. {i \in Of({}, c) : chunk.tools[i].fragments = 1} = {}
        BY <3>1
      <4> QED
        BY <3>1, <4>1, FS_EmptySet
    <3> HIDE DEF Names, Count, Of
    <3>3. x.st.calls[c].arguments \in Nat /\ x.st.calls[c].named \in BOOLEAN
      BY <2>1 DEF StateType, CallState
    <3> QED
      BY <3>2, <3>3
  <2> HIDE DEF Names, Count
  <2> QED
    BY <2>2
<1> HIDE DEF Good
<1>4. \A s \in SUBSET S : \A y : y \in good[s] <=> Good(s, y)
  BY <1>2
<1> HIDE DEF good
<1>5. \A s \in SUBSET S : good[s] \subseteq Told
  BY <1>2, <1>4
<1>6. \A s \in SUBSET S : \A c \in s : (\A d \in s : c >= d) =>
          \A y \in good[s \ {c}] : Op(y, c) \in good[s]
  <2>1. \A s \in SUBSET S : \A c \in s : s \ {c} \in SUBSET S
    OBVIOUS
  <2> QED
    BY <1>1, <1>4, <2>1
<1>7. ToolsTold(x, chunk) \in good[S]
  <2>1. x \in good[{}]
    BY <1>3, <1>4
  <2> QED
    BY <1>5, <1>6, <2>1, ToolsKeep
<1>8. Good(S, ToolsTold(x, chunk))
  BY <1>4, <1>7
<1> QED
  BY <1>8, <1>0 DEF Good

LEMMA ReportsFinishes ==
    ASSUME NEW r, OfCalls(r), NEW v, NEW x, Reports(r, v, x),
           r.offset = Streams!ToolIndexOffset(x.st), \A c \in Call : CallCurrent(x.st.calls[c])
    PROVE  LET y == Streams!FinishCalls(x) IN
           /\ Reports(r, v, y)
           /\ \A c \in Call : /\ y.st.calls[c].named = x.st.calls[c].named
                              /\ y.st.calls[c].arguments = x.st.calls[c].arguments
                              /\ CallCurrent(y.st.calls[c])
                              /\ y.st.calls[c].started => y.st.calls[c].stopped
<1> DEFINE Good(s, y) == /\ Reports(r, v, y) /\ r.offset = Streams!ToolIndexOffset(y.st)
                         /\ \A c \in Call : /\ y.st.calls[c].named = x.st.calls[c].named
                                            /\ y.st.calls[c].arguments = x.st.calls[c].arguments
                                            /\ CallCurrent(y.st.calls[c])
                         /\ \A c \in s : y.st.calls[c].started => y.st.calls[c].stopped
           Op(y, c) == Streams!FinishCall(y, c)
           good == [s \in SUBSET Call |-> {y \in Told : Good(s, y)}]
<1>1. ASSUME NEW s \in SUBSET Call, NEW c \in s, NEW y, Good(s \ {c}, y) PROVE Good(s, Op(y, c))
  <2> DEFINE z == Streams!StopCall(y, c)
  <2>1. c \in Call /\ CallCurrent(y.st.calls[c])
    BY <1>1
  <2>2. Op(y, c) = z
    <3> DEFINE begun == IF y.st.calls[c].started THEN y
                        ELSE Streams!EmitArguments(Streams!BeginCall(y, c), c)
    <3>1. Op(y, c) = Streams!StopCall(begun, c)
      BY DEF Streams!FinishCall
    <3>2. begun = y
      <4>1. CASE y.st.calls[c].started
        BY <4>1
      <4>2. CASE ~y.st.calls[c].started
        <5>1. Streams!BeginCall(y, c) = y
          BY <2>1, <4>2 DEF CallCurrent, Streams!BeginCall
        <5>2. Streams!EmitArguments(y, c) = y
          BY <4>2 DEF Streams!EmitArguments
        <5> QED
          BY <4>2, <5>1, <5>2
      <4> QED
        BY <4>1, <4>2
    <3> HIDE DEF begun
    <3> QED
      BY <3>1, <3>2
  <2>3. /\ Reports(r, v, z) /\ OnlyCall(y.st, z.st, c) /\ CallKept(z.st.calls[c])
        /\ UpToDate(z.st.calls[c])
        /\ z.st.calls[c].arguments = y.st.calls[c].arguments
        /\ z.st.calls[c].named = y.st.calls[c].named
        /\ z.st.calls[c].started = y.st.calls[c].started
        /\ z.st.calls[c].started => z.st.calls[c].stopped
    BY <1>1, <2>1, ReportsStop DEF CallCurrent
  <2> HIDE DEF z
  <2>4. CallCurrent(z.st.calls[c])
    BY <2>1, <2>3 DEF CallCurrent
  <2>5. Good(s, z)
    BY <1>1, <2>3, <2>4 DEF OnlyCall, Streams!ToolIndexOffset
  <2> QED
    BY <2>2, <2>5
<1>2. \A s, y : Good(s, y) => y \in Told
  BY DEF Reports
<1>3. Good({}, x)
  OBVIOUS
<1> HIDE DEF Good
<1>4. \A s \in SUBSET Call : \A y : y \in good[s] <=> Good(s, y)
  BY <1>2
<1> HIDE DEF good
<1>5. \A s \in SUBSET Call : good[s] \subseteq Told
  BY <1>2, <1>4
<1>6. \A s \in SUBSET Call : \A c \in s : (\A d \in s : c >= d) =>
          \A y \in good[s \ {c}] : Op(y, c) \in good[s]
  <2>1. \A s \in SUBSET Call : \A c \in s : s \ {c} \in SUBSET Call
    OBVIOUS
  <2> QED
    BY <1>1, <1>4, <2>1
<1>7. Streams!FinishCalls(x) \in good[Call]
  <2>1. x \in good[{}]
    BY <1>3, <1>4
  <2> QED
    BY <1>5, <1>6, <2>1, FinishCallsKeep
<1>8. Good(Call, Streams!FinishCalls(x))
  BY <1>4, <1>7
<1> QED
  BY <1>8 DEF Good

----------------------------------------------------------------------------
(* A chunk, and the end of the body, for the calls                          *)

\* What a chunk makes of a state.
ChunkTaken(r, m, st, chunk, y) ==
    /\ Reports(r, Reported(r, st), y) /\ Kept(r, m, y.st)
    /\ \A c \in Call :
          LET mine == {i \in DOMAIN chunk.tools : chunk.tools[i].index = c} IN
          /\ y.st.calls[c].named = (st.calls[c].named \/ \E i \in mine : chunk.tools[i].name)
          /\ y.st.calls[c].arguments
                 = st.calls[c].arguments + Cardinality({i \in mine : chunk.tools[i].fragments = 1})
    /\ chunk.finish # "tool_calls" =>
           \A c \in Call : y.st.calls[c].stopped = st.calls[c].stopped

LEMMA ReportsChunk ==
    ASSUME NEW r, OfCalls(r), NEW st \in StateType, NEW m, OnlyNamed(r, m, st), Reasoned(st),
           ~st.textFinished, \A c \in Call : CallCurrent(st.calls[c]), NEW chunk \in Streams!Chunk,
           r.offset = IF st.thinkingStarted \/ chunk.thinking THEN 2 ELSE 1,
           chunk.thinking /\ ~st.thinkingStarted => \A c \in Call : ~st.calls[c].named,
           \A i, j \in DOMAIN chunk.tools :
               j < i => chunk.tools[j].index # chunk.tools[i].index,
           \A i \in DOMAIN chunk.tools : chunk.tools[i].name => chunk.tools[i].index \in m,
           chunk.tools # << >> => \A c \in Call : ~st.calls[c].stopped
    PROVE  ChunkTaken(r, m, st, chunk, Streams!IngestChunk(st, chunk))
<1> DEFINE b == Reported(r, st)
           none == [st |-> st, events |-> << >>]
           start == Streams!StartMessage(none)
           thought == IF chunk.thinking THEN Streams!IngestThinking(start) ELSE start
           told == IF chunk.text THEN Streams!IngestText(thought) ELSE thought
           called == ToolsTold(told, chunk)
           stopped == Streams!StopCalls(called)
           mine(c) == {i \in DOMAIN chunk.tools : chunk.tools[i].index = c}
           Names(c) == \E i \in mine(c) : chunk.tools[i].name
           Count(c) == Cardinality({i \in mine(c) : chunk.tools[i].fragments = 1})
<1>1. Streams!IngestChunk(st, chunk) = IF chunk.finish = "tool_calls" THEN stopped ELSE called
  BY DEF Streams!IngestChunk, ToolsTold
<1>2. Reports(r, b, none) /\ none.st = st
  <2>1. none \in Told /\ none.st = st /\ none.events = << >>
    BY DEF Told
  <2> QED
    BY <2>1, NoneRuns DEF Reports
<1> HIDE DEF none
<1>3. /\ Reports(r, b, start) /\ SameCalls(st, start.st)
      /\ start.st.thinkingStarted = st.thinkingStarted
      /\ start.st.thinkingFinished = st.thinkingFinished
  BY <1>2, ReportsMessage
<1> HIDE DEF start
<1>4. /\ Reports(r, b, thought) /\ SameCalls(st, thought.st)
      /\ thought.st.thinkingStarted = (st.thinkingStarted \/ chunk.thinking)
      /\ thought.st.thinkingFinished = st.thinkingFinished
  <2>1. start.st \in StateType
    BY <1>3 DEF Reports, Told
  <2>2. start.st.thinkingStarted \in BOOLEAN
    BY <2>1 DEF StateType
  <2>3. CASE ~chunk.thinking
    BY <1>3, <2>2, <2>3
  <2>4. CASE chunk.thinking
    <3>1. /\ Reports(r, b, thought) /\ SameCalls(start.st, thought.st)
          /\ thought.st.thinkingStarted /\ thought.st.thinkingFinished = start.st.thinkingFinished
      BY <1>3, <2>4, ReportsThinking
    <3> HIDE DEF thought
    <3>2. thought.st \in StateType
      BY <3>1 DEF Reports, Told
    <3>3. thought.st.thinkingStarted = TRUE
      BY <3>1, <3>2 DEF StateType
    <3> QED
      BY <1>3, <2>4, <3>1, <3>3 DEF SameCalls
  <2> QED
    BY <2>3, <2>4
<1> HIDE DEF thought
<1>5. /\ r.offset = Streams!ToolIndexOffset(thought.st) /\ Reasoned(thought.st)
      /\ \A c \in Call : CallCurrent(thought.st.calls[c]) /\ CallKept(thought.st.calls[c])
  <2>1. r.offset = Streams!ToolIndexOffset(thought.st)
    BY <1>4 DEF Streams!ToolIndexOffset
  <2>2. Reasoned(thought.st)
    BY <1>4 DEF Reasoned, SameCalls
  <2> QED
    BY <1>4, <2>1, <2>2 DEF SameCalls, CallCurrent
<1>6. Reports(r, b, told) /\ Kept(r, m, told.st) /\ SameCalls(st, told.st)
  <2>1. CASE ~chunk.text
    <3>1. OnlyNamed(r, m, thought.st)
      BY <1>4 DEF SameCalls, OnlyNamed
    <3> QED
      BY <1>4, <1>5, <2>1, <3>1 DEF Kept, SameCalls
  <2>2. CASE chunk.text
    <3>1. /\ Reports(r, b, told) /\ SameCalls(thought.st, told.st)
          /\ told.st.thinkingStarted = thought.st.thinkingStarted
          /\ told.st.thinkingStarted => told.st.thinkingFinished
      BY <1>4, <1>5, <2>2, ReportsText
    <3> HIDE DEF told
    <3>2. SameCalls(st, told.st)
      BY <1>4, <3>1 DEF SameCalls
    <3>3. r.offset = Streams!ToolIndexOffset(told.st)
      BY <1>5, <3>1 DEF Streams!ToolIndexOffset
    <3>4. OnlyNamed(r, m, told.st) /\ Reasoned(told.st) /\ ~told.st.textFinished
          /\ \A c \in Call : CallCurrent(told.st.calls[c])
      BY <3>1, <3>2 DEF SameCalls, OnlyNamed, Reasoned
    <3> QED
      BY <3>1, <3>2, <3>3, <3>4 DEF Kept
  <2> QED
    BY <2>1, <2>2
<1> HIDE DEF told
<1>7. /\ Reports(r, b, called) /\ Kept(r, m, called.st)
      /\ \A c \in Call :
            /\ called.st.calls[c].named = (told.st.calls[c].named \/ Names(c))
            /\ called.st.calls[c].arguments = told.st.calls[c].arguments + Count(c)
      /\ chunk.finish # "tool_calls" =>
             \A c \in Call : called.st.calls[c].stopped = told.st.calls[c].stopped
  <2>1. chunk.tools # << >> => \A c \in Call : ~told.st.calls[c].stopped
    BY <1>6 DEF SameCalls
  <2> QED
    BY <1>6, <2>1, ReportsTools, ZenonT(60)
<1> HIDE DEF called, b, Names, Count
<1>8. /\ Reports(r, b, stopped) /\ Kept(r, m, stopped.st)
      /\ \A c \in Call : /\ stopped.st.calls[c].named = called.st.calls[c].named
                         /\ stopped.st.calls[c].arguments = called.st.calls[c].arguments
  <2>1. CallsStopped(r, b, m, called, stopped)
    BY <1>7, ReportsStops
  <2> HIDE DEF stopped
  <2> QED
    BY <2>1 DEF CallsStopped
<1> HIDE DEF stopped
<1> DEFINE y == IF chunk.finish = "tool_calls" THEN stopped ELSE called
<1>9. /\ Reports(r, b, y) /\ Kept(r, m, y.st)
      /\ \A c \in Call : /\ y.st.calls[c].named = (st.calls[c].named \/ Names(c))
                         /\ y.st.calls[c].arguments = st.calls[c].arguments + Count(c)
      /\ chunk.finish # "tool_calls" => \A c \in Call : y.st.calls[c].stopped = st.calls[c].stopped
  BY <1>6, <1>7, <1>8 DEF SameCalls
<1>10. y = Streams!IngestChunk(st, chunk)
  BY <1>1
<1> HIDE DEF y
<1> QED
  BY <1>9, <1>10 DEF b, Names, Count, ChunkTaken

LEMMA ReportsEnd ==
    ASSUME NEW r, OfCalls(r), NEW st \in StateType, NEW m, Kept(r, m, st)
    PROVE  LET y == Streams!FinishStream(st) IN
           /\ Reports(r, Reported(r, st), y)
           /\ \A c \in Call : /\ y.st.calls[c].named = st.calls[c].named
                              /\ y.st.calls[c].arguments = st.calls[c].arguments
                              /\ CallCurrent(y.st.calls[c])
                              /\ y.st.calls[c].started => y.st.calls[c].stopped
<1> DEFINE b == Reported(r, st)
           none == [st |-> [st EXCEPT !.finished = TRUE], events |-> << >>]
           thought == Streams!CloseThinking(none)
           closed == [thought.st EXCEPT !.textFinished = TRUE]
           j == Streams!TextBlockIndex(st)
           e == Streams!Stop(j, Streams!Text)
           told == IF ~st.textStarted \/ st.textFinished THEN thought
                   ELSE Streams!Emit(thought, closed, <<e>>)
           called == Streams!FinishCalls(told)
           ended == Streams!Emit(called, called.st, <<Streams!MessageStop>>)
<1>1. Streams!FinishStream(st) = IF st.messageStarted THEN ended ELSE called
  BY DEF Streams!FinishStream, Streams!Ends
<1>2. /\ none.st \in StateType /\ none.events = << >> /\ none \in Told
      /\ none.st.thinkingStarted = st.thinkingStarted /\ none.st.thinkingFinished = st.thinkingFinished
      /\ SameCalls(st, none.st)
  <2> DEFINE new == [st EXCEPT !.finished = TRUE]
  <2>1. /\ new \in StateType
        /\ new.thinkingStarted = st.thinkingStarted /\ new.thinkingFinished = st.thinkingFinished
        /\ SameCalls(st, new)
    BY DEF StateType, SameCalls
  <2>2. none = [st |-> new, events |-> << >>]
    OBVIOUS
  <2> HIDE DEF new, none
  <2>3. none.st = new /\ none.events = << >> /\ none \in Told
    BY <2>1, <2>2 DEF Told
  <2> QED
    BY <2>1, <2>3
<1> HIDE DEF none
<1>3. Reports(r, b, none) /\ Reasoned(none.st) /\ \A c \in Call : CallKept(none.st.calls[c])
  <2>1. Reports(r, b, none)
    BY <1>2, SameCallsAreReported, NoneRuns DEF Reports
  <2> QED
    BY <1>2, <2>1 DEF Kept, CallCurrent, SameCalls, Reasoned
<1>4. /\ Reports(r, b, thought) /\ SameCalls(st, thought.st)
      /\ r.offset = Streams!ToolIndexOffset(thought.st)
  <2>1. /\ Reports(r, b, thought) /\ SameCalls(none.st, thought.st)
        /\ thought.st.thinkingStarted = none.st.thinkingStarted
    BY <1>3, ReportsClose
  <2> HIDE DEF thought
  <2> QED
    BY <1>2, <2>1 DEF SameCalls, Kept, Streams!ToolIndexOffset
<1> HIDE DEF thought
<1>5. thought.st \in StateType
  BY <1>4 DEF Reports, Told
<1>6. /\ Reports(r, b, told) /\ told.st.calls = st.calls
      /\ r.offset = Streams!ToolIndexOffset(told.st)
  <2>1. CASE ~st.textStarted
    BY <1>4, <2>1 DEF SameCalls
  <2>2. CASE st.textStarted
    <3>1. told = Streams!Emit(thought, closed, <<e>>)
      BY <2>2 DEF Kept
    <3>2. /\ closed \in StateType /\ closed.textFinished /\ closed.calls = thought.st.calls
          /\ closed.thinkingStarted = thought.st.thinkingStarted
      BY <1>5 DEF StateType
    <3> HIDE DEF told, closed
    <3>3. e \in EventType /\ e.kind = "stop" /\ e.block.kind = "text" /\ e.index < r.offset
      <4>1. << >> \in Seq([call : Nat, n : Nat])
        OBVIOUS
      <4>2. j \in Nat /\ j < r.offset
        BY DEF Kept, Streams!TextBlockIndex, Streams!ToolIndexOffset
      <4> HIDE DEF j
      <4> QED
        BY <4>1, <4>2 DEF Streams!Stop, Streams!Event, Streams!Text, EventType
    <3> HIDE DEF e, j
    <3>4. CallFits(r, Reported(r, thought.st), e)
      BY <3>3 DEF CallFits
    <3>5. CallAfter(r, Reported(r, thought.st), e) = Reported(r, closed)
      <4> DEFINE v == Reported(r, thought.st)
                 w == Reported(r, closed)
      <4>1. ~thought.st.textFinished
        BY <1>4 DEF SameCalls, Kept
      <4>2. CASE r.who = "cli"
        <5>1. CallAfter(r, v, e)
                  = [c \in Call |-> IF v[c].at = "open" THEN [v[c] EXCEPT !.at = "done"] ELSE v[c]]
          BY <3>3, <4>2 DEF CallAfter
        <5>2. ASSUME NEW c \in Call
              PROVE  w[c] = IF v[c].at = "open" THEN [v[c] EXCEPT !.at = "done"] ELSE v[c]
          BY <3>2, <4>1, <4>2 DEF Reported
        <5>3. w = [c \in Call |-> w[c]]
          BY DEF Reported
        <5> HIDE DEF v, w
        <5>4. CallAfter(r, v, e) = w
          BY <5>1, <5>2, <5>3
        <5> QED
          BY <5>4 DEF v, w
      <4>3. CASE r.who # "cli"
        <5>1. CallAfter(r, v, e) = v
          BY <3>3, <4>3 DEF CallAfter
        <5>2. v = w
          BY <3>2, <4>3 DEF Reported
        <5> QED
          BY <5>1, <5>2
      <4> QED
        BY <4>2, <4>3
    <3>6. Reports(r, b, told) /\ told.st = closed
      BY <1>4, <3>1, <3>2, <3>3, <3>4, <3>5, EmitOneReports
    <3> QED
      BY <1>4, <3>2, <3>6 DEF SameCalls, Streams!ToolIndexOffset
  <2> QED
    BY <2>1, <2>2 DEF StateType
<1> HIDE DEF told
<1>7. /\ Reports(r, b, called)
      /\ \A c \in Call : /\ called.st.calls[c].named = st.calls[c].named
                         /\ called.st.calls[c].arguments = st.calls[c].arguments
                         /\ CallCurrent(called.st.calls[c])
                         /\ called.st.calls[c].started => called.st.calls[c].stopped
  <2>1. \A c \in Call : CallCurrent(told.st.calls[c])
    BY <1>6 DEF Kept
  <2> QED
    BY <1>6, <2>1, ReportsFinishes
<1> HIDE DEF called
<1>8. Reports(r, b, ended) /\ ended.st = called.st
  <2> DEFINE stop == Streams!MessageStop
  <2>1. stop \in EventType /\ stop.kind = "message_stop" /\ stop.block.kind # "tool" /\ stop.index < r.offset
    <3>1. 0 \in Nat /\ << >> \in Seq([call : Nat, n : Nat])
      OBVIOUS
    <3> QED
      BY <3>1 DEF Streams!MessageStop, Streams!Event, Streams!Text, EventType, OfCalls
  <2>2. called.st \in StateType /\ SameCalls(called.st, called.st)
    BY <1>7 DEF Reports, Told, SameCalls
  <2> HIDE DEF stop
  <2> QED
    BY <1>7, <2>1, <2>2, OtherReports DEF stop
<1> HIDE DEF ended, b
<1> QED
  BY <1>1, <1>7, <1>8 DEF b

----------------------------------------------------------------------------
(* What a client holds                                                      *)

ClientBlock == [kind : {"thinking", "text", "tool"}, call : Nat, input : Seq([call : Nat, n : Nat])]

FirstOf(c, n) == [k \in 1..n |-> [call |-> c, n |-> k]]

LEMMA FirstOfIs ==
    ASSUME NEW c \in Nat, NEW n \in Nat
    PROVE  /\ FirstOf(c, n) \in Seq([call : Nat, n : Nat]) /\ Len(FirstOf(c, n)) = n
           /\ FirstOf(c, 0) = << >>
<1> DEFINE S == [call : Nat, n : Nat]
<1>1. \A k \in 1..n : [call |-> c, n |-> k] \in S
  OBVIOUS
<1> HIDE DEF S
<1>2. FirstOf(c, n) \in [1..n -> S]
  BY <1>1 DEF FirstOf
<1>3. FirstOf(c, n) \in Seq(S) /\ Len(FirstOf(c, n)) = n
  BY <1>2
<1>4. FirstOf(c, 0) = << >>
  BY DEF FirstOf
<1> QED
  BY <1>3, <1>4 DEF S

LEMMA MoreOf ==
    ASSUME NEW c \in Nat, NEW n \in Nat, NEW part \in Seq([call : Nat, n : Nat]),
           part = [k \in 1..Len(part) |-> [call |-> c, n |-> n + k]]
    PROVE  FirstOf(c, n) \o part = FirstOf(c, n + Len(part)) /\ n + Len(part) \in Nat
<1> DEFINE S == [call : Nat, n : Nat]
           a == FirstOf(c, n)
           size == Len(part)
<1>1. a \in Seq(S) /\ Len(a) = n /\ part \in Seq(S) /\ size \in Nat
  BY FirstOfIs
<1>2. /\ \A k \in 1..n : a[k] = [call |-> c, n |-> k]
      /\ \A k \in 1..size : part[k] = [call |-> c, n |-> n + k]
  BY DEF FirstOf
<1>3. Len(part) = size
  OBVIOUS
<1> HIDE DEF S, a, size
<1> DEFINE both == a \o part
<1>4. /\ both \in Seq(S) /\ Len(both) = n + size
      /\ \A k \in 1..(n + size) : both[k] = IF k <= n THEN a[k] ELSE part[k - n]
  <2>1. /\ both \in Seq(S) /\ Len(both) = Len(a) + Len(part)
        /\ \A k \in 1..(Len(a) + Len(part)) : both[k] = IF k <= Len(a) THEN a[k] ELSE part[k - Len(a)]
    BY <1>1, ConcatProperties, ZenonT(60)
  <2> HIDE DEF both
  <2> QED
    BY <1>1, <1>3, <2>1
<1> HIDE DEF both
<1>5. ASSUME NEW k \in 1..(n + size) PROVE both[k] = [call |-> c, n |-> k]
  <2>1. CASE k <= n
    <3>1. k \in 1..n
      BY <2>1
    <3> QED
      BY <1>2, <1>4, <2>1, <3>1
  <2>2. CASE ~(k <= n)
    <3>1. k - n \in 1..size /\ n + (k - n) = k
      BY <1>1, <2>2
    <3> QED
      BY <1>2, <1>4, <2>2, <3>1
  <2> QED
    BY <2>1, <2>2
<1>6. both = [k \in 1..(n + size) |-> [call |-> c, n |-> k]]
  <2>1. both = [k \in 1..Len(both) |-> both[k]]
    BY <1>4
  <2> QED
    BY <1>4, <1>5, <2>1
<1> QED
  BY <1>1, <1>3, <1>6 DEF both, a, FirstOf

\* The blocks of a call in the answer: none, or one with all it was told.
Mine(out, c) == {i \in DOMAIN out : out[i].kind = "tool" /\ out[i].call = c}

GivenAs(out, c, now) ==
    IF now.at = "done" THEN \E i : Mine(out, c) = {i} /\ out[i].input = FirstOf(c, now.n)
    ELSE Mine(out, c) = {}

LEMMA AppendGives ==
    ASSUME NEW out \in Seq(ClientBlock), NEW b \in ClientBlock, NEW c
    PROVE  LET more == Append(out, b) IN
           /\ more \in Seq(ClientBlock)
           /\ Mine(more, c) = Mine(out, c)
                  \cup (IF b.kind = "tool" /\ b.call = c THEN {Len(out) + 1} ELSE {})
           /\ \A i \in DOMAIN out : more[i] = out[i]
           /\ more[Len(out) + 1] = b
<1> DEFINE more == Append(out, b)
           n == Len(out)
<1>1. /\ more \in Seq(ClientBlock) /\ n \in Nat /\ DOMAIN out = 1..n /\ DOMAIN more = 1..(n + 1)
      /\ \A i \in 1..n : more[i] = out[i]
      /\ more[n + 1] = b
  OBVIOUS
<1> HIDE DEF more, n
<1>2. Mine(more, c) = Mine(out, c) \cup (IF b.kind = "tool" /\ b.call = c THEN {n + 1} ELSE {})
  <2>1. \A i \in 1..(n + 1) : i \in 1..n \/ i = n + 1
    BY <1>1
  <2>2. \A i \in 1..n : i \in 1..(n + 1)
    BY <1>1
  <2>3. n + 1 \in 1..(n + 1)
    BY <1>1
  <2> QED
    BY <1>1, <2>1, <2>2, <2>3 DEF Mine
<1> QED
  BY <1>1, <1>2 DEF more, n

\* A block of another call, or of none, leaves what is given of a call.
LEMMA OtherBlock ==
    ASSUME NEW out \in Seq(ClientBlock), NEW b \in ClientBlock, NEW c, NEW now,
           ~(b.kind = "tool" /\ b.call = c), GivenAs(out, c, now)
    PROVE  Append(out, b) \in Seq(ClientBlock) /\ GivenAs(Append(out, b), c, now)
<1> DEFINE more == Append(out, b)
<1>1. more \in Seq(ClientBlock) /\ Mine(more, c) = Mine(out, c) /\ \A i \in DOMAIN out : more[i] = out[i]
  <2>1. /\ more \in Seq(ClientBlock) /\ \A i \in DOMAIN out : more[i] = out[i]
        /\ Mine(more, c) = Mine(out, c)
               \cup (IF b.kind = "tool" /\ b.call = c THEN {Len(out) + 1} ELSE {})
    BY AppendGives
  <2> HIDE DEF more
  <2> QED
    BY <2>1
<1> HIDE DEF more
<1>2. \A i \in Mine(out, c) : more[i] = out[i]
  BY <1>1 DEF Mine
<1>3. GivenAs(more, c, now)
  BY <1>1, <1>2 DEF GivenAs
<1> QED
  BY <1>1, <1>3 DEF more

LEMMA WholeBlock ==
    ASSUME NEW out \in Seq(ClientBlock), NEW c \in Nat, NEW n \in Nat, NEW old, NEW now,
           GivenAs(out, c, old), old.at # "done", now.at = "done", now.n = n
    PROVE  LET b == Streams!Block("tool", c, FirstOf(c, n)) IN
           b \in ClientBlock /\ Append(out, b) \in Seq(ClientBlock) /\ GivenAs(Append(out, b), c, now)
<1> DEFINE b == Streams!Block("tool", c, FirstOf(c, n))
           more == Append(out, b)
<1>1. b \in ClientBlock /\ b.kind = "tool" /\ b.call = c /\ b.input = FirstOf(c, n)
  BY FirstOfIs DEF Streams!Block, ClientBlock
<1> HIDE DEF b
<1>2. /\ more \in Seq(ClientBlock) /\ Mine(more, c) = Mine(out, c) \cup {Len(out) + 1}
      /\ more[Len(out) + 1] = b
  BY <1>1, AppendGives
<1>3. Mine(out, c) = {}
  BY DEF GivenAs
<1> HIDE DEF more
<1>4. GivenAs(more, c, now)
  BY <1>1, <1>2, <1>3 DEF GivenAs
<1> QED
  BY <1>1, <1>2, <1>4 DEF more, b

PlaceOf(r, c) == IF r.who = "cli" THEN 0 ELSE c + r.offset

ViewType == [Call -> [at : {"none", "open", "done"}, n : Nat]]

\* What is pending is what was told of the open calls, each in its place.
PendingAs(r, v, tools) ==
    /\ tools = [s \in DOMAIN tools |-> tools[s]]
    /\ \A c \in Call : v[c].at = "open" =>
          /\ PlaceOf(r, c) \in DOMAIN tools
          /\ tools[PlaceOf(r, c)] = Streams!Block("tool", c, FirstOf(c, v[c].n))
    /\ \A s \in DOMAIN tools : \E c \in Call : v[c].at = "open" /\ s = PlaceOf(r, c)
    /\ \A c, d \in Call : v[c].at = "open" /\ v[d].at = "open" /\ PlaceOf(r, c) = PlaceOf(r, d) => c = d

IsClient(k) == DOMAIN k = {"tools", "thinking", "out", "sawStop"}

\* A client that has been told v of the calls.
Holds(r, v, k) ==
    /\ IsClient(k)
    /\ v \in ViewType /\ k.out \in Seq(ClientBlock)
    /\ PendingAs(r, v, k.tools)
    /\ \A c \in Call : GivenAs(k.out, c, v[c])

\* Whatever is pending in a place is complete.
Completed(r, v, s) ==
    [c \in Call |-> IF v[c].at = "open" /\ PlaceOf(r, c) = s THEN [v[c] EXCEPT !.at = "done"] ELSE v[c]]

LEMMA StopCompletes ==
    ASSUME NEW r, OfCalls(r), NEW v \in ViewType, NEW tools, PendingAs(r, v, tools),
           NEW e \in EventType, e.kind = "stop", CallFits(r, v, e)
    PROVE  CallAfter(r, v, e) = Completed(r, v, IF r.who = "cli" THEN 0 ELSE e.index)
<1> DEFINE s == IF r.who = "cli" THEN 0 ELSE e.index
           w == Completed(r, v, s)
<1>1. v = [c \in Call |-> v[c]] /\ Call \subseteq Nat
  BY CallsAreNumbers DEF ViewType
<1>2. CASE e.block.kind = "tool"
  <2> DEFINE c == e.block.call
  <2>1. c \in Call /\ e.index = c + r.offset /\ s = PlaceOf(r, c)
        /\ (v[c].at = "open" \/ (v[c].at = "done" /\ (r.who = "cli" => \A d \in Call : v[d].at # "open")))
    BY <1>2 DEF CallFits, PlaceOf
  <2>2. CallAfter(r, v, e) = [v EXCEPT ![c].at = "done"]
    BY <1>2 DEF CallAfter
  <2> HIDE DEF c, s
  <2>3. ASSUME NEW d \in Call, d # c PROVE ~(v[d].at = "open" /\ PlaceOf(r, d) = s)
    <3>1. CASE v[c].at = "open"
      BY <2>1, <2>3, <3>1 DEF PendingAs
    <3>2. CASE v[c].at # "open" /\ r.who # "cli"
      BY <1>1, <2>1, <2>3, <3>2 DEF PlaceOf, OfCalls
    <3>3. CASE v[c].at # "open" /\ r.who = "cli"
      BY <2>1, <3>3
    <3> QED
      BY <3>1, <3>2, <3>3
  <2>4. [v[c] EXCEPT !.at = "done"] = IF v[c].at = "open" THEN [v[c] EXCEPT !.at = "done"] ELSE v[c]
    BY <2>1 DEF ViewType
  <2>5. [v EXCEPT ![c].at = "done"] = [d \in Call |-> IF d = c THEN [v[c] EXCEPT !.at = "done"] ELSE v[d]]
    BY <1>1
  <2>6. \A d \in Call : (IF d = c THEN [v[c] EXCEPT !.at = "done"] ELSE v[d])
            = IF v[d].at = "open" /\ PlaceOf(r, d) = s THEN [v[d] EXCEPT !.at = "done"] ELSE v[d]
    BY <2>1, <2>3, <2>4
  <2> QED
    BY <2>2, <2>5, <2>6 DEF Completed, s
<1>3. CASE e.block.kind # "tool" /\ r.who = "cli"
  BY <1>3 DEF CallAfter, Completed, PlaceOf
<1>4. CASE e.block.kind # "tool" /\ r.who # "cli"
  <2>1. CallAfter(r, v, e) = v
    BY <1>4 DEF CallAfter
  <2>2. e.index < r.offset /\ e.index \in Nat
    BY <1>4 DEF CallFits, EventType
  <2>3. \A c \in Call : PlaceOf(r, c) # e.index
    BY <1>1, <1>4, <2>2 DEF PlaceOf, OfCalls
  <2>4. Completed(r, v, e.index) = [c \in Call |-> v[c]]
    BY <2>3 DEF Completed
  <2> QED
    BY <1>1, <1>4, <2>1, <2>4
<1> QED
  BY <1>2, <1>3, <1>4

LEMMA StopHolds ==
    ASSUME NEW r, OfCalls(r), r.who = client, NEW v, NEW k, Holds(r, v, k), NEW e \in EventType
    PROVE  Holds(r, Completed(r, v, Streams!Slot(e.index)), Streams!ConsumeStop(k, e))
<1> DEFINE s == Streams!Slot(e.index)
           w == Completed(r, v, s)
           thought == IF s \in k.thinking THEN <<Streams!Block("thinking", 0, << >>)>> ELSE << >>
           called == IF s \in DOMAIN k.tools THEN <<k.tools[s]>> ELSE << >>
           tools == [u \in DOMAIN k.tools \ {s} |-> k.tools[u]]
           new == Streams!ConsumeStop(k, e)
           mid == k.out \o thought
<1>1. /\ new.tools = tools /\ new.out = mid \o called
      /\ IsClient(new)
  <2>1. new = [k EXCEPT !.thinking = @ \ {s}, !.tools = tools, !.out = @ \o thought \o called]
    BY DEF Streams!ConsumeStop, Streams!Restrict
  <2> HIDE DEF new, tools, thought, called, s
  <2> QED
    BY <2>1 DEF Holds, IsClient
<1> HIDE DEF new
<1>2. v \in ViewType /\ k.out \in Seq(ClientBlock) /\ PendingAs(r, v, k.tools)
      /\ \A c \in Call : GivenAs(k.out, c, v[c])
  BY DEF Holds
<1> HIDE DEF s
<1>3. w \in ViewType /\ \A c \in Call :
          w[c] = IF v[c].at = "open" /\ PlaceOf(r, c) = s THEN [v[c] EXCEPT !.at = "done"] ELSE v[c]
  BY <1>2 DEF Completed, ViewType
<1>4. \A c \in Call : /\ w[c].n = v[c].n
                      /\ w[c].at = IF v[c].at = "open" /\ PlaceOf(r, c) = s THEN "done" ELSE v[c].at
  BY <1>2, <1>3 DEF ViewType
<1> HIDE DEF w
<1>5. PendingAs(r, w, tools)
  <2>1. DOMAIN tools = DOMAIN k.tools \ {s} /\ \A u \in DOMAIN tools : tools[u] = k.tools[u]
    OBVIOUS
  <2>2. tools = [u \in DOMAIN tools |-> tools[u]]
    OBVIOUS
  <2> HIDE DEF tools
  <2>3. ASSUME NEW c \in Call, w[c].at = "open"
        PROVE  v[c].at = "open" /\ PlaceOf(r, c) # s
    BY <1>4, <2>3
  <2>4. ASSUME NEW c \in Call, w[c].at = "open"
        PROVE  /\ PlaceOf(r, c) \in DOMAIN tools
               /\ tools[PlaceOf(r, c)] = Streams!Block("tool", c, FirstOf(c, w[c].n))
    BY <1>2, <1>4, <2>1, <2>3, <2>4 DEF PendingAs
  <2>5. ASSUME NEW u \in DOMAIN tools PROVE \E c \in Call : w[c].at = "open" /\ u = PlaceOf(r, c)
    BY <1>2, <1>4, <2>1 DEF PendingAs
  <2>6. \A c, d \in Call : w[c].at = "open" /\ w[d].at = "open" /\ PlaceOf(r, c) = PlaceOf(r, d) => c = d
    BY <1>2, <2>3 DEF PendingAs
  <2> QED
    BY <2>2, <2>4, <2>5, <2>6 DEF PendingAs
<1>6. mid \in Seq(ClientBlock) /\ \A c \in Call : GivenAs(mid, c, v[c])
  <2> DEFINE b == Streams!Block("thinking", 0, << >>)
  <2>1. b \in ClientBlock /\ b.kind # "tool"
    <3>1. << >> \in Seq([call : Nat, n : Nat])
      OBVIOUS
    <3> QED
      BY <3>1 DEF Streams!Block, ClientBlock
  <2>2. mid = k.out \/ mid = Append(k.out, b)
    <3> HIDE DEF b
    <3>1. k.out \o << >> = k.out /\ k.out \o <<b>> = Append(k.out, b)
      BY <1>2, <2>1
    <3> QED
      BY <3>1 DEF b
  <2> HIDE DEF b, mid
  <2>3. CASE mid = k.out
    BY <1>2, <2>3
  <2>4. CASE mid = Append(k.out, b)
    <3>1. Append(k.out, b) \in Seq(ClientBlock)
      BY <1>2, <2>1
    <3> QED
      BY <1>2, <2>1, <2>4, <3>1, OtherBlock
  <2> QED
    BY <2>2, <2>3, <2>4
<1> HIDE DEF mid, thought, tools
<1>7. mid \o called \in Seq(ClientBlock) /\ \A c \in Call : GivenAs(mid \o called, c, w[c])
  <2>1. CASE s \notin DOMAIN k.tools
    <3>1. mid \o called = mid
      BY <1>6, <2>1
    <3>2. \A c \in Call : w[c] = v[c]
      BY <1>2, <1>3, <2>1 DEF PendingAs
    <3> QED
      BY <1>6, <3>1, <3>2
  <2>2. CASE s \in DOMAIN k.tools
    <3>1. PICK d \in Call : v[d].at = "open" /\ s = PlaceOf(r, d)
      BY <1>2, <2>2 DEF PendingAs
    <3> DEFINE b == Streams!Block("tool", d, FirstOf(d, v[d].n))
               more == Append(mid, b)
    <3>2. k.tools[s] = b
      BY <1>2, <3>1 DEF PendingAs
    <3>3. d \in Nat /\ v[d].n \in Nat /\ w[d].at = "done" /\ w[d].n = v[d].n
      BY <1>2, <1>4, <3>1, CallsAreNumbers DEF ViewType
    <3>4. b \in ClientBlock /\ more \in Seq(ClientBlock) /\ GivenAs(more, d, w[d])
      <4>1. v[d].at # "done" /\ GivenAs(mid, d, v[d])
        BY <1>6, <3>1
      <4> QED
        BY <1>6, <3>3, <4>1, WholeBlock
    <3>5. ASSUME NEW c \in Call, c # d PROVE GivenAs(more, c, w[c])
      <4>1. w[c] = v[c]
        <5>1. ~(v[c].at = "open" /\ PlaceOf(r, c) = s)
          BY <1>2, <3>1, <3>5 DEF PendingAs
        <5> QED
          BY <1>3, <5>1
      <4>2. ~(b.kind = "tool" /\ b.call = c)
        BY <3>5 DEF Streams!Block
      <4>3. GivenAs(mid, c, v[c])
        BY <1>6
      <4> HIDE DEF b
      <4> QED
        BY <1>6, <3>4, <4>1, <4>2, <4>3, OtherBlock
    <3> HIDE DEF b
    <3>6. mid \o called = more
      <4>1. called = <<b>>
        BY <2>2, <3>2
      <4> HIDE DEF called
      <4> QED
        BY <1>6, <3>4, <4>1
    <3> HIDE DEF more, called
    <3> QED
      BY <3>4, <3>5, <3>6
  <2> QED
    BY <2>1, <2>2
<1> HIDE DEF called
<1>8. Holds(r, w, new)
  BY <1>1, <1>3, <1>5, <1>7 DEF Holds
<1> QED
  BY <1>8 DEF w, new, s

LEMMA StartHolds ==
    ASSUME NEW r, OfCalls(r), r.who = client, NEW v, NEW k, Holds(r, v, k), NEW e \in EventType,
           e.kind = "start", CallFits(r, v, e)
    PROVE  Holds(r, CallAfter(r, v, e), Streams!ConsumeStart(k, e))
<1> DEFINE s == Streams!Slot(e.index)
           new == Streams!ConsumeStart(k, e)
<1>1. v \in ViewType /\ k.out \in Seq(ClientBlock) /\ PendingAs(r, v, k.tools)
      /\ \A c \in Call : GivenAs(k.out, c, v[c])
  BY DEF Holds
<1>0. IsClient(k)
  BY DEF Holds
<1>2. CASE e.block.kind = "tool"
  <2> DEFINE c == e.block.call
             w == [v EXCEPT ![c] = [at |-> "open", n |-> 0]]
             b == Streams!Block("tool", c, << >>)
             tools == [u \in DOMAIN k.tools \cup {s} |-> IF u = s THEN b ELSE k.tools[u]]
  <2>1. c \in Call /\ e.index = c + r.offset /\ v[c].at = "none"
        /\ (r.who = "cli" => \A d \in Call : v[d].at # "open")
    BY <1>2 DEF CallFits
  <2>2. s = PlaceOf(r, c)
    BY <2>1 DEF PlaceOf, Streams!Slot
  <2>3. CallAfter(r, v, e) = w
    BY <1>2 DEF CallAfter
  <2>4. /\ new.tools = tools /\ new.out = k.out
        /\ IsClient(new)
    <3>1. new = [k EXCEPT !.tools = tools]
      BY <1>2 DEF Streams!ConsumeStart
    <3> HIDE DEF new, tools
    <3> QED
      BY <1>0, <3>1 DEF IsClient
  <2> HIDE DEF new, s
  <2>5. w \in ViewType /\ w[c] = [at |-> "open", n |-> 0] /\ \A d \in Call \ {c} : w[d] = v[d]
    BY <1>1, <2>1 DEF ViewType
  <2> HIDE DEF w
  <2>6. PendingAs(r, w, tools)
    <3>1. /\ DOMAIN tools = DOMAIN k.tools \cup {s} /\ tools[s] = b
          /\ \A u \in DOMAIN k.tools \ {s} : tools[u] = k.tools[u]
          /\ tools = [u \in DOMAIN tools |-> tools[u]]
      OBVIOUS
    <3>2. b = Streams!Block("tool", c, FirstOf(c, w[c].n))
      <4>1. w[c].n = 0
        BY <2>5
      <4>2. c \in Nat
        BY <2>1, CallsAreNumbers
      <4> HIDE DEF c
      <4>3. FirstOf(c, 0) = << >>
        BY <4>2, FirstOfIs
      <4> QED
        BY <4>1, <4>3
    <3> HIDE DEF tools, b
    <3>3. ASSUME NEW d \in Call \ {c}, v[d].at = "open" PROVE PlaceOf(r, d) # s
      <4>1. r.who # "cli" /\ c \in Nat /\ d \in Nat
        BY <2>1, <3>3, CallsAreNumbers
      <4> QED
        BY <2>2, <3>3, <4>1 DEF PlaceOf, OfCalls
    <3>4. ASSUME NEW d \in Call, w[d].at = "open"
          PROVE  /\ PlaceOf(r, d) \in DOMAIN tools
                 /\ tools[PlaceOf(r, d)] = Streams!Block("tool", d, FirstOf(d, w[d].n))
      <4>1. CASE d = c
        BY <2>2, <3>1, <3>2, <4>1
      <4>2. CASE d # c
        BY <1>1, <2>5, <3>1, <3>3, <3>4, <4>2 DEF PendingAs
      <4> QED
        BY <4>1, <4>2
    <3>5. ASSUME NEW u \in DOMAIN tools PROVE \E d \in Call : w[d].at = "open" /\ u = PlaceOf(r, d)
      <4>1. CASE u = s
        BY <2>1, <2>2, <2>5, <4>1
      <4>2. CASE u # s
        <5>1. PICK d \in Call : v[d].at = "open" /\ u = PlaceOf(r, d)
          BY <1>1, <3>1, <4>2 DEF PendingAs
        <5>2. d # c
          BY <2>1, <5>1
        <5> QED
          BY <2>5, <5>1, <5>2
      <4> QED
        BY <4>1, <4>2
    <3>6. ASSUME NEW d \in Call, NEW f \in Call, w[d].at = "open", w[f].at = "open",
                 PlaceOf(r, d) = PlaceOf(r, f)
          PROVE  d = f
      BY <1>1, <2>2, <2>5, <3>3, <3>6 DEF PendingAs
    <3> QED
      BY <3>1, <3>4, <3>5, <3>6 DEF PendingAs
  <2>7. \A d \in Call : GivenAs(k.out, d, w[d])
    <3>1. GivenAs(k.out, c, w[c])
      <4>1. GivenAs(k.out, c, v[c])
        BY <1>1, <2>1
      <4> QED
        BY <2>1, <2>5, <4>1 DEF GivenAs
    <3> QED
      BY <1>1, <2>5, <3>1
  <2> HIDE DEF tools
  <2> QED
    BY <1>1, <2>3, <2>4, <2>5, <2>6, <2>7 DEF Holds, new
<1>3. CASE e.block.kind # "tool"
  <2>1. CallAfter(r, v, e) = v
    BY <1>3 DEF CallAfter
  <2> DEFINE b == Streams!Block("thinking", 0, << >>)
  <2>2. b \in ClientBlock /\ b.kind # "tool"
    <3>1. << >> \in Seq([call : Nat, n : Nat])
      OBVIOUS
    <3> QED
      BY <3>1 DEF Streams!Block, ClientBlock
  <2> HIDE DEF b
  <2>3. /\ new.tools = k.tools /\ new.out \in {k.out, Append(k.out, b)}
        /\ IsClient(new)
    <3>1. CASE e.block.kind = "thinking"
      <4> DEFINE out == IF client = "cli" THEN Append(k.out, b) ELSE k.out
      <4>1. new = [k EXCEPT !.thinking = @ \cup {s}, !.out = out]
        BY <1>3, <3>1 DEF Streams!ConsumeStart, b
      <4>2. out \in {k.out, Append(k.out, b)}
        OBVIOUS
      <4> HIDE DEF new, s, out
      <4> QED
        BY <1>0, <4>1, <4>2 DEF IsClient
    <3>2. CASE e.block.kind # "thinking"
      <4>1. new = k
        BY <1>3, <3>2 DEF Streams!ConsumeStart
      <4> HIDE DEF new
      <4> QED
        BY <1>0, <4>1
    <3> QED
      BY <3>1, <3>2
  <2> HIDE DEF new
  <2>4. new.out \in Seq(ClientBlock) /\ \A c \in Call : GivenAs(new.out, c, v[c])
    <3>1. Append(k.out, b) \in Seq(ClientBlock)
      BY <1>1, <2>2
    <3>2. \A c \in Call : GivenAs(Append(k.out, b), c, v[c])
      BY <1>1, <2>2, OtherBlock
    <3> QED
      BY <1>1, <2>3, <3>1, <3>2
  <2> QED
    BY <1>1, <2>1, <2>3, <2>4 DEF Holds, new
<1> QED
  BY <1>2, <1>3

LEMMA DeltaHolds ==
    ASSUME NEW r, OfCalls(r), r.who = client, NEW v, NEW k, Holds(r, v, k), NEW e \in EventType,
           e.kind = "delta", CallFits(r, v, e)
    PROVE  Holds(r, CallAfter(r, v, e), Streams!ConsumeDelta(k, e))
<1> DEFINE s == Streams!Slot(e.index)
           new == Streams!ConsumeDelta(k, e)
<1>1. v \in ViewType /\ k.out \in Seq(ClientBlock) /\ PendingAs(r, v, k.tools)
      /\ \A c \in Call : GivenAs(k.out, c, v[c])
  BY DEF Holds
<1>0. IsClient(k)
  BY DEF Holds
<1>2. CASE e.block.kind = "tool"
  <2> DEFINE c == e.block.call
             size == Len(e.part)
             old == FirstOf(c, v[c].n)
             w == [v EXCEPT ![c] = [at |-> "open", n |-> v[c].n + size]]
             b == Streams!Block("tool", c, old \o e.part)
             tools == [k.tools EXCEPT ![s] = b]
  <2>1. c \in Call /\ e.index = c + r.offset /\ v[c].at = "open"
        /\ e.part = [j \in 1..Len(e.part) |-> [call |-> c, n |-> v[c].n + j]]
    BY <1>2 DEF CallFits
  <2>2. s = PlaceOf(r, c)
    BY <2>1 DEF PlaceOf, Streams!Slot
  <2>3. c \in Nat /\ v[c].n \in Nat /\ e.part \in Seq([call : Nat, n : Nat])
    BY <1>1, <2>1, CallsAreNumbers DEF ViewType, EventType
  <2>4. old \o e.part = FirstOf(c, v[c].n + size) /\ v[c].n + size \in Nat
    BY <2>1, <2>3, MoreOf
  <2>5. CallAfter(r, v, e) = w
    <3>1. CallAfter(r, v, e) = [v EXCEPT ![c].n = @ + size]
      BY <1>2 DEF CallAfter
    <3> HIDE DEF c, size
    <3>2. [v[c] EXCEPT !.n = @ + size] = [at |-> "open", n |-> v[c].n + size]
      BY <1>1, <2>1 DEF ViewType
    <3>3. [v EXCEPT ![c].n = @ + size] = [v EXCEPT ![c] = [v[c] EXCEPT !.n = @ + size]]
      OBVIOUS
    <3> QED
      BY <3>1, <3>2, <3>3
  <2>6. s \in DOMAIN k.tools /\ k.tools[s] = Streams!Block("tool", c, old)
    BY <1>1, <2>1, <2>2 DEF PendingAs
  <2>7. /\ new.tools = tools /\ new.out = k.out
        /\ IsClient(new)
    <3>1. new = [k EXCEPT !.tools[s].input = @ \o e.part]
      BY <1>2, <2>6 DEF Streams!ConsumeDelta
    <3> HIDE DEF new, s, old
    <3>2. [k.tools EXCEPT ![s].input = @ \o e.part] = tools
      <4>1. [k.tools[s] EXCEPT !.input = @ \o e.part] = b
        <5> DEFINE part == e.part
        <5>1. k.tools[s] = [kind |-> "tool", call |-> c, input |-> old]
          BY <2>6 DEF Streams!Block
        <5> DEFINE held == k.tools[s]
        <5>2. held = [kind |-> "tool", call |-> c, input |-> old]
          BY <5>1
        <5> HIDE DEF c, part, held
        <5>3. [held EXCEPT !.input = @ \o part] = [kind |-> "tool", call |-> c, input |-> old \o part]
          <6>1. held.input = old
            BY <5>2
          <6> DEFINE longer == held.input \o part
          <6>2. longer = old \o part
            BY <6>1
          <6>3. [held EXCEPT !.input = longer] = [kind |-> "tool", call |-> c, input |-> longer]
            <7> HIDE DEF longer
            <7> QED
              BY <5>2
          <6> QED
            BY <6>2, <6>3
        <5> QED
          BY <5>3 DEF Streams!Block, held, part
      <4>2. [k.tools EXCEPT ![s].input = @ \o e.part]
                = [k.tools EXCEPT ![s] = [k.tools[s] EXCEPT !.input = @ \o e.part]]
        OBVIOUS
      <4> HIDE DEF b
      <4> QED
        BY <4>1, <4>2
    <3> DEFINE filled == [k.tools EXCEPT ![s].input = @ \o e.part]
    <3>3. new = [k EXCEPT !.tools = filled]
      BY <3>1
    <3> HIDE DEF filled
    <3>4. filled = tools
      BY <3>2 DEF filled
    <3> HIDE DEF tools
    <3> QED
      BY <1>0, <3>3, <3>4 DEF IsClient
  <2> HIDE DEF new, s
  <2>8. w \in ViewType /\ w[c] = [at |-> "open", n |-> v[c].n + size] /\ \A d \in Call \ {c} : w[d] = v[d]
    <3> HIDE DEF size
    <3> QED
      BY <1>1, <2>1, <2>4 DEF ViewType
  <2> HIDE DEF w
  <2>9. PendingAs(r, w, tools)
    <3>1. /\ DOMAIN tools = DOMAIN k.tools /\ tools[s] = b
          /\ \A u \in DOMAIN k.tools \ {s} : tools[u] = k.tools[u]
          /\ tools = [u \in DOMAIN tools |-> tools[u]]
      <4> HIDE DEF b
      <4>1. k.tools = [u \in DOMAIN k.tools |-> k.tools[u]]
        BY <1>1 DEF PendingAs
      <4> QED
        BY <2>6, <4>1
    <3>2. b = Streams!Block("tool", c, FirstOf(c, w[c].n))
      BY <2>4, <2>8
    <3> HIDE DEF tools, b, old, size
    <3>3. \A d \in Call : w[d].at = "open" <=> v[d].at = "open"
      BY <2>1, <2>8
    <3>4. ASSUME NEW d \in Call, w[d].at = "open"
          PROVE  /\ PlaceOf(r, d) \in DOMAIN tools
                 /\ tools[PlaceOf(r, d)] = Streams!Block("tool", d, FirstOf(d, w[d].n))
      <4>1. CASE d = c
        BY <2>2, <2>6, <3>1, <3>2, <4>1
      <4>2. CASE d # c
        <5>1. PlaceOf(r, d) \in DOMAIN k.tools \ {s} /\ w[d] = v[d]
          BY <1>1, <2>1, <2>2, <2>8, <3>3, <3>4, <4>2 DEF PendingAs
        <5> QED
          BY <1>1, <3>1, <3>3, <3>4, <5>1 DEF PendingAs
      <4> QED
        BY <4>1, <4>2
    <3> QED
      BY <1>1, <3>1, <3>3, <3>4 DEF PendingAs
  <2>10. \A d \in Call : GivenAs(k.out, d, w[d])
    <3>1. GivenAs(k.out, c, w[c])
      <4>1. GivenAs(k.out, c, v[c])
        BY <1>1, <2>1
      <4> QED
        BY <2>1, <2>8, <4>1 DEF GivenAs
    <3> QED
      BY <1>1, <2>8, <3>1
  <2> HIDE DEF tools
  <2> QED
    BY <1>1, <2>5, <2>7, <2>8, <2>9, <2>10 DEF Holds, new
<1>3. CASE e.block.kind # "tool"
  <2>1. CallAfter(r, v, e) = v
    BY <1>3 DEF CallAfter
  <2> DEFINE b == Streams!Block("text", 0, << >>)
  <2>2. b \in ClientBlock /\ b.kind # "tool"
    <3>1. << >> \in Seq([call : Nat, n : Nat])
      OBVIOUS
    <3> QED
      BY <3>1 DEF Streams!Block, ClientBlock
  <2> HIDE DEF b
  <2>3. /\ new.tools = k.tools /\ new.out \in {k.out, Append(k.out, b)}
        /\ IsClient(new)
    <3>1. CASE e.block.kind = "text"
      <4> DEFINE out == Streams!WithText(k.out)
      <4>1. new = [k EXCEPT !.out = out]
        BY <3>1 DEF Streams!ConsumeDelta
      <4>2. out \in {k.out, Append(k.out, b)}
        BY DEF Streams!WithText, b
      <4> HIDE DEF new, out
      <4> QED
        BY <1>0, <4>1, <4>2 DEF IsClient
    <3>2. CASE e.block.kind # "text"
      <4>1. new = k
        BY <1>3, <3>2 DEF Streams!ConsumeDelta
      <4> HIDE DEF new
      <4> QED
        BY <1>0, <4>1
    <3> QED
      BY <3>1, <3>2
  <2> HIDE DEF new
  <2>4. new.out \in Seq(ClientBlock) /\ \A c \in Call : GivenAs(new.out, c, v[c])
    <3>1. Append(k.out, b) \in Seq(ClientBlock)
      BY <1>1, <2>2
    <3>2. \A c \in Call : GivenAs(Append(k.out, b), c, v[c])
      BY <1>1, <2>2, OtherBlock
    <3> QED
      BY <1>1, <2>3, <3>1, <3>2
  <2> QED
    BY <1>1, <2>1, <2>3, <2>4 DEF Holds, new
<1> QED
  BY <1>2, <1>3

LEMMA EventHolds ==
    ASSUME NEW r, OfCalls(r), r.who = client, NEW v, NEW k, Holds(r, v, k), NEW e \in EventType,
           CallFits(r, v, e)
    PROVE  Holds(r, CallAfter(r, v, e), Streams!Consume(k, e))
<1>1. CASE e.kind = "start"
  BY <1>1, StartHolds DEF Streams!Consume
<1>2. CASE e.kind = "delta"
  BY <1>2, DeltaHolds DEF Streams!Consume
<1>3. CASE e.kind = "stop"
  <2>1. CallAfter(r, v, e) = Completed(r, v, IF r.who = "cli" THEN 0 ELSE e.index)
    BY <1>3, StopCompletes DEF Holds
  <2>2. (IF r.who = "cli" THEN 0 ELSE e.index) = Streams!Slot(e.index)
    BY DEF Streams!Slot
  <2> QED
    BY <1>3, <2>1, <2>2, StopHolds DEF Streams!Consume
<1>4. CASE e.kind \in {"message_start", "message_stop"}
  <2>1. CallAfter(r, v, e) = v
    BY <1>4 DEF CallAfter
  <2> DEFINE new == Streams!Consume(k, e)
  <2>2. /\ new.tools = k.tools /\ new.out = k.out
        /\ IsClient(new)
    <3>1. new = [k EXCEPT !.sawStop = TRUE] \/ new = k
      BY <1>4 DEF Streams!Consume
    <3> HIDE DEF new
    <3>2. IsClient(k)
      BY DEF Holds
    <3> QED
      BY <3>1, <3>2 DEF IsClient
  <2> HIDE DEF new
  <2> QED
    BY <2>1, <2>2 DEF Holds, new
<1> QED
  BY <1>1, <1>2, <1>3, <1>4 DEF EventType

----------------------------------------------------------------------------
(* The invariant of the calls                                               *)

NamedCalls == {c \in Call : sent[c].named}

\* The answers that ToolCallsSurvive is about.
Followed ==
    /\ "after_calls" \notin lateness
    /\ client = "cli" => \A c, d \in NamedCalls : c = d

\* What a reader of the calls knows is what its client holds, and what is
\* pending leads it to what the state has told of them.
FollowedBy(r) ==
    /\ OfCalls(r) /\ r.who = client
    /\ \E v : Holds(r, v, consumer) /\ Runs(r, v, events, Reported(r, state))
    /\ ~done => Kept(r, NamedCalls, state)

\* The state knows of each call what was sent.  While chunks come, calls are
\* stopped only by a finish reason; when the body has ended, all are.
CallsInv ==
    /\ made = "message" => done /\ events = << >>
    /\ progress \in {"reasoning", "content", "finished"}
    /\ Followed =>
          /\ state \in StateType /\ events \in Seq(EventType)
          /\ \A c \in Call : /\ state.calls[c].named = sent[c].named
                             /\ state.calls[c].arguments = sent[c].fragments
                             /\ CallCurrent(state.calls[c])
                             /\ done => (state.calls[c].started => state.calls[c].stopped)
                             /\ ~done => (state.calls[c].stopped => progress = "finished")
          /\ \E r : FollowedBy(r)

\* When no call is open, the places of the calls may move.
LEMMA MovedHolds ==
    ASSUME NEW r, NEW q, NEW v, NEW k, Holds(r, v, k), \A c \in Call : v[c].at # "open"
    PROVE  Holds(q, v, k)
<1>1. PendingAs(r, v, k.tools)
  BY DEF Holds
<1>2. PendingAs(q, v, k.tools)
  BY <1>1 DEF PendingAs
<1> QED
  BY <1>2 DEF Holds

LEMMA NewStateIsFollowed ==
    ASSUME NEW who
    PROVE  LET r == CallsFor(who, 1)
               st == Streams!NewState IN
           /\ st \in StateType /\ OfCalls(r) /\ r.who = who
           /\ \A c \in Call : /\ ~st.calls[c].named /\ st.calls[c].arguments = 0
                              /\ CallCurrent(st.calls[c]) /\ ~st.calls[c].stopped
           /\ Holds(r, Reported(r, st), Streams!NoConsumer)
           /\ Runs(r, Reported(r, st), << >>, Reported(r, st))
           /\ Kept(r, {}, st)
<1> DEFINE st == Streams!NewState
           r == CallsFor(who, 1)
           v == Reported(r, st)
           k == Streams!NoConsumer
<1>1. OfCalls(r) /\ r.who = who /\ r.offset = 1
  BY CallsForIs
<1> HIDE DEF r
<1>2. st \in StateType
  BY NewStateIsReady DEF Ready
<1>3. ~st.thinkingStarted /\ ~st.textFinished
  BY DEF Streams!NewState
<1>4. \A c \in Call : st.calls[c] = [named |-> FALSE, arguments |-> 0, emitted |-> 0,
                                     started |-> FALSE, stopped |-> FALSE]
  BY DEF Streams!NewState, Streams!NewCall
<1> HIDE DEF st
<1>5. \A c \in Call : /\ ~st.calls[c].named /\ st.calls[c].arguments = 0
                      /\ CallCurrent(st.calls[c]) /\ ~st.calls[c].stopped /\ ~st.calls[c].started
                      /\ st.calls[c].emitted = 0
  BY <1>4 DEF CallCurrent, CallKept, CallSound, UpToDate
<1>6. Kept(r, {}, st)
  BY <1>1, <1>3, <1>5 DEF Kept, OnlyNamed, Reasoned, Streams!ToolIndexOffset
<1>7. Runs(r, v, << >>, v)
  BY NoneRuns
<1>8. Holds(r, v, k)
  <2>1. \A c \in Call : v[c].at = "none" /\ v[c].n = 0
    BY <1>2, <1>5, ReportedIs
  <2>2. v \in ViewType
    <3>1. \A c \in Call : v[c] = [at |-> "none", n |-> 0]
      BY <1>5 DEF Reported
    <3>2. v = [c \in Call |-> v[c]]
      BY DEF Reported
    <3> HIDE DEF v
    <3> QED
      BY <3>1, <3>2 DEF ViewType
  <2> HIDE DEF v
  <2>3. k.tools = << >> /\ k.out = << >> /\ IsClient(k)
    BY DEF Streams!NoConsumer, IsClient
  <2> HIDE DEF k
  <2>4. PendingAs(r, v, k.tools)
    <3>1. k.tools = [s \in DOMAIN k.tools |-> k.tools[s]] /\ DOMAIN k.tools = {}
      BY <2>3
    <3> QED
      BY <2>1, <3>1 DEF PendingAs
  <2>5. \A c \in Call : GivenAs(k.out, c, v[c])
    BY <2>1, <2>3 DEF GivenAs, Mine
  <2>6. k.out \in Seq(ClientBlock)
    BY <2>3
  <2> QED
    BY <2>2, <2>3, <2>4, <2>5, <2>6 DEF Holds
<1> HIDE DEF v, k
<1> QED
  BY <1>1, <1>2, <1>5, <1>6, <1>7, <1>8 DEF st, r, v, k

LEMMA CallsStart == Streams!Init => CallsInv
<1> SUFFICES ASSUME Streams!Init PROVE CallsInv
  OBVIOUS
<1>1. /\ state = Streams!NewState /\ events = << >> /\ progress = "reasoning" /\ ~done
      /\ consumer = Streams!NoConsumer /\ made = "none"
      /\ \A c \in Call : sent[c] = Streams!NothingSent
  BY DEF Streams!Init
<1>2. \A c \in Call : ~sent[c].named /\ sent[c].fragments = 0
  BY <1>1 DEF Streams!NothingSent
<1> DEFINE r == CallsFor(client, 1)
<1>3. FollowedBy(r)
  <2>1. NamedCalls = {}
    BY <1>2 DEF NamedCalls
  <2> QED
    BY <1>1, <2>1, NewStateIsFollowed DEF FollowedBy
<1>4. state \in StateType /\ \A c \in Call : /\ ~state.calls[c].named /\ state.calls[c].arguments = 0
                              /\ CallCurrent(state.calls[c]) /\ ~state.calls[c].stopped
  BY <1>1, NewStateIsFollowed
<1>5. ASSUME NEW c \in Call PROVE state.calls[c].named = sent[c].named
  <2>1. state.calls[c] = Streams!NewCall /\ sent[c] = Streams!NothingSent
    BY <1>1 DEF Streams!NewState
  <2> QED
    BY <2>1 DEF Streams!NothingSent, Streams!NewCall
<1>6. events \in Seq(EventType)
  BY <1>1
<1> HIDE DEF r
<1> QED
  BY <1>1, <1>2, <1>3, <1>4, <1>5, <1>6 DEF CallsInv

LEMMA CallsNewStream ==
    Streams!NewStream /\ UNCHANGED client /\ made' # "message" => CallsInv'
<1> SUFFICES ASSUME Streams!NewStream, client' = client, made' # "message" PROVE CallsInv'
  OBVIOUS
<1>1. /\ state' = Streams!NewState /\ events' = << >> /\ progress' = "reasoning" /\ ~done'
      /\ consumer' = Streams!NoConsumer
      /\ \A c \in Call : sent'[c] = Streams!NothingSent
  BY DEF Streams!NewStream
<1>2. \A c \in Call : ~sent'[c].named /\ sent'[c].fragments = 0
  BY <1>1 DEF Streams!NothingSent
<1> DEFINE r == CallsFor(client, 1)
<1>3. FollowedBy(r)'
  <2>1. NamedCalls' = {}
    BY <1>2 DEF NamedCalls
  <2> QED
    BY <1>1, <2>1, NewStateIsFollowed DEF FollowedBy
<1>4. state' \in StateType /\ \A c \in Call : /\ ~state'.calls[c].named /\ state'.calls[c].arguments = 0
                              /\ CallCurrent(state'.calls[c]) /\ ~state'.calls[c].stopped
  BY <1>1, NewStateIsFollowed
<1>5. ASSUME NEW c \in Call PROVE state'.calls[c].named = sent'[c].named
  <2>1. state'.calls[c] = Streams!NewCall /\ sent'[c] = Streams!NothingSent
    BY <1>1 DEF Streams!NewState
  <2> QED
    BY <2>1 DEF Streams!NothingSent, Streams!NewCall
<1>6. events' \in Seq(EventType)
  BY <1>1
<1> QED
  BY <1>1, <1>2, <1>3, <1>4, <1>5, <1>6 DEF CallsInv

LEMMA CallsChunk == CallsInv /\ Streams!ReceiveChunk => CallsInv'
<1> SUFFICES ASSUME CallsInv, Streams!ReceiveChunk PROVE CallsInv'
  OBVIOUS
<1>1. PICK chunk \in Streams!Chunk :
          /\ Streams!MaySend(chunk)
          /\ state' = Streams!IngestChunk(state, chunk).st
          /\ events' = Streams!IngestChunk(state, chunk).events
          /\ sent' = Streams!SentWith(chunk) /\ lateness' = Streams!LateWith(chunk)
          /\ progress' = IF progress = "finished" \/ chunk.finish # "none" THEN "finished"
                         ELSE IF chunk.text \/ chunk.tools # << >> THEN "content"
                         ELSE progress
  BY DEF Streams!ReceiveChunk
<1>2. /\ events = << >> /\ ~done /\ ~done' /\ made = "none" /\ made' = made /\ client' = client
      /\ consumer' = consumer
  BY DEF Streams!ReceiveChunk, Streams!Waits
<1>3. progress' \in {"reasoning", "content", "finished"}
  BY <1>1 DEF CallsInv
<1>4. SUFFICES ASSUME Followed'
               PROVE  /\ state' \in StateType /\ events' \in Seq(EventType)
                      /\ \A c \in Call : /\ state'.calls[c].named = sent'[c].named
                                         /\ state'.calls[c].arguments = sent'[c].fragments
                                         /\ CallCurrent(state'.calls[c])
                                         /\ state'.calls[c].stopped => progress' = "finished"
                      /\ \E r : FollowedBy(r)'
  BY <1>2, <1>3 DEF CallsInv
<1> DEFINE mine(c) == {i \in DOMAIN chunk.tools : chunk.tools[i].index = c}
<1>5. \A c \in Call :
          /\ sent'[c].named = (sent[c].named \/ \E i \in mine(c) : chunk.tools[i].name)
          /\ sent'[c].fragments
                 = sent[c].fragments + Cardinality({i \in mine(c) : chunk.tools[i].fragments = 1})
  <2> SUFFICES ASSUME NEW c \in Call
               PROVE  /\ sent'[c].named = (sent[c].named \/ \E i \in mine(c) : chunk.tools[i].name)
                      /\ sent'[c].fragments
                             = sent[c].fragments
                                   + Cardinality({i \in mine(c) : chunk.tools[i].fragments = 1})
    OBVIOUS
  <2> DEFINE named == sent[c].named \/ \E i \in mine(c) : chunk.tools[i].name
             fragments == sent[c].fragments
                              + Cardinality({i \in mine(c) : chunk.tools[i].fragments = 1})
  <2>1. sent'[c] = [named |-> named, fragments |-> fragments]
    BY <1>1 DEF Streams!SentWith, Streams!Cardinality, Cardinality
  <2> HIDE DEF named, fragments
  <2>2. sent'[c].named = named /\ sent'[c].fragments = fragments
    BY <2>1
  <2> QED
    BY <2>2 DEF named, fragments
<1>6. NamedCalls \subseteq NamedCalls'
  BY <1>5 DEF NamedCalls
<1>7. Followed
  <2>1. lateness \subseteq lateness'
    BY <1>1 DEF Streams!LateWith
  <2> QED
    BY <1>2, <1>4, <1>6, <2>1 DEF Followed
<1>8. /\ state \in StateType
      /\ \A c \in Call : /\ state.calls[c].named = sent[c].named
                         /\ state.calls[c].arguments = sent[c].fragments
                         /\ CallCurrent(state.calls[c])
                         /\ state.calls[c].stopped => progress = "finished"
  BY <1>2, <1>7 DEF CallsInv
<1>9. PICK r : FollowedBy(r)
  BY <1>7 DEF CallsInv
<1>10. OfCalls(r) /\ r.who = client /\ Kept(r, NamedCalls, state)
  BY <1>2, <1>9 DEF FollowedBy
<1>11. Holds(r, Reported(r, state), consumer)
  BY <1>2, <1>9, NothingRuns DEF FollowedBy
<1> DEFINE m == NamedCalls'
           offset == IF state.thinkingStarted \/ chunk.thinking THEN 2 ELSE 1
           y == Streams!IngestChunk(state, chunk)
<1> PICK q : q = CallsFor(client, offset)
  OBVIOUS
<1>12. OfCalls(q) /\ q.who = client /\ q.offset = offset
  <2>1. offset \in {1, 2}
    OBVIOUS
  <2> HIDE DEF offset
  <2> QED
    BY <2>1, CallsForIs
<1>13. chunk.thinking /\ ~state.thinkingStarted => \A c \in Call : ~state.calls[c].named
  <2>1. "after_calls" \notin lateness'
    BY <1>4 DEF Followed
  <2> QED
    BY <1>1, <1>8, <2>1 DEF Streams!LateWith, Streams!Late
<1>14. Reported(q, state) = Reported(r, state)
  BY <1>10, <1>12 DEF Reported
<1>15. Holds(q, Reported(q, state), consumer)
  <2>1. CASE q.offset = r.offset
    <3>1. \A c : PlaceOf(q, c) = PlaceOf(r, c)
      BY <1>10, <1>12, <2>1 DEF PlaceOf
    <3> DEFINE v == Reported(q, state)
    <3> HIDE DEF v
    <3>2. Holds(r, v, consumer)
      BY <1>11, <1>14 DEF v
    <3>3. PendingAs(q, v, consumer.tools)
      BY <3>1, <3>2 DEF Holds, PendingAs
    <3>4. Holds(q, v, consumer)
      BY <3>2, <3>3 DEF Holds
    <3> QED
      BY <3>4 DEF v
  <2>2. CASE q.offset # r.offset
    <3>1. chunk.thinking /\ ~state.thinkingStarted
      BY <1>10, <1>12, <2>2 DEF Kept, Streams!ToolIndexOffset
    <3>2. \A c \in Call : ~state.calls[c].started
      BY <1>8, <1>13, <3>1 DEF CallCurrent, CallKept
    <3>3. \A c \in Call : Reported(q, state)[c].at # "open"
      BY <1>8, <3>2, ReportedIs
    <3> QED
      BY <1>11, <1>14, <3>3, MovedHolds
  <2> QED
    BY <2>1, <2>2
<1>16. \A i, j \in DOMAIN chunk.tools : j < i => chunk.tools[j].index # chunk.tools[i].index
  <2>1. DOMAIN chunk.tools \in SUBSET (Nat \ {0})
    BY ToolsAreNumbered
  <2>2. ASSUME NEW i \in DOMAIN chunk.tools, NEW j \in DOMAIN chunk.tools, j < i
        PROVE  chunk.tools[j].index # chunk.tools[i].index
    <3>1. j \in 1..(i - 1)
      BY <2>1, <2>2
    <3> QED
      BY <1>1, <3>1 DEF Streams!MaySend
  <2> QED
    BY <2>2
<1>17. chunk.tools # << >> => \A c \in Call : ~state.calls[c].stopped
  BY <1>1, <1>8 DEF Streams!MaySend
<1>18. \A i \in DOMAIN chunk.tools : chunk.tools[i].name => chunk.tools[i].index \in m
  BY <1>5, ToolsAreNumbered DEF NamedCalls
<1>19. OnlyNamed(q, m, state)
  <2>1. \A c \in Call : state.calls[c].named => c \in m
    BY <1>6, <1>8 DEF NamedCalls
  <2>2. q.who = "cli" => \A c, d \in m : c = d
    BY <1>2, <1>4, <1>12 DEF Followed
  <2> HIDE DEF m
  <2> QED
    BY <2>1, <2>2 DEF OnlyNamed
<1> HIDE DEF m
<1>20. Reasoned(state) /\ ~state.textFinished
  BY <1>10 DEF Kept
<1>21. ChunkTaken(q, m, state, chunk, y)
  BY <1>8, <1>12, <1>13, <1>16, <1>17, <1>18, <1>19, <1>20, ReportsChunk
<1>22. state' = y.st /\ events' = y.events
  BY <1>1
<1> HIDE DEF y, offset
<1>23. state' \in StateType /\ events' \in Seq(EventType)
       /\ Runs(q, Reported(q, state), events', Reported(q, state'))
  BY <1>21, <1>22 DEF ChunkTaken, Reports, Told
<1>24. FollowedBy(q)'
  BY <1>2, <1>12, <1>15, <1>21, <1>22, <1>23 DEF FollowedBy, m, ChunkTaken
<1>25. \A c \in Call : /\ state'.calls[c].named = sent'[c].named
                       /\ state'.calls[c].arguments = sent'[c].fragments
  BY <1>5, <1>8, <1>21, <1>22 DEF ChunkTaken
<1>26. \A c \in Call : CallCurrent(state'.calls[c])
  BY <1>21, <1>22 DEF ChunkTaken, Kept
<1>27. \A c \in Call : state'.calls[c].stopped => progress' = "finished"
  BY <1>1, <1>8, <1>21, <1>22 DEF ChunkTaken
<1> QED
  BY <1>23, <1>24, <1>25, <1>26, <1>27

LEMMA CallsEnd == CallsInv /\ Streams!BodyEnds => CallsInv'
<1> SUFFICES ASSUME CallsInv, Streams!BodyEnds PROVE CallsInv'
  OBVIOUS
<1> DEFINE y == Streams!FinishStream(state)
<1>1. /\ events = << >> /\ ~done /\ done' /\ made' = made /\ made = "none" /\ lateness' = lateness
      /\ progress' = progress /\ state' = y.st /\ events' = y.events /\ sent' = sent
      /\ client' = client /\ consumer' = consumer
  BY DEF Streams!BodyEnds, Streams!Waits
<1>2. Followed' = Followed
  BY <1>1 DEF Followed, NamedCalls
<1>3. ASSUME Followed
      PROVE  /\ state' \in StateType /\ events' \in Seq(EventType)
             /\ \A c \in Call : /\ state'.calls[c].named = sent[c].named
                                /\ state'.calls[c].arguments = sent[c].fragments
                                /\ CallCurrent(state'.calls[c])
                                /\ state'.calls[c].started => state'.calls[c].stopped
             /\ \E r : FollowedBy(r)'
  <2>1. /\ state \in StateType
        /\ \A c \in Call : /\ state.calls[c].named = sent[c].named
                           /\ state.calls[c].arguments = sent[c].fragments
    BY <1>3 DEF CallsInv
  <2>2. PICK r : FollowedBy(r)
    BY <1>3 DEF CallsInv
  <2>3. OfCalls(r) /\ r.who = client /\ Kept(r, NamedCalls, state)
    BY <1>1, <2>2 DEF FollowedBy
  <2>4. Holds(r, Reported(r, state), consumer)
    BY <1>1, <2>2, NothingRuns DEF FollowedBy
  <2>5. /\ Reports(r, Reported(r, state), y)
        /\ \A c \in Call : /\ y.st.calls[c].named = state.calls[c].named
                           /\ y.st.calls[c].arguments = state.calls[c].arguments
                           /\ CallCurrent(y.st.calls[c])
                           /\ y.st.calls[c].started => y.st.calls[c].stopped
    BY <2>1, <2>3, ReportsEnd
  <2> HIDE DEF y
  <2>6. state' \in StateType /\ events' \in Seq(EventType)
        /\ Runs(r, Reported(r, state), events', Reported(r, state'))
    BY <1>1, <2>5 DEF Reports, Told
  <2>7. FollowedBy(r)'
    BY <1>1, <2>3, <2>4, <2>6 DEF FollowedBy
  <2>8. \A c \in Call : /\ state'.calls[c].named = sent[c].named
                        /\ state'.calls[c].arguments = sent[c].fragments
                        /\ CallCurrent(state'.calls[c])
                        /\ state'.calls[c].started => state'.calls[c].stopped
    BY <1>1, <2>1, <2>5
  <2> QED
    BY <2>6, <2>7, <2>8
<1> HIDE DEF y
<1> QED
  BY <1>1, <1>2, <1>3 DEF CallsInv

LEMMA CallsEvent == CallsInv /\ Streams!NextEvent => CallsInv'
<1> SUFFICES ASSUME CallsInv, Streams!NextEvent PROVE CallsInv'
  OBVIOUS
<1> DEFINE e == Head(events)
<1>1. /\ events # << >> /\ events' = Tail(events) /\ consumer' = Streams!Consume(consumer, e)
      /\ state' = state /\ done' = done /\ lateness' = lateness /\ progress' = progress
      /\ sent' = sent /\ client' = client /\ made' = made
  BY DEF Streams!NextEvent
<1>2. Followed' = Followed /\ NamedCalls' = NamedCalls
  BY <1>1 DEF Followed, NamedCalls
<1>3. ASSUME Followed PROVE events' \in Seq(EventType) /\ \E r : FollowedBy(r)'
  <2>1. events \in Seq(EventType)
    BY <1>3 DEF CallsInv
  <2>2. e \in EventType /\ Tail(events) \in Seq(EventType)
    BY <1>1, <2>1
  <2>3. PICK r : FollowedBy(r)
    BY <1>3 DEF CallsInv
  <2>4. PICK v : Holds(r, v, consumer) /\ Runs(r, v, events, Reported(r, state))
    BY <2>3 DEF FollowedBy
  <2>5. OfCalls(r) /\ r.who = client /\ (~done => Kept(r, NamedCalls, state))
    BY <2>3 DEF FollowedBy
  <2>6. FitsIn(r, v, e) /\ Runs(r, After(r, v, e), Tail(events), Reported(r, state))
    BY <1>1, <2>1, <2>4, FirstRuns
  <2> HIDE DEF e
  <2>7. CallFits(r, v, e) /\ After(r, v, e) = CallAfter(r, v, e)
    BY <2>5, <2>6 DEF FitsIn, After, OfCalls
  <2>8. Holds(r, CallAfter(r, v, e), Streams!Consume(consumer, e))
    BY <2>2, <2>4, <2>5, <2>7, EventHolds
  <2>9. FollowedBy(r)'
    BY <1>1, <1>2, <2>5, <2>6, <2>7, <2>8 DEF FollowedBy
  <2> QED
    BY <1>1, <2>2, <2>9
<1> HIDE DEF e
<1>4. made' # "message"
  BY <1>1 DEF CallsInv
<1> QED
  BY <1>1, <1>2, <1>3, <1>4 DEF CallsInv

LEMMA CallsStay ==
    CallsInv /\ UNCHANGED <<client, state, events, done, consumer, sent, progress, lateness>>
             /\ (made' = "message" => made = "message" \/ (done /\ events = << >>))
    => CallsInv'
<1> SUFFICES ASSUME CallsInv,
                    UNCHANGED <<client, state, events, done, consumer, sent, progress, lateness>>,
                    made' = "message" => made = "message" \/ (done /\ events = << >>)
             PROVE  CallsInv'
  OBVIOUS
<1>1. Followed' = Followed /\ NamedCalls' = NamedCalls
  BY DEF Followed, NamedCalls
<1>2. \A r : FollowedBy(r) => FollowedBy(r)'
  BY <1>1 DEF FollowedBy
<1> QED
  BY <1>1, <1>2 DEF CallsInv

LEMMA CallsStep == CallsInv /\ [EachNext]_eachVars => CallsInv'
<1> SUFFICES ASSUME CallsInv, [EachNext]_eachVars PROVE CallsInv'
  OBVIOUS
<1> DEFINE Same == UNCHANGED <<client, state, events, done, consumer, sent, progress, lateness>>
<1>1. Same /\ (made' = "message" => made = "message" \/ (done /\ events = << >>)) => CallsInv'
  BY CallsStay
<1>2. CASE UNCHANGED eachVars
  <2>1. Same /\ made' = made
    BY <1>2 DEF eachVars, streamVars
  <2> QED
    BY <1>1, <2>1
<1>3. CASE subject \in {"loop", "trident"} /\ UNCHANGED streamVars
  <2>1. Same /\ made' = made
    BY <1>3 DEF streamVars
  <2> QED
    BY <1>1, <2>1
<1>4. CASE Streams!EachNext
  <2>1. CASE Streams!Next
    <3>1. CASE Streams!ReceiveChunk
      BY <3>1, CallsChunk
    <3>2. CASE Streams!BodyEnds
      BY <3>2, CallsEnd
    <3>3. CASE Streams!BodyBreaks
      <4>1. CASE Streams!NewStream
        <5>1. client' = client /\ made' # "message"
          BY <3>3 DEF Streams!BodyBreaks, Streams!Waits
        <5> QED
          BY <4>1, <5>1, CallsNewStream
      <4>2. CASE Same /\ made' = "error"
        BY <1>1, <4>2
      <4> QED
        BY <3>3, <4>1, <4>2 DEF Streams!BodyBreaks, Streams!streamVars
    <3>4. CASE Streams!Stalls
      <4>1. client' = client /\ made' # "message" /\ Streams!NewStream
        BY <3>4 DEF Streams!Stalls, Streams!Waits
      <4> QED
        BY <4>1, CallsNewStream
    <3>5. CASE Streams!NextEvent
      BY <3>5, CallsEvent
    <3>6. CASE Streams!StreamEnds
      <4>1. Same /\ done /\ events = << >>
        BY <3>6 DEF Streams!StreamEnds, Streams!streamVars
      <4> QED
        BY <1>1, <4>1
    <3> QED
      BY <2>1, <3>1, <3>2, <3>3, <3>4, <3>5, <3>6 DEF Streams!Next
  <2>2. CASE UNCHANGED Streams!vars
    <3>1. Same /\ made' = made
      BY <2>2 DEF Streams!vars, Streams!streamVars
    <3> QED
      BY <1>1, <3>1
  <2> QED
    BY <1>4, <2>1, <2>2 DEF Streams!EachNext
<1> QED
  BY <1>2, <1>3, <1>4 DEF EachNext

LEMMA CallsSafe == CallsInv => ToolCallsSurvive
<1> SUFFICES ASSUME CallsInv, made = "message", "after_calls" \notin lateness,
                    client = "cli" => Cardinality(NamedCalls) <= 1, NEW c \in Call
             PROVE  Streams!Delivered(c)
  BY DEF ToolCallsSurvive, Streams!ToolCallsSurvive, NamedCalls, Streams!Cardinality, Cardinality
<1>1. Followed
  <2>1. IsFiniteSet(NamedCalls)
    BY CallsAreNumbers, FS_Subset DEF NamedCalls
  <2>2. ASSUME Cardinality(NamedCalls) <= 1, NEW a \in NamedCalls, NEW b \in NamedCalls PROVE a = b
    <3>1. Cardinality(NamedCalls) = 1
      <4>1. Cardinality(NamedCalls) \in Nat /\ Cardinality(NamedCalls) # 0
        BY <2>1, FS_CardinalityType, FS_EmptySet
      <4> QED
        BY <2>2, <4>1
    <3>2. \E x : NamedCalls = {x}
      BY <2>1, <3>1, FS_Singleton
    <3> QED
      BY <3>2
  <2> QED
    BY <2>2 DEF Followed
<1>2. /\ done /\ events = << >> /\ state \in StateType
      /\ state.calls[c].named = sent[c].named /\ state.calls[c].arguments = sent[c].fragments
      /\ CallCurrent(state.calls[c]) /\ (state.calls[c].started => state.calls[c].stopped)
  BY <1>1 DEF CallsInv
<1>3. PICK r : FollowedBy(r)
  BY <1>1 DEF CallsInv
<1> DEFINE v == Reported(r, state)
<1>4. Holds(r, v, consumer)
  BY <1>2, <1>3, NothingRuns DEF FollowedBy
<1>5. GivenAs(consumer.out, c, v[c])
  BY <1>4 DEF Holds
<1>6. /\ v[c].n = state.calls[c].emitted
      /\ v[c].at = "done" <=> state.calls[c].started
  BY <1>2, ReportedIs
<1> HIDE DEF v
<1> DEFINE mine == Mine(consumer.out, c)
<1>7. Streams!Delivered(c) <=> /\ Cardinality(mine) = (IF sent[c].named THEN 1 ELSE 0)
                               /\ \A i \in mine : consumer.out[i].input = Streams!ArgumentsOf(c)
  BY DEF Streams!Delivered, Mine, Streams!Cardinality, Cardinality
<1> HIDE DEF mine
<1>8. CASE sent[c].named
  <2>1. v[c].at = "done" /\ v[c].n = sent[c].fragments
    BY <1>2, <1>6, <1>8 DEF CallCurrent, UpToDate
  <2>2. PICK i : mine = {i} /\ consumer.out[i].input = FirstOf(c, v[c].n)
    BY <1>5, <2>1 DEF GivenAs, mine
  <2>3. FirstOf(c, v[c].n) = Streams!ArgumentsOf(c)
    BY <2>1 DEF FirstOf, Streams!ArgumentsOf
  <2>4. Cardinality(mine) = 1
    BY <2>2, FS_Singleton
  <2> QED
    BY <1>8, <1>7, <2>2, <2>3, <2>4
<1>9. CASE ~sent[c].named
  <2>1. v[c].at # "done"
    BY <1>2, <1>6, <1>9 DEF CallCurrent, CallKept
  <2>2. mine = {}
    BY <1>5, <2>1 DEF GivenAs, mine
  <2>3. Cardinality(mine) = 0
    BY <2>2, FS_EmptySet
  <2> QED
    BY <1>9, <1>7, <2>2, <2>3
<1> QED
  BY <1>8, <1>9

\* The assistant message holds each call the provider named, once, with the
\* arguments sent for it and no other: for any number of calls, in any order,
\* in whatever chunks and fragments, what StreamState (openai_compat.rs) and
\* the client that puts its events together (consume_stream,
\* stream_with_provider) make of a provider's deltas.  As in the run, the
\* program is promised one call, and reasoning begins before the calls.
THEOREM CallsArriveWhole == EachSpec => []ToolCallsSurvive
<1>1. EachInit => CallsInv
  BY CallsStart DEF EachInit, Streams!EachInit
<1>2. CallsInv /\ [EachNext]_eachVars => CallsInv'
  BY CallsStep
<1>3. CallsInv => ToolCallsSurvive
  BY CallsSafe
<1> QED
  BY <1>1, <1>2, <1>3, PTL DEF EachSpec
----------------------------------------------------------------------------
(* IV. Trident                                                              *)

\* The members of a set of positions up to one of them: as many as its rank.
UpTo(S, i) == {j \in S : j <= i}

LEMMA Ranks ==
    ASSUME NEW S \in SUBSET Nat, IsFiniteSet(S)
    PROVE  /\ Cardinality(S) \in Nat
           /\ \A i \in S : Cardinality(UpTo(S, i)) \in 1..Cardinality(S)
           /\ \A i, j \in S : i < j => Cardinality(UpTo(S, i)) < Cardinality(UpTo(S, j))
           /\ \A k \in 1..Cardinality(S) : \E i \in S : Cardinality(UpTo(S, i)) = k
<1>1. /\ Cardinality(S) \in Nat
      /\ \A s \in SUBSET S : IsFiniteSet(s) /\ Cardinality(s) \in 0..Cardinality(S)
  <2>1. Cardinality(S) \in Nat
    BY FS_CardinalityType
  <2>2. ASSUME NEW s \in SUBSET S PROVE IsFiniteSet(s) /\ Cardinality(s) \in 0..Cardinality(S)
    <3>1. IsFiniteSet(s) /\ Cardinality(s) <= Cardinality(S)
      BY FS_Subset
    <3>2. Cardinality(s) \in Nat
      BY <3>1, FS_CardinalityType
    <3> QED
      BY <2>1, <3>1, <3>2
  <2> QED
    BY <2>1, <2>2
<1>2. ASSUME NEW i \in S PROVE Cardinality(UpTo(S, i)) \in 1..Cardinality(S)
  <2>1. UpTo(S, i) \in SUBSET S /\ UpTo(S, i) # {}
    BY DEF UpTo
  <2>2. Cardinality(UpTo(S, i)) # 0
    BY <1>1, <2>1, FS_EmptySet
  <2> QED
    BY <1>1, <2>1, <2>2
<1>3. ASSUME NEW i \in S, NEW j \in S, i < j
      PROVE  Cardinality(UpTo(S, i)) < Cardinality(UpTo(S, j))
  <2> S \in SUBSET Nat /\ i \in Nat /\ j \in Nat
    OBVIOUS
  <2>1. UpTo(S, i) \in SUBSET UpTo(S, j) /\ j \in UpTo(S, j) \ UpTo(S, i)
    <3>1. (\A x \in S : x <= i => x <= j) /\ j <= j /\ ~(j <= i)
      BY <1>3
    <3> QED
      BY <3>1, Zenon DEF UpTo
  <2>2. UpTo(S, j) \in SUBSET S
    BY DEF UpTo
  <2>3. IsFiniteSet(UpTo(S, j)) /\ UpTo(S, i) # UpTo(S, j)
    BY <1>1, <2>1, <2>2
  <2>4. /\ Cardinality(UpTo(S, i)) <= Cardinality(UpTo(S, j))
        /\ Cardinality(UpTo(S, i)) = Cardinality(UpTo(S, j)) => UpTo(S, i) = UpTo(S, j)
    BY <2>1, <2>3, FS_Subset
  <2> QED
    BY <1>2, <2>3, <2>4
<1> DEFINE Full(s) == \A k \in 1..Cardinality(s) : \E i \in s : Cardinality(UpTo(s, i)) = k
           T == {n \in Nat : \A s \in SUBSET S : Cardinality(s) = n => Full(s)}
<1>4. 0 \in T
  OBVIOUS
<1>5. ASSUME NEW n \in T PROVE n + 1 \in T
  <2>1. n \in Nat /\ \A s \in SUBSET S : Cardinality(s) = n => Full(s)
    OBVIOUS
  <2>2. ASSUME NEW s \in SUBSET S, Cardinality(s) = n + 1, NEW k \in 1..Cardinality(s)
        PROVE  \E i \in s : Cardinality(UpTo(s, i)) = k
    <3> DEFINE m == Greatest(s)
               r == s \ {m}
    <3>1. s # {}
      BY <2>1, <2>2, FS_EmptySet
    <3>2. m \in s /\ (\A y \in s : m >= y) /\ r \in SUBSET S /\ Cardinality(r) = n
      BY <2>1, <2>2, <3>1, GreatestIn, OneLess
    <3> HIDE DEF m
    <3>3. CASE k = n + 1
      <4>1. UpTo(s, m) = s
        BY <3>2 DEF UpTo
      <4> QED
        BY <2>2, <3>2, <3>3, <4>1
    <3>4. CASE k # n + 1
      <4>1. k \in 1..Cardinality(r)
        BY <2>1, <2>2, <3>2, <3>4
      <4>2. PICK i \in r : Cardinality(UpTo(r, i)) = k
        BY <2>1, <3>2, <4>1
      <4>3. i \in Nat /\ m \in Nat /\ m > i
        BY <3>2
      <4>4. UpTo(s, i) = UpTo(r, i)
        BY <4>3 DEF UpTo
      <4> QED
        BY <4>2, <4>4
    <3> QED
      BY <3>3, <3>4
  <2> QED
    BY <2>1, <2>2
<1>6. T = Nat
  <2> HIDE DEF T
  <2> QED
    BY <1>4, <1>5, AllNaturals DEF T
<1>7. Full(S)
  BY <1>1, <1>6
<1> QED
  BY <1>1, <1>2, <1>3, <1>7

\* One sequence takes its members from another, in the order they have there.
Takes(e, new, old) ==
    /\ e \in [DOMAIN new -> DOMAIN old]
    /\ \A j, k \in DOMAIN new : j < k => e[j] < e[k]

LEMMA PickTakes ==
    ASSUME NEW M, NEW s \in Seq(M), NEW P
    PROVE  LET new == Rounds!Pick(s, P) IN
           /\ new \in Seq(M)
           /\ \E e : /\ Takes(e, new, s)
                     /\ \A k \in DOMAIN new : e[k] \in P /\ new[k] = s[e[k]]
                     /\ \A i \in P \cap DOMAIN s : \E k \in DOMAIN new : e[k] = i
<1> DEFINE there == P \cap DOMAIN s
           n == Cardinality(there)
           e == Rounds!InOrder(s, P)
           new == Rounds!Pick(s, P)
<1>1. DOMAIN s = 1..Len(s) /\ Len(s) \in Nat
  OBVIOUS
<1>2. there \in SUBSET Nat /\ IsFiniteSet(there)
  <2>1. IsFiniteSet(DOMAIN s)
    BY <1>1, FS_Interval
  <2> QED
    BY <1>1, <2>1, FS_Subset
<1>3. e = [k \in 1..n |-> CHOOSE i \in there : Cardinality(UpTo(there, i)) = k]
  BY DEF Rounds!InOrder, UpTo, Rounds!Cardinality, Cardinality
<1> HIDE DEF there, e
<1>4. /\ n \in Nat
      /\ \A i \in there : Cardinality(UpTo(there, i)) \in 1..n
      /\ \A i, j \in there : i < j => Cardinality(UpTo(there, i)) < Cardinality(UpTo(there, j))
      /\ \A k \in 1..n : \E i \in there : Cardinality(UpTo(there, i)) = k
  BY <1>2, Ranks
<1>5. \A k \in 1..n : e[k] \in there /\ Cardinality(UpTo(there, e[k])) = k
  <2> TAKE k \in 1..n
  <2>1. e[k] = CHOOSE i \in there : Cardinality(UpTo(there, i)) = k
    BY <1>3
  <2> QED
    BY <1>4, <2>1
<1> HIDE DEF n
<1>6. DOMAIN e = 1..n /\ Len(e) = n
  BY <1>3, <1>4
<1>7. new = [k \in 1..n |-> s[e[k]]]
  BY <1>6 DEF Rounds!Pick, e
<1> HIDE DEF new
<1>8. \A k \in 1..n : e[k] \in P /\ e[k] \in DOMAIN s /\ new[k] = s[e[k]] /\ s[e[k]] \in M
  BY <1>1, <1>5, <1>7 DEF there
<1>9. DOMAIN new = 1..n /\ new \in Seq(M)
  BY <1>4, <1>7, <1>8
<1>10. ASSUME NEW j \in 1..n, NEW k \in 1..n, j < k PROVE e[j] < e[k]
  <2>1. e[j] \in there /\ e[k] \in there /\ e[j] \in Nat /\ e[k] \in Nat
    BY <1>2, <1>5
  <2>2. ~(e[k] < e[j]) /\ e[k] # e[j]
    BY <1>4, <1>5, <1>10, <2>1
  <2> QED
    BY <2>1, <2>2
<1>11. ASSUME NEW i \in there PROVE \E k \in 1..n : e[k] = i
  <2> DEFINE k == Cardinality(UpTo(there, i))
  <2>1. k \in 1..n
    BY <1>4
  <2>2. e[k] \in there /\ Cardinality(UpTo(there, e[k])) = k
    BY <1>5, <2>1
  <2> HIDE DEF k
  <2>3. e[k] = i
    <3>1. e[k] \in Nat /\ i \in Nat
      BY <1>2, <2>2
    <3>2. ~(e[k] < i) /\ ~(i < e[k])
      <4>1. k = Cardinality(UpTo(there, i))
        BY DEF k
      <4> QED
        BY <1>4, <2>2, <4>1
    <3> QED
      BY <3>1, <3>2
  <2> QED
    BY <2>1, <2>3
<1>12. Takes(e, new, s)
  BY <1>6, <1>8, <1>9, <1>10, <1>3 DEF Takes
<1> QED
  BY <1>8, <1>9, <1>11, <1>12 DEF new, there

LEMMA TakesFirst ==
    ASSUME NEW M, NEW new \in Seq(M), NEW old \in Seq(M), NEW e, Takes(e, new, old),
           NEW k \in DOMAIN new, e[k] = 1
    PROVE  k = 1
<1>1. /\ DOMAIN new = 1..Len(new) /\ DOMAIN old = 1..Len(old) /\ Len(new) \in Nat /\ Len(old) \in Nat
  OBVIOUS
<1>2. k # 1 => 1 \in DOMAIN new /\ 1 < k
  BY <1>1
<1>3. 1 \in DOMAIN new => e[1] \in 1..Len(old)
  BY <1>1 DEF Takes
<1> QED
  BY <1>1, <1>2, <1>3 DEF Takes

\* A summary is the message in front.
OnlyInFront(s) ==
    \A i \in DOMAIN s : s[i].summary => i = 1 /\ s[i].role = "system" /\ s[i].uses = << >>

\* What a stage leaves of a transcript: some of it, in its order, and markers.
Leaves(new, old) ==
    /\ OnlyInFront(new)
    /\ Rounds!PrefixLen(new) = Rounds!PrefixLen(old)
    /\ \E e : Takes(e, new, old) /\ \A k \in DOMAIN new : new[k] \in {old[e[k]], Rounds!Marker}

LEMMA MarkerType == Rounds!Marker \in Rounds!Message /\ ~Rounds!Marker.summary
  BY DEF Rounds!Marker, Rounds!SystemText, Rounds!Message, Rounds!Role, Rounds!NoId

LEMMA PrefixIs ==
    ASSUME NEW s \in Seq(Rounds!Message), OnlyInFront(s)
    PROVE  Rounds!PrefixLen(s) = IF 1 \in DOMAIN s /\ s[1].summary THEN 1 ELSE 0
<1>1. s # << >> <=> 1 \in DOMAIN s
  OBVIOUS
<1>2. 1 \in DOMAIN s => s[1].summary \in BOOLEAN
  <2>1. 1 \in DOMAIN s => s[1] \in Rounds!Message
    OBVIOUS
  <2> QED
    BY <2>1 DEF Rounds!Message
<1> QED
  BY <1>1, <1>2 DEF Rounds!PrefixLen, OnlyInFront

LEMMA SelfLeaves ==
    ASSUME NEW s \in Seq(Rounds!Message), OnlyInFront(s)
    PROVE  Leaves(s, s)
<1>1. DOMAIN s \in SUBSET Nat
  OBVIOUS
<1> DEFINE e == [k \in DOMAIN s |-> k]
<1>2. Takes(e, s, s) /\ \A k \in DOMAIN s : s[k] \in {s[e[k]], Rounds!Marker}
  BY DEF Takes
<1> QED
  BY <1>2 DEF Leaves

LEMMA BothLeave ==
    ASSUME NEW a, NEW b, NEW c, Leaves(b, a), Leaves(c, b)
    PROVE  Leaves(c, a)
<1>1. PICK d : Takes(d, b, a) /\ \A k \in DOMAIN b : b[k] \in {a[d[k]], Rounds!Marker}
  BY DEF Leaves
<1>2. PICK e : Takes(e, c, b) /\ \A k \in DOMAIN c : c[k] \in {b[e[k]], Rounds!Marker}
  BY DEF Leaves
<1> DEFINE f == [k \in DOMAIN c |-> d[e[k]]]
<1>3. \A k \in DOMAIN c : e[k] \in DOMAIN b /\ f[k] = d[e[k]] /\ f[k] \in DOMAIN a
  BY <1>1, <1>2 DEF Takes
<1>4. f \in [DOMAIN c -> DOMAIN a]
  BY <1>3
<1>5. \A j, k \in DOMAIN c : j < k => f[j] < f[k]
  BY <1>1, <1>2, <1>3 DEF Takes
<1>6. \A k \in DOMAIN c : c[k] \in {a[f[k]], Rounds!Marker}
  BY <1>1, <1>2, <1>3
<1>7. Takes(f, c, a)
  BY <1>4, <1>5 DEF Takes
<1> QED
  BY <1>6, <1>7 DEF Leaves

\* The stages replace messages by markers and drop messages, but not a summary.
LEMMA MarkedLeaves ==
    ASSUME NEW old \in Seq(Rounds!Message), OnlyInFront(old), NEW P, NEW marked,
           \A i \in DOMAIN old : old[i].summary => i \in P /\ i \notin marked
    PROVE  LET new == Rounds!PickMarked(old, P, marked) IN
           new \in Seq(Rounds!Message) /\ Leaves(new, old)
<1> DEFINE s == [i \in DOMAIN old |-> IF i \in marked THEN Rounds!Marker ELSE old[i]]
           new == Rounds!Pick(s, P)
<1>1. s \in Seq(Rounds!Message) /\ DOMAIN s = DOMAIN old
  BY MarkerType
<1>2. \A i \in DOMAIN old : s[i] \in {old[i], Rounds!Marker} /\ (i \notin marked => s[i] = old[i])
  OBVIOUS
<1> HIDE DEF s
<1>3. /\ new \in Seq(Rounds!Message)
      /\ \E e : /\ Takes(e, new, s)
                /\ \A k \in DOMAIN new : e[k] \in P /\ new[k] = s[e[k]]
                /\ \A i \in P \cap DOMAIN s : \E k \in DOMAIN new : e[k] = i
  BY <1>1, PickTakes
<1>4. PICK e : /\ Takes(e, new, s)
               /\ \A k \in DOMAIN new : e[k] \in P /\ new[k] = s[e[k]]
               /\ \A i \in P \cap DOMAIN s : \E k \in DOMAIN new : e[k] = i
  BY <1>3
<1> HIDE DEF new
<1>5. Takes(e, new, old) /\ \A k \in DOMAIN new : e[k] \in DOMAIN old
  BY <1>1, <1>4 DEF Takes
<1>6. \A k \in DOMAIN new : new[k] \in {old[e[k]], Rounds!Marker}
  BY <1>2, <1>4, <1>5
<1>7. ASSUME NEW k \in DOMAIN new, new[k].summary
      PROVE  k = 1 /\ e[1] = 1 /\ new[1] = old[1] /\ 1 \in DOMAIN old
  <2>1. new[k] = old[e[k]]
    BY <1>6, <1>7, MarkerType
  <2>2. e[k] = 1
    BY <1>5, <1>7, <2>1 DEF OnlyInFront
  <2>3. k = 1
    BY <1>3, <1>5, <2>2, TakesFirst DEF new
  <2> QED
    BY <1>5, <2>1, <2>2, <2>3
<1>8. ASSUME 1 \in DOMAIN old, old[1].summary
      PROVE  1 \in DOMAIN new /\ new[1] = old[1]
  <2>1. 1 \in P /\ s[1] = old[1]
    BY <1>2, <1>8
  <2>2. PICK k \in DOMAIN new : e[k] = 1
    BY <1>1, <1>4, <1>8, <2>1
  <2>3. k = 1
    BY <1>3, <1>5, <2>2, TakesFirst DEF new
  <2> QED
    BY <1>4, <2>1, <2>2, <2>3
<1>9. OnlyInFront(new)
  BY <1>7 DEF OnlyInFront
<1>10. Rounds!PrefixLen(new) = Rounds!PrefixLen(old)
  <2>1. new \in Seq(Rounds!Message)
    BY <1>3 DEF new
  <2> QED
    BY <1>7, <1>8, <1>9, <2>1, PrefixIs
<1>11. Leaves(new, old)
  BY <1>5, <1>6, <1>9, <1>10 DEF Leaves
<1> QED
  BY <1>3, <1>11 DEF new, s, Rounds!PickMarked

LEMMA SupersedeLeaves ==
    ASSUME NEW old \in Seq(Rounds!Message), OnlyInFront(old)
    PROVE  LET new == Rounds!Supersede(old).messages IN
           new \in Seq(Rounds!Message) /\ Leaves(new, old)
<1> DEFINE P == DOMAIN old \ Rounds!Obsolete(old)
<1>1. ASSUME NEW i \in DOMAIN old, old[i].summary PROVE i \in P /\ i \notin {}
  <2>1. old[i].uses = << >>
    BY <1>1 DEF OnlyInFront
  <2>2. Rounds!Range(old[i].uses) = {}
    BY <2>1 DEF Rounds!Range
  <2>3. Rounds!Paths(old[i]) = {}
    BY <2>2 DEF Rounds!Paths, Rounds!FileUses
  <2> QED
    BY <1>1, <2>3 DEF Rounds!Obsolete
<1>2. Rounds!Supersede(old).messages = Rounds!Pick(old, P)
  BY DEF Rounds!Supersede
<1> HIDE DEF P
<1>3. Rounds!PickMarked(old, P, {}) \in Seq(Rounds!Message) /\ Leaves(Rounds!PickMarked(old, P, {}), old)
  BY <1>1, MarkedLeaves
<1>4. Rounds!PickMarked(old, P, {}) = Rounds!Pick(old, P)
  <2>1. [i \in DOMAIN old |-> IF i \in {} THEN Rounds!Marker ELSE old[i]] = old
    OBVIOUS
  <2> QED
    BY <2>1 DEF Rounds!PickMarked
<1> QED
  BY <1>2, <1>3, <1>4

LEMMA CollapseLeaves ==
    ASSUME NEW old \in Seq(Rounds!Message), OnlyInFront(old)
    PROVE  LET new == Rounds!Collapse(old).messages IN
           new \in Seq(Rounds!Message) /\ Leaves(new, old)
<1> DEFINE chained == Rounds!InChain(old)
           heads == {i \in chained : i - 1 \notin chained}
           P == (DOMAIN old \ chained) \cup heads
<1>1. ASSUME NEW i \in chained PROVE Rounds!IsChatty(old[i])
  <2>1. PICK first \in 1..i :
            LET last == first + CollapseThreshold - 1 IN
            /\ last <= Len(old)
            /\ \A j \in first..(IF last > i THEN last ELSE i) : Rounds!IsChatty(old[j])
    BY <1>1 DEF Rounds!InChain
  <2>2. i \in Nat /\ CollapseThreshold \in Nat
    BY <1>1, TridentAssumption DEF Rounds!InChain
  <2> DEFINE last == first + CollapseThreshold - 1
  <2>3. i \in first..(IF last > i THEN last ELSE i)
    BY <2>1, <2>2
  <2> QED
    BY <2>1, <2>3
<1>2. \A i \in DOMAIN old : old[i].summary => i \notin chained
  BY <1>1 DEF Rounds!IsChatty
<1>3. Rounds!Collapse(old).messages = Rounds!PickMarked(old, P, heads)
  BY DEF Rounds!Collapse
<1>4. \A i \in DOMAIN old : old[i].summary => i \in P /\ i \notin heads
  BY <1>2
<1> HIDE DEF P, heads
<1> QED
  BY <1>3, <1>4, MarkedLeaves

\* The clusters are of messages that are there, and none is empty.
LEMMA ClustersAre ==
    ASSUME NEW old \in Seq(Rounds!Message)
    PROVE  \A c \in Rounds!Clusters(old) :
               c # {} /\ c \in SUBSET {i \in DOMAIN old : old[i].role # "system"}
<1> DEFINE candidates == {i \in DOMAIN old : old[i].role # "system"}
           All == SUBSET ((SUBSET candidates) \ {{}})
           order == Rounds!InOrder(old, candidates)
           S == DOMAIN order
           Members(clusters, i) == {j \in candidates \ UNION clusters :
                                       \/ j = i
                                       \/ j > i /\ Rounds!Similar(old[i], old[j])}
           Gather(clusters, i) ==
               LET members == Members(clusters, i)
               IN  IF i \in members /\ Rounds!Cardinality(members) >= ClusterMinSize
                   THEN clusters \cup {members} ELSE clusters
<1>1. ASSUME NEW clusters \in All, NEW i PROVE Gather(clusters, i) \in All
  <2>1. Members(clusters, i) \in SUBSET candidates
    OBVIOUS
  <2>2. i \in Members(clusters, i) => Members(clusters, i) \in (SUBSET candidates) \ {{}}
    BY <2>1
  <2> HIDE DEF Members, candidates
  <2> QED
    BY <2>2
<1>2. S \in SUBSET Nat /\ IsFiniteSet(S)
  <2>1. candidates \cap DOMAIN old \in SUBSET Nat
    OBVIOUS
  <2>2. IsFiniteSet(candidates \cap DOMAIN old)
    <3>1. DOMAIN old = 1..Len(old) /\ Len(old) \in Nat
      OBVIOUS
    <3>2. IsFiniteSet(DOMAIN old)
      BY <3>1, FS_Interval
    <3> QED
      BY <3>2, FS_Subset
  <2>3. Cardinality(candidates \cap DOMAIN old) \in Nat
    BY <2>2, FS_CardinalityType
  <2>4. S = 1..Cardinality(candidates \cap DOMAIN old)
    BY <2>3 DEF Rounds!InOrder, Rounds!Cardinality, Cardinality
  <2> HIDE DEF S, candidates
  <2>5. IsFiniteSet(1..Cardinality(candidates \cap DOMAIN old))
    BY <2>3, FS_Interval
  <2> QED
    BY <2>3, <2>4, <2>5
<1> DEFINE Fold(g) == [s \in SUBSET S |->
                          IF s = {} THEN {} ELSE Gather(g[s \ {Greatest(s)}], order[Greatest(s)])]
           step == [p \in S \X All |-> Gather(p[2], order[p[1]])]
           good == [s \in SUBSET S |-> All]
<1> HIDE DEF candidates, order, S, Members
<1>3. \A s \in SUBSET S : s # {} => Greatest(s) \in S
  BY <1>2, GreatestIn
<1>4. {} \in All
  OBVIOUS
<1> HIDE DEF All, Gather
<1>5. \E g : g = Fold(g)
  <2>1. PICK g : IsFold(g, S, {}, step) /\ \A s \in SUBSET S : g[s] \in good[s]
    <3>1. {} \in good[{}]
      BY <1>4
    <3>2. \A s \in SUBSET S : s # {} =>
              \A y \in good[s \ {Greatest(s)}] : step[<<Greatest(s), y>>] \in good[s]
      BY <1>1, <1>3
    <3> HIDE DEF Fold, good, step
    <3> QED
      BY <1>2, <3>1, <3>2, FoldIs
  <2>2. ASSUME NEW s \in SUBSET S
        PROVE  Step(g, {}, step, s) =
                   IF s = {} THEN {} ELSE Gather(g[s \ {Greatest(s)}], order[Greatest(s)])
    <3>1. s # {} => g[s \ {Greatest(s)}] \in All /\ Greatest(s) \in S
      <4>1. s \ {Greatest(s)} \in SUBSET S
        OBVIOUS
      <4> QED
        BY <1>3, <2>1, <4>1
    <3> QED
      BY <3>1 DEF Step
  <2>3. g = Fold(g)
    BY <2>1, <2>2 DEF IsFold
  <2> QED
    BY <2>3
<1>6. ASSUME NEW g, g = Fold(g) PROVE g[S] \in All
  <2>1. \A s \in SUBSET S :
            g[s] = IF s = {} THEN {} ELSE Gather(g[s \ {Greatest(s)}], order[Greatest(s)])
    BY <1>6
  <2>2. g[{}] \in good[{}]
    BY <1>4, <2>1
  <2>3. ASSUME NEW s \in SUBSET S, s # {}, g[s \ {Greatest(s)}] \in good[s \ {Greatest(s)}]
        PROVE  g[s] \in good[s]
    <3>1. s \ {Greatest(s)} \in SUBSET S
      OBVIOUS
    <3>2. g[s \ {Greatest(s)}] \in All
      BY <2>3, <3>1
    <3>3. g[s] = Gather(g[s \ {Greatest(s)}], order[Greatest(s)])
      BY <2>1, <2>3
    <3> QED
      BY <1>1, <3>2, <3>3
  <2> HIDE DEF Fold, good
  <2>4. \A s \in SUBSET S : g[s] \in good[s]
    BY <1>2, <2>2, <2>3, FoldKeeps
  <2> QED
    BY <2>4 DEF good
<1>7. Rounds!Clusters(old) \in All
  BY <1>5, <1>6 DEF Rounds!Clusters, Rounds!FoldLeft, Rounds!MapThenFoldSet, Rounds!Max, Greatest,
                    Gather, Members, S, order, candidates
<1> QED
  BY <1>7 DEF All, candidates

LEMMA LeastIsOne ==
    ASSUME NEW S \in SUBSET Nat, S # {}
    PROVE  (CHOOSE i \in S : \A j \in S : i <= j) \in S
<1> DEFINE Less == OpToRel(<, Nat)
<1>1. IsWellFoundedOn(Less, Nat)
  BY NatLessThanWellFounded
<1>2. \A y, x \in Nat : y < x => <<y, x>> \in Less
  BY DEF OpToRel
<1> HIDE DEF Less
<1>3. PICK x \in S : \A y \in S : ~ (<<y, x>> \in Less)
  BY <1>1, WFMin
<1>4. \A y \in S : x <= y
  <2> TAKE y \in S
  <2>1. x \in Nat /\ y \in Nat
    OBVIOUS
  <2>2. ~(y < x)
    BY <1>2, <1>3, <2>1, Zenon
  <2> QED
    BY <2>1, <2>2
<1> QED
  BY <1>4

LEMMA ClusterLeaves ==
    ASSUME NEW old \in Seq(Rounds!Message), OnlyInFront(old)
    PROVE  LET new == Rounds!Cluster(old).messages IN
           new \in Seq(Rounds!Message) /\ Leaves(new, old)
<1> DEFINE clusters == Rounds!Clusters(old)
           heads == {CHOOSE i \in c : \A j \in c : i <= j : c \in clusters}
           clustered == UNION clusters
           P == (DOMAIN old \ clustered) \cup heads
<1>1. \A c \in clusters : c # {} /\ c \in SUBSET {i \in DOMAIN old : old[i].role # "system"}
  BY ClustersAre
<1>2. Rounds!Cluster(old).messages = Rounds!PickMarked(old, P, heads)
  BY DEF Rounds!Cluster
<1> HIDE DEF clusters
<1>3. \A c \in clusters : (CHOOSE i \in c : \A j \in c : i <= j) \in c
  <2> TAKE c \in clusters
  <2>1. c # {} /\ c \in SUBSET Nat
    BY <1>1
  <2> QED
    BY <2>1, LeastIsOne
<1>4. heads \in SUBSET clustered
  BY <1>3
<1>5. ASSUME NEW i \in DOMAIN old, old[i].summary PROVE i \notin clustered
  <2>1. old[i].role = "system"
    BY <1>5 DEF OnlyInFront
  <2> QED
    BY <1>1, <2>1
<1>6. \A i \in DOMAIN old : old[i].summary => i \in P /\ i \notin heads
  BY <1>4, <1>5
<1> HIDE DEF P, heads
<1> QED
  BY <1>2, <1>6, MarkedLeaves

LEMMA StagesLeave ==
    ASSUME NEW old \in Seq(Rounds!Message), OnlyInFront(old)
    PROVE  LET new == Rounds!Stages(old).messages IN
           new \in Seq(Rounds!Message) /\ Leaves(new, old)
<1> DEFINE first == Rounds!Supersede(old).messages
           second == Rounds!Collapse(first).messages
           third == Rounds!Cluster(second).messages
<1>1. first \in Seq(Rounds!Message) /\ Leaves(first, old)
  BY SupersedeLeaves
<1>2. second \in Seq(Rounds!Message) /\ Leaves(second, first)
  BY <1>1, CollapseLeaves DEF Leaves
<1>3. third \in Seq(Rounds!Message) /\ Leaves(third, second)
  BY <1>2, ClusterLeaves DEF Leaves
<1>4. Rounds!Stages(old).messages = third
  BY DEF Rounds!Stages
<1> HIDE DEF first, second, third
<1>5. Leaves(third, old)
  BY <1>1, <1>2, <1>3, BothLeave
<1> QED
  BY <1>3, <1>4, <1>5

\* How far one gets in a sequence, going through another.
Meets(new, old) == Rounds!FoldLeft(LAMBDA k, m : Rounds!Matched(new, k, m), 0, old)

\* What is taken from a sequence in its order is met by going through it once.
LEMMA TakenIsMet ==
    ASSUME NEW M, NEW old \in Seq(M), NEW new \in Seq(M), NEW e, Takes(e, new, old),
           \A k \in DOMAIN new : new[k] = old[e[k]]
    PROVE  Meets(new, old) = Len(new)
<1> DEFINE S == DOMAIN old
           N == Len(new)
           Met(y, i) == Rounds!Matched(new, y, old[i])
           Fold(g) == [s \in SUBSET S |->
                          IF s = {} THEN 0 ELSE Met(g[s \ {Greatest(s)}], Greatest(s))]
           step == [p \in S \X (0..N) |-> Met(p[2], p[1])]
           good == [s \in SUBSET S |->
                       {y \in 0..N : \A k \in 1..N : 1..e[k] \subseteq s => y >= k}]
<1>1. /\ S = 1..Len(old) /\ S \in SUBSET Nat /\ IsFiniteSet(S)
      /\ N \in Nat /\ DOMAIN new = 1..N /\ Len(old) \in Nat
  <2>1. S = 1..Len(old) /\ Len(old) \in Nat /\ N \in Nat /\ DOMAIN new = 1..N
    OBVIOUS
  <2> QED
    BY <2>1, FS_Interval
<1>2. \A k \in 1..N : e[k] \in S /\ new[k] = old[e[k]]
  BY <1>1 DEF Takes
<1>3. \A y \in 0..N, i \in S : Met(y, i) = IF y < N /\ new[y + 1] = old[i] THEN y + 1 ELSE y
  BY DEF Rounds!Matched
<1> HIDE DEF Met, N, S
<1>4. \A s \in SUBSET S : s # {} => Greatest(s) \in s /\ Greatest(s) \in S /\ \A j \in s : Greatest(s) >= j
  <2> TAKE s \in SUBSET S
  <2>1. s # {} => Greatest(s) \in s /\ \A j \in s : Greatest(s) >= j
    BY <1>1, GreatestIn
  <2> QED
    BY <2>1
<1>5. ASSUME NEW s \in SUBSET S, s # {}, NEW y \in good[s \ {Greatest(s)}]
      PROVE  y \in 0..N /\ Met(y, Greatest(s)) \in good[s]
  <2> DEFINE i == Greatest(s)
             r == s \ {i}
             z == Met(y, i)
  <2>0. i \in s /\ i \in S /\ (\A j \in s : i >= j) /\ r \in SUBSET S
    BY <1>4, <1>5
  <2>1. i \in s /\ i \in S /\ i \in Nat \ {0} /\ (\A j \in s : i >= j) /\ r \in SUBSET S
    <3> HIDE DEF i
    <3> QED
      BY <1>1, <2>0
  <2>2. y \in 0..N /\ \A k \in 1..N : 1..e[k] \subseteq r => y >= k
    BY <1>5, <2>1
  <2>3. y \in Nat /\ z = IF y < N /\ new[y + 1] = old[i] THEN y + 1 ELSE y
    BY <1>3, <2>1, <2>2
  <2> HIDE DEF i, r, z
  <2>4. z \in 0..N /\ z >= y
    BY <1>1, <2>2, <2>3
  <2>5. ASSUME NEW k \in 1..N, 1..e[k] \subseteq s PROVE z >= k
    <3>1. k \in Nat /\ k >= 1 /\ k <= N /\ e[k] \in S /\ e[k] \in Nat \ {0}
      BY <1>1, <1>2, <2>5
    <3>2. e[k] \in s /\ e[k] <= i
      <4>1. e[k] \in 1..e[k]
        BY <3>1
      <4> QED
        BY <2>1, <2>5, <4>1
    <3>3. CASE e[k] < i
      <4>1. \A j \in 1..e[k] : j \in s /\ j # i
        BY <2>1, <2>5, <3>1, <3>3
      <4>2. 1..e[k] \subseteq r
        BY <4>1 DEF r
      <4> QED
        BY <2>2, <2>3, <2>4, <3>1, <4>2
    <3>4. CASE e[k] = i
      <4>1. k = 1 \/ y >= k - 1
        <5>1. SUFFICES ASSUME k # 1 PROVE y >= k - 1
          OBVIOUS
        <5>2. k - 1 \in 1..N /\ k - 1 < k
          BY <1>1, <3>1, <5>1
        <5>3. e[k - 1] < e[k] /\ e[k - 1] \in Nat
          BY <1>1, <1>2, <5>2 DEF Takes
        <5>4. \A j \in 1..e[k - 1] : j \in s /\ j # i
          BY <2>1, <2>5, <3>1, <3>4, <5>3
        <5>5. 1..e[k - 1] \subseteq r
          BY <5>4 DEF r
        <5> QED
          BY <2>2, <5>2, <5>5
      <4>2. y >= k - 1
        BY <2>3, <3>1, <4>1
      <4>3. CASE y = k - 1
        <5>1. y < N /\ new[y + 1] = old[i]
          BY <1>1, <1>2, <2>5, <3>1, <3>4, <4>3
        <5> QED
          BY <2>3, <3>1, <4>3, <5>1
      <4>4. CASE y # k - 1
        BY <2>3, <2>4, <3>1, <4>2, <4>4
      <4> QED
        BY <4>3, <4>4
    <3> QED
      BY <2>1, <3>1, <3>2, <3>3, <3>4
  <2>6. z \in good[s]
    BY <2>4, <2>5
  <2> QED
    BY <2>2, <2>6 DEF z, i
<1>6. 0 \in good[{}]
  <2>1. \A k \in 1..N : 1 \in 1..e[k]
    BY <1>1, <1>2
  <2> QED
    BY <1>1, <2>1
<1>7. \E g : g = Fold(g)
  <2>1. PICK g : IsFold(g, S, 0, step) /\ \A s \in SUBSET S : g[s] \in good[s]
    <3>1. \A s \in SUBSET S : s # {} =>
              \A y \in good[s \ {Greatest(s)}] : step[<<Greatest(s), y>>] \in good[s]
      BY <1>4, <1>5
    <3> HIDE DEF Fold, good, step
    <3> QED
      BY <1>1, <1>6, <3>1, FoldIs
  <2>2. ASSUME NEW s \in SUBSET S
        PROVE  Step(g, 0, step, s) =
                   IF s = {} THEN 0 ELSE Met(g[s \ {Greatest(s)}], Greatest(s))
    <3>1. s # {} => g[s \ {Greatest(s)}] \in 0..N /\ Greatest(s) \in S
      <4>1. s \ {Greatest(s)} \in SUBSET S
        OBVIOUS
      <4> QED
        BY <1>4, <2>1, <4>1
    <3> QED
      BY <3>1 DEF Step
  <2>3. g = Fold(g)
    BY <2>1, <2>2 DEF IsFold
  <2> QED
    BY <2>3
<1>8. ASSUME NEW g, g = Fold(g) PROVE g[S] \in good[S]
  <2>1. \A s \in SUBSET S :
            g[s] = IF s = {} THEN 0 ELSE Met(g[s \ {Greatest(s)}], Greatest(s))
    BY <1>8
  <2>2. g[{}] \in good[{}]
    <3>1. {} \in SUBSET S
      OBVIOUS
    <3> QED
      BY <1>6, <2>1, <3>1
  <2>3. ASSUME NEW s \in SUBSET S, s # {}, g[s \ {Greatest(s)}] \in good[s \ {Greatest(s)}]
        PROVE  g[s] \in good[s]
    <3>1. g[s] = Met(g[s \ {Greatest(s)}], Greatest(s))
      BY <2>1, <2>3
    <3> HIDE DEF Fold, good
    <3> QED
      BY <1>5, <2>3, <3>1
  <2> HIDE DEF Fold, good
  <2> QED
    BY <1>1, <2>2, <2>3, FoldKeeps
<1> DEFINE f == Meets(new, old)
<1>9. f \in good[S]
  BY <1>7, <1>8 DEF Meets, Rounds!FoldLeft, Rounds!MapThenFoldSet, Rounds!Max, Greatest, Met, S
<1> HIDE DEF f
<1>10. f \in 0..N /\ \A k \in 1..N : 1..e[k] \subseteq S => f >= k
  BY <1>9
<1>11. \A k \in 1..N : 1..e[k] \subseteq S
  BY <1>1, <1>2
<1>12. f = N
  BY <1>1, <1>10, <1>11
<1> QED
  BY <1>12 DEF f, N

LEMMA SurvivorsAreTaken ==
    ASSUME NEW M, NEW left \in Seq(M)
    PROVE  LET new == Rounds!FoldLeft(Rounds!WithSurvivor, << >>, left) IN
           /\ new \in Seq(M)
           /\ \E e : /\ Takes(e, new, left)
                     /\ \A k \in DOMAIN new : new[k] = left[e[k]] /\ new[k] # Rounds!Marker
<1> DEFINE S == DOMAIN left
           With(y, i) == Rounds!WithSurvivor(y, left[i])
           From(e, y, s) == /\ \A k \in DOMAIN y : e[k] \in s
                            /\ \A j, k \in DOMAIN y : j < k => e[j] < e[k]
                            /\ \A k \in DOMAIN y : y[k] = left[e[k]] /\ y[k] # Rounds!Marker
           Fold(g) == [s \in SUBSET S |->
                          IF s = {} THEN << >> ELSE With(g[s \ {Greatest(s)}], Greatest(s))]
           step == [p \in S \X Seq(M) |-> With(p[2], p[1])]
           good == [s \in SUBSET S |-> {y \in Seq(M) : \E e : From(e, y, s)}]
<1>1. S \in SUBSET Nat /\ IsFiniteSet(S) /\ \A i \in S : left[i] \in M
  <2>1. S = 1..Len(left) /\ Len(left) \in Nat
    OBVIOUS
  <2> QED
    BY <2>1, FS_Interval
<1> HIDE DEF S
<1>2. ASSUME NEW s \in SUBSET S, s # {} PROVE Greatest(s) \in s /\ \A j \in s : Greatest(s) >= j
  BY <1>1, <1>2, GreatestIn
<1>3. ASSUME NEW s \in SUBSET S, s # {}, NEW y \in good[s \ {Greatest(s)}]
      PROVE  y \in Seq(M) /\ With(y, Greatest(s)) \in good[s]
  <2> DEFINE i == Greatest(s)
             r == s \ {i}
             z == With(y, i)
  <2>1. i \in s /\ i \in S /\ (\A j \in s : i >= j) /\ r \in SUBSET S
    BY <1>2, <1>3
  <2>2. y \in Seq(M) /\ \E e : From(e, y, r)
    BY <1>3, <2>1
  <2>3. z = IF left[i] = Rounds!Marker THEN y ELSE Append(y, left[i])
    BY DEF Rounds!WithSurvivor
  <2> HIDE DEF i, z
  <2>4. PICK e : From(e, y, r)
    BY <2>2
  <2>5. CASE left[i] = Rounds!Marker
    <3>1. From(e, y, s)
      BY <2>4
    <3> QED
      BY <2>2, <2>3, <2>5, <3>1 DEF z, i
  <2>6. CASE left[i] # Rounds!Marker
    <3> DEFINE f == [k \in DOMAIN z |-> IF k = Len(y) + 1 THEN i ELSE e[k]]
    <3>1. /\ z \in Seq(M) /\ DOMAIN z = 1..(Len(y) + 1) /\ Len(y) \in Nat /\ DOMAIN y = 1..Len(y)
          /\ z[Len(y) + 1] = left[i] /\ \A k \in 1..Len(y) : z[k] = y[k]
      BY <1>1, <2>1, <2>2, <2>3, <2>6
    <3>2. \A k \in DOMAIN z : f[k] = IF k = Len(y) + 1 THEN i ELSE e[k]
      OBVIOUS
    <3> HIDE DEF f
    <3>3. \A k \in DOMAIN z : k = Len(y) + 1 \/ (k \in DOMAIN y /\ k # Len(y) + 1)
      BY <3>1
    <3>4. \A k \in DOMAIN z : f[k] \in s /\ z[k] = left[f[k]] /\ z[k] # Rounds!Marker
      BY <2>1, <2>4, <2>6, <3>1, <3>2, <3>3
    <3>5. ASSUME NEW j \in DOMAIN z, NEW k \in DOMAIN z, j < k PROVE f[j] < f[k]
      <4>1. j \in DOMAIN y /\ f[j] = e[j]
        BY <3>1, <3>2, <3>3, <3>5
      <4>2. CASE k = Len(y) + 1
        <5>1. e[j] \in s /\ e[j] # i /\ e[j] \in Nat /\ i \in Nat /\ i >= e[j]
          BY <1>1, <2>1, <2>4, <4>1
        <5> QED
          BY <3>2, <4>1, <4>2, <5>1
      <4>3. CASE k # Len(y) + 1
        BY <2>4, <3>2, <3>3, <3>5, <4>1, <4>3
      <4> QED
        BY <4>2, <4>3
    <3>6. From(f, z, s)
      BY <3>4, <3>5
    <3> QED
      BY <2>2, <3>1, <3>6 DEF z, i
  <2> QED
    BY <2>5, <2>6
<1>4. << >> \in good[{}]
  OBVIOUS
<1>5. \E g : g = Fold(g)
  <2>1. PICK g : IsFold(g, S, << >>, step) /\ \A s \in SUBSET S : g[s] \in good[s]
    <3>1. ASSUME NEW s \in SUBSET S, s # {}, NEW y \in good[s \ {Greatest(s)}]
          PROVE  step[<<Greatest(s), y>>] \in good[s]
      <4>1. Greatest(s) \in S /\ y \in Seq(M) /\ With(y, Greatest(s)) \in good[s]
        BY <1>2, <1>3, <3>1
      <4> HIDE DEF good, With
      <4> QED
        BY <4>1
    <3> HIDE DEF Fold, good, step
    <3> QED
      BY <1>1, <1>4, <3>1, FoldIs
  <2>2. ASSUME NEW s \in SUBSET S
        PROVE  Step(g, << >>, step, s) =
                   IF s = {} THEN << >> ELSE With(g[s \ {Greatest(s)}], Greatest(s))
    <3>1. s # {} => g[s \ {Greatest(s)}] \in Seq(M) /\ Greatest(s) \in S
      <4>1. s \ {Greatest(s)} \in SUBSET S
        OBVIOUS
      <4> QED
        BY <1>2, <2>1, <4>1
    <3> HIDE DEF With
    <3> QED
      BY <3>1 DEF Step
  <2>3. g = Fold(g)
    BY <2>1, <2>2 DEF IsFold
  <2> QED
    BY <2>3
<1>6. ASSUME NEW g, g = Fold(g) PROVE g[S] \in good[S]
  <2> HIDE DEF With
  <2>1. \A s \in SUBSET S :
            g[s] = IF s = {} THEN << >> ELSE With(g[s \ {Greatest(s)}], Greatest(s))
    BY <1>6
  <2>2. g[{}] \in good[{}]
    <3>1. {} \in SUBSET S
      OBVIOUS
    <3> QED
      BY <1>4, <2>1, <3>1
  <2>3. ASSUME NEW s \in SUBSET S, s # {}, g[s \ {Greatest(s)}] \in good[s \ {Greatest(s)}]
        PROVE  g[s] \in good[s]
    <3>1. g[s] = With(g[s \ {Greatest(s)}], Greatest(s))
      BY <2>1, <2>3
    <3> HIDE DEF Fold, good
    <3> QED
      BY <1>3, <2>3, <3>1
  <2> HIDE DEF Fold, good
  <2> QED
    BY <1>1, <2>2, <2>3, FoldKeeps
<1> DEFINE new == Rounds!FoldLeft(Rounds!WithSurvivor, << >>, left)
<1>7. new \in good[S]
  BY <1>5, <1>6 DEF Rounds!FoldLeft, Rounds!MapThenFoldSet, Rounds!Max, Greatest, With, S
<1> HIDE DEF new
<1>8. PICK e : new \in Seq(M) /\ From(e, new, S)
  BY <1>7
<1> DEFINE f == [k \in DOMAIN new |-> e[k]]
<1>9. f \in [DOMAIN new -> DOMAIN left] /\ \A k \in DOMAIN new : f[k] = e[k]
  BY <1>8 DEF S
<1> HIDE DEF f
<1>10. Takes(f, new, left)
  BY <1>8, <1>9 DEF Takes
<1> QED
  BY <1>8, <1>9, <1>10 DEF new

\* What is not a marker after the stages was in the transcript, in that order.
LEMMA StagesKeepOrder ==
    ASSUME given \in Seq(Rounds!Message), OnlyInFront(given)
    PROVE  SurvivorsInOrder
<1> DEFINE left == Rounds!Stages(given).messages
           survivors == Rounds!FoldLeft(Rounds!WithSurvivor, << >>, left)
<1>1. left \in Seq(Rounds!Message) /\ Leaves(left, given)
  BY StagesLeave
<1> HIDE DEF left
<1>2. PICK d : /\ Takes(d, left, given)
               /\ \A k \in DOMAIN left : left[k] \in {given[d[k]], Rounds!Marker}
  BY <1>1 DEF Leaves
<1>3. /\ survivors \in Seq(Rounds!Message)
      /\ \E e : /\ Takes(e, survivors, left)
                /\ \A k \in DOMAIN survivors :
                      survivors[k] = left[e[k]] /\ survivors[k] # Rounds!Marker
  BY <1>1, SurvivorsAreTaken
<1>4. PICK e : /\ Takes(e, survivors, left)
               /\ \A k \in DOMAIN survivors :
                     survivors[k] = left[e[k]] /\ survivors[k] # Rounds!Marker
  BY <1>3
<1> HIDE DEF survivors
<1> DEFINE f == [k \in DOMAIN survivors |-> d[e[k]]]
<1>5. \A k \in DOMAIN survivors : e[k] \in DOMAIN left /\ f[k] = d[e[k]] /\ f[k] \in DOMAIN given
  BY <1>2, <1>4 DEF Takes
<1>6. Takes(f, survivors, given)
  <2>1. f \in [DOMAIN survivors -> DOMAIN given]
    BY <1>5
  <2>2. \A j, k \in DOMAIN survivors : j < k => f[j] < f[k]
    BY <1>2, <1>4, <1>5 DEF Takes
  <2> QED
    BY <2>1, <2>2 DEF Takes
<1>7. \A k \in DOMAIN survivors : survivors[k] = given[f[k]]
  BY <1>2, <1>4, <1>5
<1> HIDE DEF f
<1>8. Meets(survivors, given) = Len(survivors)
  BY <1>3, <1>6, <1>7, TakenIsMet
<1>9. Rounds!PrefixLen(left) = Rounds!PrefixLen(given)
  BY <1>1 DEF Leaves
<1> QED
  BY <1>8, <1>9 DEF SurvivorsInOrder, Rounds!SurvivorsInOrder, Meets, left, survivors

\* A message that stage 1 drops works on a file that is written later.
LEMMA NewestWritesStay ==
    ASSUME given \in Seq(Rounds!Message)
    PROVE  NewestWritesSurvive
<1> DEFINE P == DOMAIN given \ Rounds!Obsolete(given)
           new == Rounds!Pick(given, P)
<1>1. SUFFICES ASSUME \A i \in DOMAIN given : Len(given[i].uses) <= 1,
                      NEW i \in DOMAIN given, NEW path \in Rounds!Writes(given[i]),
                      \A j \in (i + 1)..Len(given) : path \notin Rounds!Writes(given[j])
               PROVE  given[i] \in Rounds!Range(new)
  BY DEF NewestWritesSurvive, Rounds!NewestWritesSurvive, Rounds!Supersede
<1> DEFINE uses == given[i].uses
<1>2. uses \in Seq(Rounds!ToolUse) /\ Len(uses) <= 1
  <2>1. given[i] \in Rounds!Message
    OBVIOUS
  <2> QED
    BY <1>1, <2>1 DEF Rounds!Message
<1> HIDE DEF uses
<1>3. \A u, v \in Rounds!Range(uses) : u = v
  <2>1. DOMAIN uses = 1..Len(uses) /\ Len(uses) \in Nat
    BY <1>2
  <2>2. \A k, l \in DOMAIN uses : k = l
    BY <1>2, <2>1
  <2> QED
    BY <2>2 DEF Rounds!Range
<1>4. \A other \in Rounds!Paths(given[i]) : other = path
  BY <1>3 DEF Rounds!Paths, Rounds!Writes, Rounds!FileUses, uses
<1>5. i \notin Rounds!Obsolete(given)
  BY <1>1, <1>4 DEF Rounds!Obsolete
<1>6. i \in P \cap DOMAIN given
  BY <1>5
<1> HIDE DEF P
<1>7. \E e : /\ \A k \in DOMAIN new : new[k] = given[e[k]]
             /\ \E k \in DOMAIN new : e[k] = i
  BY <1>6, PickTakes
<1>8. \E k \in DOMAIN new : new[k] = given[i]
  BY <1>7
<1> HIDE DEF new
<1> QED
  BY <1>8 DEF Rounds!Range

\* The cut of compact_session is behind an earlier summary.
LEMMA CutIsBehindSummary ==
    ASSUME NEW s \in Seq(Rounds!Message), NEW preserve \in Nat, NEW most,
           Rounds!ShouldCompact(s, preserve, most)
    PROVE  Rounds!KeepFrom(s, preserve) \in Rounds!PrefixLen(s)..Len(s)
<1> DEFINE prefix == Rounds!PrefixLen(s)
           raw == Rounds!RawKeepFrom(s, preserve)
           Safe(k) == Rounds!SafeCut(s, k)
           Good(k) == Safe(k) /\ \A j \in (k + 1)..raw : ~Safe(j)
           keep == CHOOSE k \in 0..raw : Good(k)
<1>1. prefix \in {0, 1} /\ Len(s) \in Nat
  BY DEF Rounds!PrefixLen
<1>2. Len(s) - prefix > preserve
  BY DEF Rounds!ShouldCompact
<1> HIDE DEF prefix
<1>3. raw \in prefix..Len(s) /\ raw \in Nat
  BY <1>1, <1>2 DEF Rounds!RawKeepFrom
<1> HIDE DEF raw
<1>4. \A k \in 0..prefix : Safe(k)
  BY <1>1 DEF Rounds!SafeCut, prefix
<1> HIDE DEF Safe
<1> DEFINE S == {k \in 0..raw : Safe(k)}
           m == Greatest(S)
<1>5. S \in SUBSET Nat /\ IsFiniteSet(S) /\ prefix \in S
  <2>1. IsFiniteSet(0..raw)
    BY <1>3, FS_Interval
  <2>2. IsFiniteSet(S)
    BY <2>1, FS_Subset
  <2> QED
    BY <1>1, <1>3, <1>4, <2>2
<1>6. m \in S /\ \A y \in S : m >= y
  <2> HIDE DEF S
  <2> QED
    BY <1>5, GreatestIn
<1> HIDE DEF m
<1>7. m \in 0..raw /\ Good(m)
  BY <1>3, <1>6
<1>8. keep \in 0..raw /\ Good(keep)
  BY <1>7
<1> HIDE DEF keep
<1>9. keep >= prefix
  <2>1. SUFFICES ASSUME keep < prefix PROVE FALSE
    BY <1>1, <1>3, <1>8
  <2>2. keep + 1 \in (keep + 1)..raw /\ keep + 1 \in 0..prefix
    BY <1>1, <1>3, <1>8, <2>1
  <2> QED
    BY <1>4, <1>8, <2>2
<1>10. Rounds!KeepFrom(s, preserve) = keep
  BY DEF Rounds!KeepFrom, keep, raw, Safe
<1> QED
  BY <1>1, <1>3, <1>8, <1>9, <1>10 DEF prefix

LEMMA CompactStaysInFront ==
    ASSUME NEW s \in Seq(Rounds!Message), OnlyInFront(s), NEW preserve \in Nat, NEW most
    PROVE  LET new == Rounds!CompactSession(s, preserve, most).messages IN
           new \in Seq(Rounds!Message) /\ OnlyInFront(new)
<1> DEFINE new == Rounds!CompactSession(s, preserve, most).messages
           keep == Rounds!KeepFrom(s, preserve)
           tail == SubSeq(s, keep + 1, Len(s))
           summary == Rounds!SystemText(TRUE, 1)
<1>1. CASE ~Rounds!ShouldCompact(s, preserve, most)
  BY <1>1 DEF Rounds!CompactSession
<1>2. CASE Rounds!ShouldCompact(s, preserve, most)
  <2>1. new = <<summary>> \o tail
    BY <1>2 DEF Rounds!CompactSession
  <2>2. keep \in Rounds!PrefixLen(s)..Len(s)
    BY <1>2, CutIsBehindSummary
  <2>3. Rounds!PrefixLen(s) \in {0, 1} /\ Len(s) \in Nat /\ DOMAIN s = 1..Len(s)
    BY DEF Rounds!PrefixLen
  <2> HIDE DEF keep, new
  <2>4. keep \in 0..Len(s)
    BY <2>2, <2>3
  <2>5. /\ tail \in Seq(Rounds!Message) /\ Len(tail) = Len(s) - keep
        /\ \A i \in 1..Len(tail) : tail[i] = s[i + keep]
    <3> DEFINE P == Rounds!Message
               n == Len(s)
    <3>1. s \in Seq(P) /\ n \in Nat /\ keep \in Nat /\ keep <= n
      BY <2>3, <2>4
    <3> HIDE DEF P
    <3>2. /\ tail \in Seq(P) /\ Len(tail) = n - keep
          /\ \A i \in 1..(n - keep) : tail[i] = s[keep + i]
      BY <3>1
    <3>3. \A i \in 1..(n - keep) : keep + i = i + keep
      BY <3>1
    <3> HIDE DEF n, tail
    <3> QED
      BY <3>2, <3>3 DEF P, n
  <2>6. summary \in Rounds!Message /\ summary.role = "system" /\ summary.uses = << >>
    BY DEF Rounds!SystemText, Rounds!Message, Rounds!Role, Rounds!NoId
  <2> HIDE DEF tail, summary
  <2>7. \A i \in 1..Len(tail) : ~tail[i].summary
    <3>1. SUFFICES ASSUME NEW i \in 1..Len(tail), s[i + keep].summary PROVE FALSE
      BY <2>5
    <3>2. i + keep \in DOMAIN s /\ i \in Nat \ {0}
      BY <2>3, <2>4, <2>5, <3>1
    <3>3. i + keep = 1
      BY <3>1, <3>2 DEF OnlyInFront
    <3>4. 1 \in DOMAIN s /\ s[1].summary /\ keep = 0
      BY <2>4, <3>1, <3>2, <3>3
    <3>5. Rounds!PrefixLen(s) = 1
      BY <3>4, PrefixIs
    <3> QED
      BY <2>2, <2>3, <3>4, <3>5
  <2>8. /\ new \in Seq(Rounds!Message) /\ DOMAIN new = 1..(1 + Len(tail)) /\ Len(tail) \in Nat
        /\ new[1] = summary
        /\ \A i \in 2..(1 + Len(tail)) : new[i] = tail[i - 1]
    BY <2>1, <2>5, <2>6
  <2>9. \A i \in DOMAIN new : new[i].summary => i = 1
    <3> TAKE i \in DOMAIN new
    <3>1. i # 1 => i \in 2..(1 + Len(tail)) /\ i - 1 \in 1..Len(tail)
      BY <2>8
    <3> QED
      BY <2>7, <2>8, <3>1
  <2> QED
    BY <2>6, <2>8, <2>9 DEF OnlyInFront, new
<1> QED
  BY <1>1, <1>2

\* What the loop writes and Trident leaves has at most one summary, in front.
GivenInv ==
    /\ given \in Seq(Rounds!Message) /\ OnlyInFront(given)
    /\ open \in Seq(Nat) /\ serial \in Nat \ {0}

LEMMA AppendStaysInFront ==
    ASSUME NEW s \in Seq(Rounds!Message), OnlyInFront(s), NEW m \in Rounds!Message, ~m.summary
    PROVE  Append(s, m) \in Seq(Rounds!Message) /\ OnlyInFront(Append(s, m))
<1> DEFINE new == Append(s, m)
<1>1. /\ new \in Seq(Rounds!Message) /\ DOMAIN new = 1..(Len(s) + 1) /\ Len(s) \in Nat
      /\ DOMAIN s = 1..Len(s) /\ new[Len(s) + 1] = m /\ \A i \in 1..Len(s) : new[i] = s[i]
  OBVIOUS
<1> HIDE DEF new
<1>2. \A i \in DOMAIN new : i = Len(s) + 1 \/ i \in DOMAIN s
  BY <1>1
<1>3. OnlyInFront(new)
  BY <1>1, <1>2 DEF OnlyInFront
<1> QED
  BY <1>1, <1>3 DEF new

LEMMA UsesAre ==
    ASSUME GivenInv, NEW n \in 1..RoundUses, NEW wanted \in [1..n -> Rounds!Tools \X Rounds!Files]
    PROVE  LET uses == [u \in 1..n |-> [id |-> Rounds!Id(serial + u - 1, wanted[u][1]),
                                        tool |-> wanted[u][1], input |-> wanted[u][2]]]
           IN  /\ uses \in Seq(Rounds!ToolUse)
               /\ [u \in 1..n |-> uses[u].id] \in Seq(Nat)
               /\ n \in Nat
<1> DEFINE Use(u) == [id |-> Rounds!Id(serial + u - 1, wanted[u][1]),
                      tool |-> wanted[u][1], input |-> wanted[u][2]]
           uses == [u \in 1..n |-> Use(u)]
           ids == [u \in 1..n |-> uses[u].id]
<1>1. n \in Nat
  BY RoundsAreNumbers
<1>2. ASSUME NEW u \in 1..n PROVE Use(u) \in Rounds!ToolUse /\ Use(u).id \in Nat
  <2>1. wanted[u] \in Rounds!Tools \X Rounds!Files
    OBVIOUS
  <2>2. wanted[u][1] \in Rounds!Tools /\ wanted[u][2] \in Rounds!Files
    BY <2>1
  <2>3. wanted[u][1] \in FileTools /\ wanted[u][2] \in Files
    BY <2>2 DEF Rounds!Tools, Rounds!Files, FileTools, Files
  <2>4. Rounds!Code[wanted[u][1]] \in {0, 1, 2}
    BY <2>2 DEF Rounds!Code
  <2>5. serial + u - 1 \in Nat \ {0}
    BY <1>1 DEF GivenInv
  <2>6. Rounds!Id(serial + u - 1, wanted[u][1]) \in Nat \ {0}
    BY <2>4, <2>5 DEF Rounds!Id
  <2> QED
    BY <2>3, <2>6 DEF Rounds!ToolUse, Rounds!ToolUseId, Rounds!NoId
<1> HIDE DEF Use
<1>3. uses \in Seq(Rounds!ToolUse)
  BY <1>1, <1>2
<1>4. \A u \in 1..n : ids[u] = Use(u).id
  OBVIOUS
<1>5. ids \in Seq(Nat)
  BY <1>1, <1>2, <1>4
<1> QED
  BY <1>1, <1>3, <1>5 DEF Use

LEMMA GivenSteps == GivenInv /\ Rounds!Next => GivenInv'
<1> SUFFICES ASSUME GivenInv, Rounds!Next PROVE GivenInv'
  OBVIOUS
<1>0. given \in Seq(Rounds!Message) /\ OnlyInFront(given) /\ open \in Seq(Nat) /\ serial \in Nat \ {0}
  BY DEF GivenInv
<1>1. CASE Rounds!User
  <2>1. PICK tokens \in {1, 60} : given' = Append(given, Rounds!UserText(tokens))
    BY <1>1 DEF Rounds!User
  <2>2. Rounds!UserText(tokens) \in Rounds!Message /\ ~Rounds!UserText(tokens).summary
    BY DEF Rounds!UserText, Rounds!Message, Rounds!Role, Rounds!NoId
  <2>3. open' = open /\ serial' = serial
    BY <1>1 DEF Rounds!User
  <2> QED
    BY <1>0, <2>1, <2>2, <2>3, AppendStaysInFront DEF GivenInv
<1>2. CASE Rounds!AssistantText
  <2>1. PICK tokens \in {1, 60} : given' = Append(given, Rounds!AssistantMessage(<< >>, tokens))
    BY <1>2 DEF Rounds!AssistantText
  <2>2. /\ Rounds!AssistantMessage(<< >>, tokens) \in Rounds!Message
        /\ ~Rounds!AssistantMessage(<< >>, tokens).summary
    BY DEF Rounds!AssistantMessage, Rounds!Message, Rounds!Role, Rounds!NoId
  <2>3. open' = open /\ serial' = serial
    BY <1>2 DEF Rounds!AssistantText
  <2> QED
    BY <1>0, <2>1, <2>2, <2>3, AppendStaysInFront DEF GivenInv
<1>3. CASE Rounds!AssistantUses
  <2> DEFINE Uses(n, wanted) ==
                 [u \in 1..n |-> [id |-> Rounds!Id(serial + u - 1, wanted[u][1]),
                                  tool |-> wanted[u][1], input |-> wanted[u][2]]]
  <2>1. PICK n \in 1..RoundUses : \E wanted \in [1..n -> Rounds!Tools \X Rounds!Files] :
            /\ given' = Append(given, Rounds!AssistantMessage(Uses(n, wanted), 1))
            /\ open' = [u \in 1..n |-> Uses(n, wanted)[u].id]
            /\ serial' = serial + n
    BY <1>3 DEF Rounds!AssistantUses
  <2>2. PICK wanted \in [1..n -> Rounds!Tools \X Rounds!Files] :
            /\ given' = Append(given, Rounds!AssistantMessage(Uses(n, wanted), 1))
            /\ open' = [u \in 1..n |-> Uses(n, wanted)[u].id]
            /\ serial' = serial + n
    BY <2>1
  <2> DEFINE uses == Uses(n, wanted)
             m == Rounds!AssistantMessage(uses, 1)
  <2>3. uses \in Seq(Rounds!ToolUse) /\ [u \in 1..n |-> uses[u].id] \in Seq(Nat) /\ n \in Nat
    BY UsesAre
  <2> HIDE DEF Uses
  <2>4. m \in Rounds!Message /\ ~m.summary
    BY <2>3 DEF Rounds!AssistantMessage, Rounds!Message, Rounds!Role, Rounds!NoId
  <2>5. given' = Append(given, m) /\ open' \in Seq(Nat) /\ serial' \in Nat \ {0}
    BY <1>0, <2>2, <2>3
  <2> HIDE DEF m
  <2> QED
    BY <1>0, <2>4, <2>5, AppendStaysInFront DEF GivenInv
<1>4. CASE Rounds!Answer
  <2> DEFINE m == Rounds!ToolResult(open[1], FALSE, 1)
  <2>1. open # << >> /\ given' = Append(given, m) /\ open' = Tail(open) /\ serial' = serial
    BY <1>4 DEF Rounds!Answer
  <2>2. open[1] \in Nat /\ Tail(open) \in Seq(Nat)
    BY <1>0, <2>1
  <2>3. m \in Rounds!Message /\ ~m.summary
    BY <2>2 DEF Rounds!ToolResult, Rounds!Message, Rounds!Role
  <2> HIDE DEF m
  <2> QED
    BY <1>0, <2>1, <2>2, <2>3, AppendStaysInFront DEF GivenInv
<1>5. CASE Rounds!CompactAgain
  <2>1. PICK preserve \in Again : given' = Rounds!TridentCompact(given, preserve, 0).messages
    BY <1>5 DEF Rounds!CompactAgain
  <2>2. open' = open /\ serial' = serial /\ preserve \in Nat
    BY <1>5, RoundsAreNumbers DEF Rounds!CompactAgain
  <2> DEFINE left == Rounds!Stages(given).messages
  <2>3. left \in Seq(Rounds!Message) /\ OnlyInFront(left)
    BY <1>0, StagesLeave DEF Leaves
  <2>4. given' = Rounds!CompactSession(left, preserve, 0).messages
    BY <2>1 DEF Rounds!TridentCompact
  <2> HIDE DEF left
  <2>5. given' \in Seq(Rounds!Message) /\ OnlyInFront(given')
    BY <2>2, <2>3, <2>4, CompactStaysInFront
  <2> QED
    BY <1>0, <2>2, <2>5 DEF GivenInv, OnlyInFront
<1> QED
  BY <1>1, <1>2, <1>3, <1>4, <1>5 DEF Rounds!Next

LEMMA GivenSafe == EachSpec => []GivenInv
<1>1. EachInit => GivenInv
  BY DEF EachInit, Rounds!Init, GivenInv, OnlyInFront
<1>2. GivenInv /\ [EachNext]_eachVars => GivenInv'
  <2> SUFFICES ASSUME GivenInv, [EachNext]_eachVars PROVE GivenInv'
    OBVIOUS
  <2>1. UNCHANGED tridentVars => GivenInv'
    BY DEF tridentVars, GivenInv, OnlyInFront
  <2>2. Rounds!Next \/ UNCHANGED tridentVars
    BY DEF EachNext, eachVars
  <2> QED
    BY <2>1, <2>2, GivenSteps
<1> QED
  BY <1>1, <1>2, PTL DEF EachSpec

\* Whatever transcript the loop has written and Trident compacted, its stages
\* leave what they do not replace as it was, in the order it was in, and an
\* earlier summary in front: stage1_supersede, stage2_collapse and
\* stage3_cluster (trident.rs).
THEOREM StagesKeepTheOrder == EachSpec => []SurvivorsInOrder
<1>1. GivenInv => SurvivorsInOrder
  BY StagesKeepOrder DEF GivenInv
<1> QED
  BY <1>1, GivenSafe, PTL

\* The newest write of every file outlives stage 1 where no answer holds two
\* tool uses: stage1_supersede (trident.rs).
THEOREM NewestWritesOutlive == EachSpec => []NewestWritesSurvive
<1>1. GivenInv => NewestWritesSurvive
  BY NewestWritesStay DEF GivenInv
<1> QED
  BY <1>1, GivenSafe, PTL

----------------------------------------------------------------------------
(* V. Frames                                                                *)

(***************************************************************************)
(* The text of an answer is one unit after the other, each a frame and its *)
(* blank line.  Of what has come, some frames are cut out and the next one *)
(* begins the buffer: no blank line is found before the one that ends it.  *)
(***************************************************************************)

Width(end) == IF end = "LF" THEN 5 ELSE 7

\* What comes before the frame k.
Before(end, k) == (k - 1) * Width(end)

LEMMA BeforeIs ==
    ASSUME NEW end
    PROVE  /\ Width(end) \in {5, 7} /\ Before(end, 1) = 0
           /\ \A k \in Nat \ {0} : /\ Before(end, k) \in Nat
                                   /\ Before(end, k + 1) = Before(end, k) + Width(end)
           /\ \A k, l \in Nat \ {0} : k < l => Before(end, k) + Width(end) <= Before(end, l)
<1>1. CASE end = "LF"
  BY <1>1 DEF Before, Width
<1>2. CASE end # "LF"
  BY <1>2 DEF Before, Width
<1> QED
  BY <1>1, <1>2

\* A frame of an answer, with its blank line.
Unit(f, end) == Streams!Messages!Data(f) \o Streams!Messages!Blank(end)

LEMMA UnitIs ==
    ASSUME NEW f \in Streams!Messages!Frame, NEW end \in Streams!Messages!LineEnd
    PROVE  /\ Streams!Messages!Data(f) \in Seq(Streams!Messages!Piece) /\ Len(Streams!Messages!Data(f)) = 3
           /\ Streams!Messages!Blank(end) \in Seq(Streams!Messages!Piece) /\ Len(Streams!Messages!Blank(end)) = Width(end) - 3
           /\ Unit(f, end) \in Seq(Streams!Messages!Piece) /\ Len(Unit(f, end)) = Width(end)
           /\ \A j \in 1..3 : Streams!Messages!Data(f)[j] = <<f, j>> /\ Unit(f, end)[j] = <<f, j>>
           /\ IF end = "LF"
              THEN Unit(f, end)[4] = Streams!Messages!Lf /\ Unit(f, end)[5] = Streams!Messages!Lf
              ELSE Unit(f, end)[4] = Streams!Messages!Cr /\ Unit(f, end)[5] = Streams!Messages!Lf
                   /\ Unit(f, end)[6] = Streams!Messages!Cr /\ Unit(f, end)[7] = Streams!Messages!Lf
<1> DEFINE d == Streams!Messages!Data(f)
           b == Streams!Messages!Blank(end)
           P == Streams!Messages!Piece
<1>1. /\ <<f, 1>> \in P /\ <<f, 2>> \in P /\ <<f, 3>> \in P /\ Streams!Messages!Lf \in P /\ Streams!Messages!Cr \in P
  BY DEF Streams!Messages!Piece, Streams!Messages!Lf, Streams!Messages!Cr
<1> HIDE DEF P
<1>2. d \in Seq(P) /\ Len(d) = 3 /\ d[1] = <<f, 1>> /\ d[2] = <<f, 2>> /\ d[3] = <<f, 3>>
  BY <1>1 DEF Streams!Messages!Data
<1>3. /\ b \in Seq(P) /\ Len(b) = Width(end) - 3
      /\ IF end = "LF" THEN b[1] = Streams!Messages!Lf /\ b[2] = Streams!Messages!Lf
         ELSE b[1] = Streams!Messages!Cr /\ b[2] = Streams!Messages!Lf /\ b[3] = Streams!Messages!Cr /\ b[4] = Streams!Messages!Lf
  <2>1. CASE end = "LF"
    BY <1>1, <2>1 DEF Streams!Messages!Blank, Width
  <2>2. CASE end # "LF"
    BY <1>1, <2>2 DEF Streams!Messages!Blank, Width
  <2> QED
    BY <2>1, <2>2
<1>4. Unit(f, end) = d \o b
  BY DEF Unit
<1> HIDE DEF d, b
<1>5. Width(end) = IF end = "LF" THEN 5 ELSE 7
  BY DEF Width
<1> DEFINE u == Unit(f, end)
<1>6. /\ u \in Seq(P) /\ Len(u) = Width(end)
      /\ \A j \in 1..Len(u) : u[j] = IF j <= 3 THEN d[j] ELSE b[j - 3]
  <2>1. /\ d \o b \in Seq(P) /\ Len(d \o b) = Len(d) + Len(b)
        /\ \A j \in 1..(Len(d) + Len(b)) : (d \o b)[j] = IF j <= Len(d) THEN d[j] ELSE b[j - Len(d)]
    BY <1>2, <1>3, ConcatProperties
  <2> HIDE DEF u
  <2>2. u = d \o b /\ Len(d) = 3 /\ Len(d) + Len(b) = Width(end)
    BY <1>2, <1>3, <1>4, <1>5 DEF u
  <2> QED
    BY <2>1, <2>2
<1> HIDE DEF u
<1>7. \A j \in 1..3 : d[j] = <<f, j>> /\ u[j] = <<f, j>>
  BY <1>2, <1>5, <1>6
<1>8. IF end = "LF" THEN u[4] = Streams!Messages!Lf /\ u[5] = Streams!Messages!Lf
      ELSE u[4] = Streams!Messages!Cr /\ u[5] = Streams!Messages!Lf /\ u[6] = Streams!Messages!Cr /\ u[7] = Streams!Messages!Lf
  BY <1>3, <1>5, <1>6
<1> QED
  BY <1>2, <1>3, <1>6, <1>7, <1>8 DEF d, b, u, P

LEMMA UnitEnds ==
    ASSUME NEW f \in Streams!Messages!Frame, NEW end \in Streams!Messages!LineEnd, NEW j \in 1..Width(end)
    PROVE  /\ j \in {1, 2, 3} <=> Unit(f, end)[j] \notin {Streams!Messages!Lf, Streams!Messages!Cr}
           /\ Unit(f, end)[j] = Streams!Messages!Cr <=> end # "LF" /\ j \in {4, 6}
           /\ Unit(f, end)[j] = Streams!Messages!Lf <=> IF end = "LF" THEN j \in {4, 5} ELSE j \in {5, 7}
<1> DEFINE u == Unit(f, end)
<1>1. Streams!Messages!Lf # Streams!Messages!Cr /\ \A i \in 1..3 : <<f, i>> # Streams!Messages!Lf /\ <<f, i>> # Streams!Messages!Cr
  BY DEF Streams!Messages!Lf, Streams!Messages!Cr
<1>2. \A i \in 1..3 : u[i] \notin {Streams!Messages!Lf, Streams!Messages!Cr}
  BY <1>1, UnitIs
<1>3. IF end = "LF" THEN u[4] = Streams!Messages!Lf /\ u[5] = Streams!Messages!Lf
      ELSE u[4] = Streams!Messages!Cr /\ u[5] = Streams!Messages!Lf /\ u[6] = Streams!Messages!Cr /\ u[7] = Streams!Messages!Lf
  BY UnitIs
<1> HIDE DEF u
<1>4. CASE end = "LF"
  <2>1. j \in {1, 2, 3, 4, 5}
    BY <1>4 DEF Width
  <2> QED
    BY <1>1, <1>2, <1>3, <1>4, <2>1 DEF u
<1>5. CASE end # "LF"
  <2>1. j \in {1, 2, 3, 4, 5, 6, 7}
    BY <1>5 DEF Width
  <2> QED
    BY <1>1, <1>2, <1>3, <1>5, <2>1 DEF u
<1> QED
  BY <1>4, <1>5

\* The text of an answer, frame by frame.
LEMMA TextIs ==
    ASSUME NEW fs \in Seq(Streams!Messages!Frame), NEW end \in Streams!Messages!LineEnd, NEW closed \in BOOLEAN
    PROVE  LET t == Streams!Messages!Text(fs, end, closed)
           IN  /\ t \in Seq(Streams!Messages!Piece)
               /\ IF fs = << >> THEN Len(t) = 0
                  ELSE Len(t) \in {Before(end, Len(fs)) + 3, Before(end, Len(fs)) + Width(end)}
               /\ \A k \in 1..Len(fs), j \in 1..Width(end) :
                     Before(end, k) + j <= Len(t) => t[Before(end, k) + j] = Unit(fs[k], end)[j]
               /\ \A p \in 1..Len(t) : \E k \in 1..Len(fs), j \in 1..Width(end) : p = Before(end, k) + j
<1> DEFINE t == Streams!Messages!Text(fs, end, closed)
           w == Width(end)
           unit == [k \in 1..Len(fs) |-> Unit(fs[k], end)]
           size == Len(fs) * w - (IF closed \/ fs = << >> THEN 0 ELSE w - 3)
<1>1. w \in {5, 7} /\ Len(fs) \in Nat /\ (fs = << >> <=> Len(fs) = 0)
  BY EmptySeq, BeforeIs
<1>2. t = [p \in 1..size |-> unit[((p - 1) \div w) + 1][((p - 1) % w) + 1]]
  <2> DEFINE b == Len(Streams!Messages!Blank(end))
  <2>1. b = w - 3 /\ 3 + b = w
    BY <1>1, UnitIs DEF Streams!Messages!Frame
  <2>2. t = [p \in 1..(Len(fs) * (3 + b) - (IF closed \/ fs = << >> THEN 0 ELSE b)) |->
                unit[((p - 1) \div (3 + b)) + 1][((p - 1) % (3 + b)) + 1]]
    BY DEF Streams!Messages!Text, Unit
  <2> HIDE DEF b, w, unit, t
  <2> QED
    BY <2>1, <2>2
<1>3. /\ size \in Nat
      /\ IF fs = << >> THEN size = 0
         ELSE size \in {Before(end, Len(fs)) + 3, Before(end, Len(fs)) + w}
      /\ size <= Len(fs) * w
  <2>1. CASE w = 5
    BY <1>1, <2>1 DEF Before
  <2>2. CASE w = 7
    BY <1>1, <2>2 DEF Before
  <2> QED
    BY <1>1, <2>1, <2>2
<1>4. ASSUME NEW p \in 1..size
      PROVE  LET k == ((p - 1) \div w) + 1
                 j == ((p - 1) % w) + 1
             IN  k \in 1..Len(fs) /\ j \in 1..w /\ p = Before(end, k) + j
  <2>1. CASE w = 5
    BY <1>1, <1>3, <2>1 DEF Before
  <2>2. CASE w = 7
    BY <1>1, <1>3, <2>2 DEF Before
  <2> QED
    BY <1>1, <2>1, <2>2
<1>5. ASSUME NEW k \in 1..Len(fs), NEW j \in 1..w, NEW p, p = Before(end, k) + j, p <= size
      PROVE  p \in 1..size /\ k = ((p - 1) \div w) + 1 /\ j = ((p - 1) % w) + 1
  <2>1. CASE w = 5
    BY <1>1, <1>3, <1>5, <2>1 DEF Before
  <2>2. CASE w = 7
    BY <1>1, <1>3, <1>5, <2>2 DEF Before
  <2> QED
    BY <1>1, <2>1, <2>2
<1>6. \A k \in 1..Len(fs) : unit[k] = Unit(fs[k], end)
  OBVIOUS
<1>7. ASSUME NEW k \in 1..Len(fs) PROVE unit[k] \in [1..w -> Streams!Messages!Piece]
  BY <1>1, UnitIs
<1> HIDE DEF size, unit, t
<1>8. t \in Seq(Streams!Messages!Piece) /\ Len(t) = size
  <2>1. t \in [1..size -> Streams!Messages!Piece]
    BY <1>2, <1>4, <1>7
  <2> QED
    BY <1>3, <2>1
<1>9. \A k \in 1..Len(fs), j \in 1..w :
         Before(end, k) + j <= size => t[Before(end, k) + j] = Unit(fs[k], end)[j]
  BY <1>2, <1>5, <1>6
<1>10. \A p \in 1..size : \E k \in 1..Len(fs), j \in 1..w : p = Before(end, k) + j
  BY <1>4
<1> QED
  BY <1>3, <1>8, <1>9, <1>10 DEF t

\* What of the text of an answer has come and is not cut into frames yet: it
\* begins with the frame k.
Rest(end, t, k, a) == SubSeq(t, Before(end, k) + 1, a)

LEMMA RestIs ==
    ASSUME NEW fs \in Seq(Streams!Messages!Frame), NEW end \in Streams!Messages!LineEnd, NEW closed \in BOOLEAN, NEW t,
           t = Streams!Messages!Text(fs, end, closed), NEW k \in 1..(Len(fs) + 1), NEW a \in 0..Len(t),
           Before(end, k) <= a
    PROVE  LET b == Rest(end, t, k, a)
               n == a - Before(end, k)
           IN  /\ b \in Seq(Streams!Messages!Piece) /\ Len(b) = n /\ n \in Nat
               /\ n > 0 => k <= Len(fs)
               /\ \A i \in 1..n : i <= Width(end) => b[i] = Unit(fs[k], end)[i]
               /\ end = "LF" => \A i \in 1..n : b[i] # Streams!Messages!Cr
               /\ end # "LF" => \A i \in 1..(n - 1) : ~(b[i] = Streams!Messages!Lf /\ b[i + 1] = Streams!Messages!Lf)
               /\ n >= Width(end) =>
                     SubSeq(b, Width(end) + 1, n) = Rest(end, t, k + 1, a)
<1> DEFINE b == Rest(end, t, k, a)
           s == Before(end, k)
           n == a - s
           w == Width(end)
<1>1. /\ \A l \in 1..Len(fs), j \in 1..w :
            Before(end, l) + j <= Len(t) => t[Before(end, l) + j] = Unit(fs[l], end)[j]
      /\ \A p \in 1..Len(t) : \E l \in 1..Len(fs), j \in 1..w : p = Before(end, l) + j
  BY TextIs
<1>2. t \in Seq(Streams!Messages!Piece) /\ s \in Nat /\ w \in {5, 7} /\ n \in Nat /\ Len(t) \in Nat /\ Len(fs) \in Nat
      /\ k \in Nat \ {0}
  <2>1. t \in Seq(Streams!Messages!Piece)
    BY TextIs
  <2> DEFINE P == Streams!Messages!Piece
  <2> HIDE DEF P
  <2>2. Len(t) \in Nat
    BY <2>1
  <2>3. Len(fs) \in Nat /\ k \in Nat \ {0} /\ a \in Nat
    BY <2>2
  <2>4. s \in Nat /\ w \in {5, 7}
    BY <2>3, BeforeIs
  <2> HIDE DEF s, w
  <2>5. n \in Nat
    BY <2>3, <2>4 DEF s
  <2> QED
    BY <2>1, <2>2, <2>3, <2>4, <2>5
<1>3. /\ b \in Seq(Streams!Messages!Piece) /\ Len(b) = n
      /\ \A i \in 1..n : s + i \in 1..Len(t) /\ b[i] = t[s + i]
  <2> DEFINE P == Streams!Messages!Piece
  <2>1. t \in Seq(P)
    BY <1>2
  <2> HIDE DEF P
  <2>2. SubSeq(t, s + 1, a) \in Seq(P) /\ Len(SubSeq(t, s + 1, a)) = n
        /\ \A i \in 1..n : s + i \in 1..Len(t) /\ SubSeq(t, s + 1, a)[i] = t[s + i]
    BY <1>2, <2>1
  <2> QED
    BY <2>2 DEF Rest, P
<1> HIDE DEF b, n, s, w
<1>4. \A l \in Nat \ {0} : Before(end, l) \in Nat
  BY BeforeIs
<1>5. \A l, m \in Nat \ {0} : l < m => Before(end, l) + w <= Before(end, m)
  BY BeforeIs DEF w
<1> HIDE DEF w
<1>6. n > 0 => k <= Len(fs)
  <2>1. SUFFICES ASSUME n > 0, k = Len(fs) + 1 PROVE FALSE
    BY <1>2
  <2>2. PICK l \in 1..Len(fs), j \in 1..w : s + 1 = Before(end, l) + j
    BY <1>1, <1>2, <1>3, <2>1
  <2>3. Before(end, l) + w <= s
    <3>1. l < k /\ l \in Nat \ {0}
      BY <1>2, <2>1
    <3> QED
      BY <1>2, <1>5, <3>1 DEF s
  <2>4. Before(end, l) \in Nat
    BY <1>2, <1>4
  <2> QED
    BY <1>2, <2>2, <2>3, <2>4
<1>7. ASSUME NEW i \in 1..n, i <= w PROVE b[i] = Unit(fs[k], end)[i]
  <2>1. k \in 1..Len(fs) /\ s + i <= Len(t)
    BY <1>2, <1>3, <1>6
  <2>2. i \in 1..w
    BY <1>2, <1>7
  <2> QED
    BY <1>1, <1>3, <2>1, <2>2 DEF s
<1>8. ASSUME NEW i \in 1..n
      PROVE  \E l \in 1..Len(fs), j \in 1..w : s + i = Before(end, l) + j /\ b[i] = Unit(fs[l], end)[j]
  <2>1. s + i \in 1..Len(t) /\ b[i] = t[s + i]
    BY <1>3
  <2>2. PICK l \in 1..Len(fs), j \in 1..w : s + i = Before(end, l) + j
    BY <1>1, <2>1
  <2>3. Before(end, l) + j <= Len(t)
    BY <2>1, <2>2, <1>2
  <2> QED
    BY <1>1, <2>1, <2>2, <2>3
<1>9. \A l \in 1..Len(fs) : fs[l] \in Streams!Messages!Frame
  OBVIOUS
<1>10. ASSUME end = "LF", NEW i \in 1..n PROVE b[i] # Streams!Messages!Cr
  <2>1. PICK l \in 1..Len(fs), j \in 1..w : b[i] = Unit(fs[l], end)[j]
    BY <1>8
  <2>2. Unit(fs[l], end)[j] # Streams!Messages!Cr
    BY <1>9, <1>10, UnitEnds DEF w
  <2> QED
    BY <2>1, <2>2
<1>11. ASSUME end # "LF", NEW i \in 1..(n - 1) PROVE ~(b[i] = Streams!Messages!Lf /\ b[i + 1] = Streams!Messages!Lf)
  <2>1. PICK l \in 1..Len(fs), j \in 1..w : s + i = Before(end, l) + j /\ b[i] = Unit(fs[l], end)[j]
    <3>1. i \in 1..n
      BY <1>2
    <3> QED
      BY <1>8, <3>1
  <2>2. PICK m \in 1..Len(fs), h \in 1..w :
            s + (i + 1) = Before(end, m) + h /\ b[i + 1] = Unit(fs[m], end)[h]
    <3>1. i + 1 \in 1..n
      BY <1>2
    <3> QED
      BY <1>8, <3>1
  <2>3. ASSUME NEW g \in 1..Len(fs), NEW x \in 1..w, Unit(fs[g], end)[x] = Streams!Messages!Lf PROVE x \in {5, 7}
    BY <1>9, <1>11, <2>3, UnitEnds DEF w
  <2>4. SUFFICES ASSUME j \in {5, 7}, h \in {5, 7} PROVE FALSE
    BY <2>1, <2>2, <2>3
  <2>5. w = 7
    BY <1>11 DEF w, Width
  <2>6. Before(end, l) \in Nat /\ Before(end, m) \in Nat
    BY <1>4
  <2>7. CASE l = m
    BY <1>2, <2>1, <2>2, <2>4, <2>6, <2>7
  <2>8. CASE l < m
    <3>1. Before(end, l) + w <= Before(end, m)
      BY <1>5, <2>8
    <3> QED
      BY <1>2, <2>1, <2>2, <2>4, <2>5, <2>6, <3>1, SMTT(60)
  <2>9. CASE m < l
    <3>1. Before(end, m) + w <= Before(end, l)
      BY <1>5, <2>9
    <3> QED
      BY <1>2, <2>1, <2>2, <2>4, <2>5, <2>6, <3>1, SMTT(60)
  <2> QED
    BY <2>7, <2>8, <2>9
<1>12. ASSUME n >= w PROVE SubSeq(b, w + 1, n) = Rest(end, t, k + 1, a)
  <2>1. Before(end, k + 1) = s + w
    BY <1>2, BeforeIs DEF s, w
  <2>2. b = SubSeq(t, s + 1, a)
    BY DEF b, s, Rest
  <2>3. SubSeq(SubSeq(t, s + 1, a), w + 1, n) = SubSeq(t, s + w + 1, a)
    <3> DEFINE x == SubSeq(b, w + 1, n)
               y == SubSeq(t, s + w + 1, a)
               P == Streams!Messages!Piece
    <3>1. t \in Seq(P) /\ b \in Seq(P)
      BY <1>2, <1>3
    <3> HIDE DEF P
    <3> DEFINE m == n - w
    <3>2. m \in Nat /\ w \in Nat /\ n = w + m
      BY <1>2, <1>12
    <3>3. Len(b) = w + m
      BY <1>3, <3>2
    <3> HIDE DEF m
    <3>4. x \in Seq(P) /\ Len(x) = m /\ \A i \in 1..m : x[i] = b[w + i]
      <4>1. x = SubSeq(b, w + 1, w + m)
        BY <3>2
      <4> HIDE DEF x
      <4> QED
        BY <3>1, <3>2, <3>3, <4>1
    <3> DEFINE v == s + w
    <3>5. a = v + m /\ v \in Nat /\ v + m <= Len(t)
      BY <1>2, <3>2 DEF n
    <3>6. \A i \in 1..m : b[w + i] = t[v + i]
      <4> SUFFICES ASSUME NEW i \in 1..m PROVE b[w + i] = t[v + i]
        OBVIOUS
      <4>1. w + i \in 1..n /\ s + (w + i) = v + i
        BY <1>2, <3>2
      <4> QED
        BY <1>3, <4>1
    <3>7. y \in Seq(P) /\ Len(y) = m /\ \A i \in 1..m : y[i] = t[v + i]
      <4> HIDE DEF v
      <4>1. SubSeq(t, v + 1, v + m) \in Seq(P) /\ Len(SubSeq(t, v + 1, v + m)) = m
            /\ \A i \in 1..m : SubSeq(t, v + 1, v + m)[i] = t[v + i]
        BY <1>2, <3>1, <3>5, <3>2
      <4>2. y = SubSeq(t, v + 1, v + m)
        BY <3>5 DEF v
      <4> QED
        BY <4>1, <4>2
    <3> HIDE DEF x, y
    <3>8. x = y
      BY <3>4, <3>7, <3>6, SeqEqual
    <3> QED
      BY <2>2, <3>8 DEF x, y
  <2> QED
    BY <2>1, <2>2, <2>3 DEF Rest
<1> QED
  BY <1>2, <1>3, <1>6, <1>7, <1>10, <1>11, <1>12 DEF b, n, s, w

----------------------------------------------------------------------------
(* Blank lines                                                              *)

\* Where a blank line is.
LfAt(b, p) == p + 1 <= Len(b) /\ b[p] = Streams!Messages!Lf /\ b[p + 1] = Streams!Messages!Lf
CrLfAt(b, p) == p + 3 <= Len(b) /\ b[p] = Streams!Messages!Cr /\ b[p + 1] = Streams!Messages!Lf /\ b[p + 2] = Streams!Messages!Cr /\ b[p + 3] = Streams!Messages!Lf

LEMMA SeparatorsAre ==
    ASSUME NEW b \in Seq(Streams!Messages!Piece)
    PROVE  \A s : s \in Streams!Messages!Separators(b) <=>
               \E p \in 1..Len(b) : (s = <<p, 2>> /\ LfAt(b, p)) \/ (s = <<p, 4>> /\ CrLfAt(b, p))
<1> DEFINE P == Streams!Messages!Piece
           n == Len(b)
<1>1. Streams!Messages!Lf \in P /\ Streams!Messages!Cr \in P
  BY DEF Streams!Messages!Piece, Streams!Messages!Lf, Streams!Messages!Cr
<1>2. b \in Seq(P) /\ n \in Nat
  OBVIOUS
<1> HIDE DEF P
<1>3. ASSUME NEW p \in 1..n
      PROVE  (p + 2 - 1 <= n /\ SubSeq(b, p, p + 2 - 1) = <<Streams!Messages!Lf, Streams!Messages!Lf>>) <=> LfAt(b, p)
  <2>1. ASSUME p + 1 <= n
        PROVE  SubSeq(b, p, p + 1) = <<Streams!Messages!Lf, Streams!Messages!Lf>> <=> b[p] = Streams!Messages!Lf /\ b[p + 1] = Streams!Messages!Lf
    <3> DEFINE x == SubSeq(b, p, p + 1)
    <3>1. x \in Seq(P) /\ Len(x) = 2 /\ x[1] = b[p] /\ x[2] = b[p + 1]
      BY <1>2, <2>1
    <3> HIDE DEF x
    <3>2. x = <<Streams!Messages!Lf, Streams!Messages!Lf>> <=> x[1] = Streams!Messages!Lf /\ x[2] = Streams!Messages!Lf
      <4>1. <<Streams!Messages!Lf, Streams!Messages!Lf>> \in Seq(P) /\ Len(<<Streams!Messages!Lf, Streams!Messages!Lf>>) = 2
        BY <1>1
      <4>2. \A i \in 1..2 : i = 1 \/ i = 2
        OBVIOUS
      <4> QED
        BY <3>1, <4>1, <4>2, SeqEqual
    <3> QED
      BY <3>1, <3>2 DEF x
  <2>2. p + 2 - 1 = p + 1
    OBVIOUS
  <2> QED
    BY <2>1, <2>2 DEF LfAt
<1>4. ASSUME NEW p \in 1..n
      PROVE  (p + 4 - 1 <= n /\ SubSeq(b, p, p + 4 - 1) = <<Streams!Messages!Cr, Streams!Messages!Lf, Streams!Messages!Cr, Streams!Messages!Lf>>) <=> CrLfAt(b, p)
  <2>1. ASSUME p + 3 <= n
        PROVE  SubSeq(b, p, p + 3) = <<Streams!Messages!Cr, Streams!Messages!Lf, Streams!Messages!Cr, Streams!Messages!Lf>>
                   <=> b[p] = Streams!Messages!Cr /\ b[p + 1] = Streams!Messages!Lf /\ b[p + 2] = Streams!Messages!Cr /\ b[p + 3] = Streams!Messages!Lf
    <3> DEFINE x == SubSeq(b, p, p + 3)
               y == <<Streams!Messages!Cr, Streams!Messages!Lf, Streams!Messages!Cr, Streams!Messages!Lf>>
    <3>1. x \in Seq(P) /\ Len(x) = 4 /\ x[1] = b[p] /\ x[2] = b[p + 1] /\ x[3] = b[p + 2]
          /\ x[4] = b[p + 3]
      BY <1>2, <2>1, SMTT(60)
    <3> HIDE DEF x
    <3>2. y \in Seq(P) /\ Len(y) = 4 /\ y[1] = Streams!Messages!Cr /\ y[2] = Streams!Messages!Lf /\ y[3] = Streams!Messages!Cr /\ y[4] = Streams!Messages!Lf
      BY <1>1
    <3> HIDE DEF y
    <3>3. x = y <=> x[1] = Streams!Messages!Cr /\ x[2] = Streams!Messages!Lf /\ x[3] = Streams!Messages!Cr /\ x[4] = Streams!Messages!Lf
      <4>1. \A i \in 1..4 : i = 1 \/ i = 2 \/ i = 3 \/ i = 4
        OBVIOUS
      <4> QED
        BY <3>1, <3>2, <4>1, SeqEqual
    <3> QED
      BY <3>1, <3>3 DEF x, y
  <2>2. p + 4 - 1 = p + 3
    OBVIOUS
  <2> QED
    BY <2>1, <2>2 DEF CrLfAt
<1>5. \A p, l : <<p, l>> \in Streams!Messages!Separators(b) <=>
          /\ p \in 1..n /\ l \in {2, 4} /\ p + l - 1 <= n
          /\ SubSeq(b, p, p + l - 1)
                 = IF l = 2 THEN <<Streams!Messages!Lf, Streams!Messages!Lf>> ELSE <<Streams!Messages!Cr, Streams!Messages!Lf, Streams!Messages!Cr, Streams!Messages!Lf>>
  BY DEF Streams!Messages!Separators, Streams!Messages!Blank
<1>6. \A s : s \in Streams!Messages!Separators(b) => \E p \in 1..n, l \in {2, 4} : s = <<p, l>>
  BY DEF Streams!Messages!Separators
<1>7. ASSUME NEW p \in 1..n
      PROVE  /\ <<p, 2>> \in Streams!Messages!Separators(b) <=> LfAt(b, p)
             /\ <<p, 4>> \in Streams!Messages!Separators(b) <=> CrLfAt(b, p)
  <2>1. <<p, 2>> \in Streams!Messages!Separators(b)
            <=> p + 2 - 1 <= n /\ SubSeq(b, p, p + 2 - 1) = <<Streams!Messages!Lf, Streams!Messages!Lf>>
    BY <1>5
  <2>2. <<p, 4>> \in Streams!Messages!Separators(b)
            <=> p + 4 - 1 <= n /\ SubSeq(b, p, p + 4 - 1) = <<Streams!Messages!Cr, Streams!Messages!Lf, Streams!Messages!Cr, Streams!Messages!Lf>>
    <3> DEFINE blank == <<Streams!Messages!Cr, Streams!Messages!Lf, Streams!Messages!Cr, Streams!Messages!Lf>>
               other == <<Streams!Messages!Lf, Streams!Messages!Lf>>
    <3>1. \A l : <<p, l>> \in Streams!Messages!Separators(b) <=>
              /\ p \in 1..n /\ l \in {2, 4} /\ p + l - 1 <= n
              /\ SubSeq(b, p, p + l - 1) = IF l = 2 THEN other ELSE blank
      BY <1>5
    <3> HIDE DEF blank, other, n
    <3>2. <<p, 4>> \in Streams!Messages!Separators(b) <=>
              /\ p \in 1..n /\ 4 \in {2, 4} /\ p + 4 - 1 <= n
              /\ SubSeq(b, p, p + 4 - 1) = IF 4 = 2 THEN other ELSE blank
      BY <3>1
    <3> QED
      BY <3>2 DEF blank, n
  <2> QED
    BY <1>3, <1>4, <2>1, <2>2
<1> HIDE DEF n
<1> QED
  BY <1>6, <1>7 DEF n

\* The frame that is cut out next is the next of the answer, if all of it and
\* its blank line have come.
LEMMA CutIs ==
    ASSUME NEW fs \in Seq(Streams!Messages!Frame), NEW end \in Streams!Messages!LineEnd, NEW closed \in BOOLEAN, NEW t,
           t = Streams!Messages!Text(fs, end, closed), NEW k \in 1..(Len(fs) + 1), NEW a \in 0..Len(t),
           Before(end, k) <= a
    PROVE  LET b == Rest(end, t, k, a)
               n == a - Before(end, k)
           IN  IF n < Width(end) THEN Streams!Messages!Separators(b) = {}
               ELSE /\ Streams!Messages!Separators(b) # {}
                    /\ Streams!Messages!FirstSeparator(b) = <<4, Width(end) - 3>>
                    /\ SubSeq(b, 1, 3) = Streams!Messages!Data(fs[k])
<1> DEFINE b == Rest(end, t, k, a)
           n == a - Before(end, k)
           w == Width(end)
<1>1. /\ b \in Seq(Streams!Messages!Piece) /\ Len(b) = n /\ n \in Nat
      /\ n > 0 => k <= Len(fs)
      /\ \A i \in 1..n : i <= w => b[i] = Unit(fs[k], end)[i]
      /\ end = "LF" => \A i \in 1..n : b[i] # Streams!Messages!Cr
      /\ end # "LF" => \A i \in 1..(n - 1) : ~(b[i] = Streams!Messages!Lf /\ b[i + 1] = Streams!Messages!Lf)
  BY RestIs
<1>2. w = IF end = "LF" THEN 5 ELSE 7
  BY DEF Width
<1> HIDE DEF b, n
<1>3. ASSUME n > 0
      PROVE  /\ fs[k] \in Streams!Messages!Frame
             /\ \A i \in 1..n : i <= w => /\ i <= 3 => b[i] \notin {Streams!Messages!Lf, Streams!Messages!Cr}
                                          /\ b[i] = Streams!Messages!Cr => i \in {4, 6}
                                          /\ b[i] = Streams!Messages!Lf => IF end = "LF" THEN i \in {4, 5} ELSE i \in {5, 7}
  <2>1. fs[k] \in Streams!Messages!Frame
    BY <1>1, <1>3
  <2>2. ASSUME NEW i \in 1..n, i <= w
        PROVE  /\ i <= 3 => b[i] \notin {Streams!Messages!Lf, Streams!Messages!Cr}
               /\ b[i] = Streams!Messages!Cr => i \in {4, 6}
               /\ b[i] = Streams!Messages!Lf => IF end = "LF" THEN i \in {4, 5} ELSE i \in {5, 7}
    <3>1. i \in 1..w /\ b[i] = Unit(fs[k], end)[i] /\ (i <= 3 => i \in {1, 2, 3})
      BY <1>1, <1>2, <2>2
    <3> QED
      BY <2>1, <3>1, UnitEnds
  <2> QED
    BY <2>1, <2>2
<1>4. ASSUME NEW p \in 1..n, LfAt(b, p) PROVE end = "LF" /\ p >= 4 /\ (p = 4 => n >= w)
  BY <1>1, <1>2, <1>3, <1>4 DEF LfAt
<1>5. ASSUME NEW p \in 1..n, CrLfAt(b, p) PROVE end # "LF" /\ p >= 4 /\ (p = 4 => n >= w)
  BY <1>1, <1>2, <1>3, <1>5 DEF CrLfAt
<1>6. CASE n < w
  <2>1. ASSUME NEW p \in 1..n PROVE ~LfAt(b, p) /\ ~CrLfAt(b, p)
    <3>1. SUFFICES ASSUME LfAt(b, p) \/ CrLfAt(b, p) PROVE FALSE
      OBVIOUS
    <3>2. CASE LfAt(b, p)
      BY <1>1, <1>2, <1>3, <1>4, <1>6, <3>2 DEF LfAt
    <3>3. CASE CrLfAt(b, p)
      BY <1>1, <1>2, <1>3, <1>5, <1>6, <3>3 DEF CrLfAt
    <3> QED
      BY <3>1, <3>2, <3>3
  <2>2. Streams!Messages!Separators(b) = {}
    BY <1>1, <2>1, SeparatorsAre
  <2> QED
    BY <1>6, <2>2 DEF b, n
<1>7. CASE ~(n < w)
  <2>1. n >= w /\ n > 0 /\ k \in 1..Len(fs)
    BY <1>1, <1>2, <1>7
  <2> DEFINE first == <<4, w - 3>>
  <2>2. first \in Streams!Messages!Separators(b)
    <3>1. CASE end = "LF"
      <4>1. first = <<4, 2>> /\ 4 \in 1..n
        BY <1>1, <1>2, <2>1, <3>1
      <4>2. LfAt(b, 4)
        <5>1. b[4] = Unit(fs[k], end)[4] /\ b[5] = Unit(fs[k], end)[5]
          BY <1>1, <1>2, <2>1, <3>1
        <5>2. Unit(fs[k], end)[4] = Streams!Messages!Lf /\ Unit(fs[k], end)[5] = Streams!Messages!Lf
          BY <1>3, <2>1, <3>1, UnitIs
        <5> QED
          BY <1>1, <1>2, <2>1, <3>1, <5>1, <5>2 DEF LfAt
      <4> QED
        BY <1>1, <4>1, <4>2, SeparatorsAre
    <3>2. CASE end # "LF"
      <4>1. first = <<4, 4>> /\ 4 \in 1..n
        BY <1>1, <1>2, <2>1, <3>2
      <4>2. CrLfAt(b, 4)
        <5>1. \A i \in 4..7 : b[i] = Unit(fs[k], end)[i]
          BY <1>1, <1>2, <2>1, <3>2
        <5> DEFINE u == Unit(fs[k], end)
        <5>2. u[4] = Streams!Messages!Cr /\ u[5] = Streams!Messages!Lf /\ u[6] = Streams!Messages!Cr /\ u[7] = Streams!Messages!Lf
          BY <1>3, <2>1, <3>2, UnitIs
        <5> QED
          BY <1>1, <1>2, <2>1, <3>2, <5>1, <5>2 DEF CrLfAt
      <4> QED
        BY <1>1, <4>1, <4>2, SeparatorsAre
    <3> QED
      BY <3>1, <3>2
  <2>3. ASSUME NEW s \in Streams!Messages!Separators(b)
        PROVE  s[2] = w - 3 /\ s[1] \in Nat /\ s[1] >= 4 /\ s = <<s[1], s[2]>>
    <3>1. PICK p \in 1..n : (s = <<p, 2>> /\ LfAt(b, p)) \/ (s = <<p, 4>> /\ CrLfAt(b, p))
      BY <1>1, SeparatorsAre
    <3> QED
      BY <1>2, <1>4, <1>5, <3>1
  <2>4. Streams!Messages!FirstSeparator(b) = first
    <3> DEFINE Is(s) == \A u \in Streams!Messages!Separators(b) : s[2] < u[2] \/ (s[2] = u[2] /\ s[1] <= u[1])
    <3>1. Is(first)
      BY <1>2, <2>3
    <3>2. ASSUME NEW s \in Streams!Messages!Separators(b), Is(s) PROVE s = first
      <4>1. s[1] <= 4
        BY <1>2, <2>2, <2>3, <3>2
      <4> QED
        BY <1>2, <2>3, <4>1
    <3>3. Streams!Messages!FirstSeparator(b) = CHOOSE s \in Streams!Messages!Separators(b) : Is(s)
      BY DEF Streams!Messages!FirstSeparator
    <3> HIDE DEF Is, first
    <3> QED
      BY <2>2, <3>1, <3>2, <3>3
  <2>5. SubSeq(b, 1, 3) = Streams!Messages!Data(fs[k])
    <3> DEFINE x == SubSeq(b, 1, 3)
               d == Streams!Messages!Data(fs[k])
               P == Streams!Messages!Piece
    <3>1. d \in Seq(P) /\ Len(d) = 3 /\ \A j \in 1..3 : d[j] = <<fs[k], j>> /\ Unit(fs[k], end)[j] = <<fs[k], j>>
      BY <1>3, <2>1, UnitIs
    <3>2. b \in Seq(P) /\ Len(b) >= 3
      BY <1>1, <1>2, <2>1
    <3> HIDE DEF d, P
    <3>3. x \in Seq(P) /\ Len(x) = 3 /\ \A j \in 1..3 : x[j] = b[j]
      BY <3>2
    <3>4. \A j \in 1..3 : b[j] = Unit(fs[k], end)[j]
      BY <1>1, <1>2, <2>1
    <3> HIDE DEF x
    <3>5. \A j \in 1..3 : x[j] = d[j]
      BY <3>1, <3>3, <3>4
    <3>6. x = d
      BY <3>1, <3>3, <3>5, SeqEqual
    <3> QED
      BY <3>6 DEF x, d
  <2> QED
    BY <1>7, <2>2, <2>4, <2>5 DEF b, n
<1> QED
  BY <1>6, <1>7

----------------------------------------------------------------------------
(* What a frame is parsed to                                                *)

\* What begins like a frame is an event if all of its data is there.
LEMMA ParseIs ==
    ASSUME NEW f \in Streams!Messages!Frame, NEW end \in Streams!Messages!LineEnd, NEW b \in Seq(Streams!Messages!Piece),
           Len(b) <= Width(end), \A i \in 1..Len(b) : b[i] = Unit(f, end)[i]
    PROVE  Streams!Messages!Parse(b) = IF Len(b) <= 1 \/ f = "ping" THEN "none"
                        ELSE IF Len(b) = 2 \/ f = "bad" THEN "error" ELSE f
<1> DEFINE n == Len(b)
           m == IF n <= 3 THEN n ELSE 3
           lines == SubSeq(b, 1, m)
           P == Streams!Messages!Piece
           d == Streams!Messages!Data(f)
<1>1. n \in Nat /\ m \in Nat /\ m <= n /\ m <= 3
  OBVIOUS
<1>2. Width(end) \in {5, 7}
  BY BeforeIs
<1>3. Streams!Messages!Trim(b) = lines
  <2> DEFINE text == {i \in 1..n : b[i] \notin {Streams!Messages!Lf, Streams!Messages!Cr}}
             top == {0} \cup text
  <2>1. ASSUME NEW i \in 1..n PROVE i \in text <=> i \in 1..3
    <3>1. i \in 1..Width(end) /\ b[i] = Unit(f, end)[i] /\ (i \in 1..3 <=> i \in {1, 2, 3})
      BY <1>1, <1>2
    <3> QED
      BY <3>1, UnitEnds
  <2> HIDE DEF text
  <2>2. m \in top /\ \A y \in top : y \in Nat /\ m >= y
    <3>1. text \subseteq 1..n
      BY DEF text
    <3> QED
      BY <1>1, <2>1, <3>1
  <2> HIDE DEF m, top
  <2>3. Streams!Messages!Max(top) = m
    <3>1. Streams!Messages!Max(top) = CHOOSE x \in top : \A y \in top : x >= y
      BY DEF Streams!Messages!Max
    <3> QED
      BY <2>2, <3>1
  <2>4. Streams!Messages!Trim(b) = SubSeq(b, 1, Streams!Messages!Max(top))
    BY DEF Streams!Messages!Trim, top, text
  <2> QED
    BY <2>3, <2>4
<1>4. d \in Seq(P) /\ Len(d) = 3 /\ \A i \in 1..3 : d[i] = <<f, i>> /\ Unit(f, end)[i] = <<f, i>>
  BY UnitIs
<1>5. b \in Seq(P)
  OBVIOUS
<1>6. \A i \in 1..n : b[i] = Unit(f, end)[i]
  OBVIOUS
<1> HIDE DEF P, d
<1>7. lines \in Seq(P) /\ Len(lines) = m /\ \A i \in 1..m : lines[i] = b[i]
  <2> HIDE DEF m
  <2> QED
    BY <1>1, <1>5
<1>8. \A i \in 1..m : lines[i] = <<f, i>>
  BY <1>1, <1>4, <1>6, <1>7
<1>9. n > 1 /\ n # 2 => m = 3
  <2> HIDE DEF n
  <2> QED
    BY <1>1
<1> HIDE DEF lines
<1>10. Streams!Messages!Parse(b) = IF Len(lines) <= 1 \/ lines[1][1] = "ping" THEN "none"
                   ELSE IF lines # Streams!Messages!Data(lines[1][1]) \/ lines[1][1] = "bad" THEN "error"
                   ELSE lines[1][1]
  BY <1>3 DEF Streams!Messages!Parse
<1>11. CASE n <= 1
  BY <1>1, <1>7, <1>10, <1>11
<1>12. CASE n > 1
  <2>1. m > 1 /\ lines[1] = <<f, 1>>
    BY <1>1, <1>8, <1>12
  <2>2. lines[1][1] = f
    BY <2>1
  <2>3. Streams!Messages!Parse(b) = IF f = "ping" THEN "none" ELSE IF lines # d \/ f = "bad" THEN "error" ELSE f
    BY <1>7, <1>10, <2>1, <2>2, <1>1 DEF d
  <2>4. lines # d <=> n = 2
    <3>1. CASE n = 2
      <4>1. Len(lines) # Len(d)
        BY <1>4, <1>7, <3>1
      <4> QED
        BY <3>1, <4>1
    <3>2. CASE n # 2
      <4>1. m = 3
        BY <1>9, <1>12, <3>2
      <4>2. \A i \in 1..3 : lines[i] = d[i]
        BY <1>4, <1>8, <4>1
      <4> QED
        BY <1>4, <1>7, <3>2, <4>1, <4>2, SeqEqual, SMTT(60)
    <3> QED
      BY <3>1, <3>2
  <2> QED
    BY <1>12, <2>3, <2>4
<1> QED
  BY <1>1, <1>11, <1>12

\* The events of one frame.
EventIn(f) == IF f = "ping" THEN << >> ELSE <<f>>

LEMMA DataParses ==
    ASSUME NEW f \in Streams!Messages!Frame
    PROVE  /\ Streams!Messages!Parse(Streams!Messages!Data(f)) = "error" <=> f = "bad"
           /\ f # "bad" => Streams!Messages!EventOf(Streams!Messages!Data(f)) = EventIn(f)
<1> DEFINE d == Streams!Messages!Data(f)
<1>1. d \in Seq(Streams!Messages!Piece) /\ Len(d) = 3 /\ \A i \in 1..3 : d[i] = Unit(f, "LF")[i]
  BY UnitIs DEF Streams!Messages!LineEnd
<1>2. "LF" \in Streams!Messages!LineEnd /\ Width("LF") = 5
  BY DEF Streams!Messages!LineEnd, Width
<1> HIDE DEF d
<1>3. Streams!Messages!Parse(d) = IF f = "ping" THEN "none" ELSE IF f = "bad" THEN "error" ELSE f
  <2>1. \A i \in 1..Len(d) : d[i] = Unit(f, "LF")[i]
    BY <1>1
  <2>2. Len(d) <= Width("LF") /\ ~(Len(d) <= 1) /\ Len(d) # 2
    BY <1>1, <1>2
  <2> QED
    BY <1>1, <1>2, <2>1, <2>2, ParseIs
<1>4. f # "none" /\ f # "error"
  BY DEF Streams!Messages!Frame
<1> QED
  BY <1>3, <1>4 DEF d, Streams!Messages!EventOf, EventIn

\* What is left of an answer that ends is an event if it is a frame without its
\* blank line.
LEMMA RestParses ==
    ASSUME NEW f \in Streams!Messages!Frame, NEW end \in Streams!Messages!LineEnd, NEW b \in Seq(Streams!Messages!Piece),
           Len(b) <= Width(end), \A i \in 1..Len(b) : b[i] = Unit(f, end)[i],
           Streams!Messages!Parse(b) # "error"
    PROVE  /\ Streams!Messages!EventOf(b) = IF Len(b) >= 3 THEN EventIn(f) ELSE << >>
           /\ Len(b) >= 3 => f # "bad"
<1>1. Streams!Messages!Parse(b) = IF Len(b) <= 1 \/ f = "ping" THEN "none"
                   ELSE IF Len(b) = 2 \/ f = "bad" THEN "error" ELSE f
  BY ParseIs
<1>2. f # "none" /\ f # "error"
  BY DEF Streams!Messages!Frame
<1> DEFINE n == Len(b)
           e == Streams!Messages!Parse(b)
<1>3. n \in Nat
  OBVIOUS
<1>4. e # "error" /\ Streams!Messages!EventOf(b) = IF e = "none" THEN << >> ELSE <<e>>
  BY DEF Streams!Messages!EventOf
<1> HIDE DEF n, e
<1>5. e = IF n <= 1 \/ f = "ping" THEN "none" ELSE IF n = 2 \/ f = "bad" THEN "error" ELSE f
  BY <1>1 DEF n, e
<1>6. CASE f = "ping"
  BY <1>3, <1>4, <1>5, <1>6 DEF EventIn, n
<1>7. CASE f # "ping" /\ n <= 1
  BY <1>3, <1>4, <1>5, <1>7 DEF n
<1>8. CASE f # "ping" /\ ~(n <= 1)
  <2>1. n # 2 /\ f # "bad" /\ e = f
    BY <1>4, <1>5, <1>8
  <2>2. n >= 3
    BY <1>3, <1>8, <2>1
  <2>3. Streams!Messages!EventOf(b) = EventIn(f)
    BY <1>2, <1>4, <1>8, <2>1 DEF EventIn
  <2> QED
    BY <2>1, <2>2, <2>3 DEF n
<1> QED
  BY <1>6, <1>7, <1>8

----------------------------------------------------------------------------
(* The events of the frames                                                 *)

\* How many members of a set are numbers up to k.
Count(U, k) == Cardinality({j \in 1..k : j \in U})

LEMMA CountIs ==
    ASSUME NEW U
    PROVE  /\ Count(U, 0) = 0
           /\ \A k \in Nat :
                 /\ Count(U, k) \in Nat
                 /\ Count(U, k + 1) = Count(U, k) + (IF k + 1 \in U THEN 1 ELSE 0)
           /\ \A k, l \in Nat : k <= l => Count(U, k) <= Count(U, l)
<1> DEFINE C(k) == {j \in 1..k : j \in U}
<1>1. ASSUME NEW k \in Nat PROVE IsFiniteSet(C(k)) /\ Count(U, k) \in Nat
  <2>1. IsFiniteSet(1..k)
    BY FS_Interval
  <2>2. C(k) \in SUBSET (1..k)
    OBVIOUS
  <2>3. IsFiniteSet(C(k))
    BY <2>1, <2>2, FS_Subset
  <2> QED
    BY <2>3, FS_CardinalityType DEF Count
<1>2. Count(U, 0) = 0
  <2>1. C(0) = {}
    OBVIOUS
  <2> QED
    BY <2>1, FS_EmptySet DEF Count
<1>3. ASSUME NEW k \in Nat
      PROVE  Count(U, k + 1) = Count(U, k) + (IF k + 1 \in U THEN 1 ELSE 0)
  <2>1. CASE k + 1 \in U
    <3>1. C(k + 1) = C(k) \cup {k + 1} /\ k + 1 \notin C(k)
      BY <2>1
    <3> QED
      BY <1>1, <2>1, <3>1, FS_AddElement DEF Count
  <2>2. CASE k + 1 \notin U
    <3>1. C(k + 1) = C(k)
      BY <2>2
    <3> QED
      BY <1>1, <2>2, <3>1 DEF Count
  <2> QED
    BY <2>1, <2>2
<1>4. ASSUME NEW k \in Nat, NEW l \in Nat, k <= l PROVE Count(U, k) <= Count(U, l)
  <2>1. C(k) \in SUBSET C(l)
    BY <1>4
  <2>2. IsFiniteSet(C(l))
    BY <1>1
  <2> HIDE DEF C
  <2>3. Cardinality(C(k)) <= Cardinality(C(l))
    BY <2>1, <2>2, FS_Subset
  <2> QED
    BY <2>3 DEF Count, C
<1> HIDE DEF C
<1> QED
  BY <1>1, <1>2, <1>3, <1>4

LEMMA NumberIs ==
    ASSUME NEW fs
    PROVE  /\ Streams!Messages!Number(fs, 0) = 0
           /\ \A k \in Nat :
                 /\ Streams!Messages!Number(fs, k) \in Nat
                 /\ Streams!Messages!Number(fs, k + 1) = Streams!Messages!Number(fs, k) + (IF fs[k + 1] = "ping" THEN 0 ELSE 1)
           /\ \A k, l \in Nat : k <= l => Streams!Messages!Number(fs, k) <= Streams!Messages!Number(fs, l)
<1> DEFINE U == {j \in Nat : fs[j] # "ping"}
<1>1. \A k \in Nat : Streams!Messages!Number(fs, k) = Count(U, k)
  <2> TAKE k \in Nat
  <2>1. {j \in 1..k : j \in U} = {j \in 1..k : fs[j] # "ping"}
    OBVIOUS
  <2> QED
    BY <2>1 DEF Count, Streams!Messages!Number, Streams!Messages!Cardinality, Cardinality
<1>2. \A k \in Nat : k + 1 \in U <=> fs[k + 1] # "ping"
  OBVIOUS
<1> HIDE DEF U
<1>3. Streams!Messages!Number(fs, 0) = 0
  BY <1>1, CountIs
<1>4. ASSUME NEW k \in Nat
      PROVE  /\ Streams!Messages!Number(fs, k) \in Nat
             /\ Streams!Messages!Number(fs, k + 1) = Streams!Messages!Number(fs, k) + (IF fs[k + 1] = "ping" THEN 0 ELSE 1)
  <2>1. k + 1 \in Nat
    OBVIOUS
  <2>2. Streams!Messages!Number(fs, k) = Count(U, k) /\ Streams!Messages!Number(fs, k + 1) = Count(U, k + 1)
    BY <1>1, <2>1
  <2>3. Count(U, k) \in Nat /\ Count(U, k + 1) = Count(U, k) + (IF k + 1 \in U THEN 1 ELSE 0)
    BY CountIs
  <2>4. k + 1 \in U <=> fs[k + 1] # "ping"
    BY <1>2
  <2> QED
    BY <2>2, <2>3, <2>4
<1>5. \A k, l \in Nat : k <= l => Streams!Messages!Number(fs, k) <= Streams!Messages!Number(fs, l)
  BY <1>1, CountIs
<1> QED
  BY <1>3, <1>4, <1>5

\* No two frames have one number, and every number is one frame's.
LEMMA NumbersAreFrames ==
    ASSUME NEW fs
    PROVE  /\ \A k, l \in Nat \ {0} : k < l /\ fs[l] # "ping" => Streams!Messages!Number(fs, k) < Streams!Messages!Number(fs, l)
           /\ \A n \in Nat : \A e \in 1..Streams!Messages!Number(fs, n) :
                 \E k \in 1..n : fs[k] # "ping" /\ Streams!Messages!Number(fs, k) = e
<1> DEFINE N(k) == Streams!Messages!Number(fs, k)
<1>1. /\ N(0) = 0
      /\ \A k \in Nat : N(k) \in Nat /\ N(k + 1) = N(k) + (IF fs[k + 1] = "ping" THEN 0 ELSE 1)
      /\ \A k, l \in Nat : k <= l => N(k) <= N(l)
  BY NumberIs
<1> HIDE DEF N
<1>2. ASSUME NEW k \in Nat \ {0}, NEW l \in Nat \ {0}, k < l, fs[l] # "ping" PROVE N(k) < N(l)
  <2>1. l - 1 \in Nat /\ k <= l - 1 /\ l = (l - 1) + 1
    BY <1>2
  <2>2. N(l) = N(l - 1) + 1
    BY <1>1, <1>2, <2>1
  <2> QED
    BY <1>1, <2>1, <2>2
<1>3. ASSUME NEW n \in Nat, NEW e \in 1..N(n) PROVE \E k \in 1..n : fs[k] # "ping" /\ N(k) = e
  <2> DEFINE Has(m) == \A i \in 1..N(m) : \E k \in 1..m : fs[k] # "ping" /\ N(k) = i
             T == {m \in Nat : Has(m)}
  <2>1. 0 \in T
    BY <1>1
  <2>2. ASSUME NEW m \in T PROVE m + 1 \in T
    <3>1. m \in Nat /\ m + 1 \in Nat /\ Has(m)
      OBVIOUS
    <3>2. ASSUME NEW i \in 1..N(m + 1) PROVE \E k \in 1..(m + 1) : fs[k] # "ping" /\ N(k) = i
      <4>1. N(m + 1) = N(m) + (IF fs[m + 1] = "ping" THEN 0 ELSE 1) /\ N(m) \in Nat
        BY <1>1, <3>1
      <4>2. CASE i \in 1..N(m)
        <5>1. PICK k \in 1..m : fs[k] # "ping" /\ N(k) = i
          BY <3>1, <4>2
        <5>2. k \in 1..(m + 1)
          BY <3>1
        <5> QED
          BY <5>1, <5>2
      <4>3. CASE i \notin 1..N(m)
        <5>1. fs[m + 1] # "ping" /\ i = N(m + 1)
          BY <4>1, <4>3
        <5> QED
          BY <3>1, <5>1
      <4> QED
        BY <4>2, <4>3
    <3> HIDE DEF Has
    <3>3. Has(m + 1)
      BY <3>2 DEF Has
    <3> QED
      BY <3>1, <3>3
  <2>3. T \in SUBSET Nat
    OBVIOUS
  <2> HIDE DEF T
  <2>4. T = Nat
    BY <2>1, <2>2, <2>3, AllNaturals
  <2> QED
    BY <2>4 DEF T
<1> QED
  BY <1>2, <1>3 DEF N

\* The events of so many frames, with one frame more.
LEMMA EventsAre ==
    ASSUME NEW fs \in Seq(Streams!Messages!Frame), NEW n \in 0..Len(fs)
    PROVE  /\ Streams!Messages!EventsOf(fs, n) \in Seq(Streams!Messages!Frame)
           /\ Len(Streams!Messages!EventsOf(fs, n)) = Streams!Messages!Number(fs, n)
           /\ \A k \in 1..n : fs[k] # "ping" =>
                 /\ Streams!Messages!Number(fs, k) \in 1..Streams!Messages!Number(fs, n)
                 /\ Streams!Messages!EventsOf(fs, n)[Streams!Messages!Number(fs, k)] = fs[k]
<1> DEFINE N(k) == Streams!Messages!Number(fs, k)
           E == Streams!Messages!EventsOf(fs, n)
           Is(k, e) == fs[k] # "ping" /\ N(k) = e
           At(e) == CHOOSE k \in 1..Len(fs) : Is(k, e)
<1>1. /\ N(0) = 0
      /\ \A k \in Nat : N(k) \in Nat /\ N(k + 1) = N(k) + (IF fs[k + 1] = "ping" THEN 0 ELSE 1)
      /\ \A k, l \in Nat : k <= l => N(k) <= N(l)
  BY NumberIs
<1>2. /\ \A k, l \in Nat \ {0} : k < l /\ fs[l] # "ping" => N(k) < N(l)
      /\ \A m \in Nat : \A e \in 1..N(m) : \E k \in 1..m : Is(k, e)
  BY NumbersAreFrames
<1>3. E = [e \in 1..N(n) |-> fs[At(e)]]
  BY DEF Streams!Messages!EventsOf
<1>4. Len(fs) \in Nat /\ n \in Nat /\ n <= Len(fs)
  OBVIOUS
<1> HIDE DEF N, E
<1>5. ASSUME NEW k \in 1..n, fs[k] # "ping" PROVE N(k) \in 1..N(n) /\ At(N(k)) = k
  <2>1. k \in 1..Len(fs) /\ Is(k, N(k))
    BY <1>4, <1>5
  <2>2. ASSUME NEW l \in 1..Len(fs), Is(l, N(k)) PROVE l = k
    <3>1. k \in Nat \ {0} /\ l \in Nat \ {0} /\ fs[l] # "ping" /\ N(l) = N(k) /\ N(k) \in Nat
      <4>1. k \in Nat \ {0} /\ l \in Nat \ {0}
        BY <1>4
      <4>2. fs[l] # "ping" /\ N(l) = N(k)
        BY <2>2
      <4> QED
        BY <1>1, <4>1, <4>2
    <3>2. ~(k < l) /\ ~(l < k)
      BY <1>2, <1>5, <3>1
    <3> QED
      BY <3>1, <3>2
  <2>3. At(N(k)) = k
    <3> HIDE DEF Is
    <3> QED
      BY <2>1, <2>2
  <2>4. N(k) >= 1
    <3>1. k - 1 \in Nat /\ k = (k - 1) + 1
      BY <1>4
    <3>2. N(k) = N(k - 1) + 1 /\ N(k - 1) \in Nat
      BY <1>1, <1>5, <3>1
    <3> QED
      BY <3>2
  <2>5. N(k) <= N(n) /\ N(k) \in Nat /\ N(n) \in Nat
    <3>1. k \in Nat /\ k <= n
      BY <1>4
    <3> QED
      BY <1>1, <1>4, <3>1
  <2> QED
    BY <2>3, <2>4, <2>5
<1>6. ASSUME NEW e \in 1..N(n) PROVE fs[At(e)] \in Streams!Messages!Frame
  <2>1. PICK k \in 1..n : Is(k, e)
    BY <1>2, <1>4
  <2>2. At(e) = k
    BY <1>5, <2>1
  <2>3. k \in 1..Len(fs)
    BY <1>4
  <2> HIDE DEF At
  <2> QED
    BY <2>2, <2>3
<1>7. N(n) \in Nat
  BY <1>1, <1>4
<1> HIDE DEF At
<1>8. E \in [1..N(n) -> Streams!Messages!Frame]
  BY <1>3, <1>6
<1>9. E \in Seq(Streams!Messages!Frame) /\ Len(E) = N(n)
  BY <1>7, <1>8
<1>10. ASSUME NEW k \in 1..n, fs[k] # "ping" PROVE E[N(k)] = fs[k]
  BY <1>3, <1>5, <1>10
<1> QED
  BY <1>5, <1>9, <1>10 DEF N, E

LEMMA NoEvents == \A fs : Streams!Messages!EventsOf(fs, 0) = << >>
  BY NumberIs DEF Streams!Messages!EventsOf

LEMMA OneMoreEvent ==
    ASSUME NEW fs \in Seq(Streams!Messages!Frame), NEW n \in Nat, n + 1 <= Len(fs)
    PROVE  Streams!Messages!EventsOf(fs, n + 1) = Streams!Messages!EventsOf(fs, n) \o EventIn(fs[n + 1])
<1> DEFINE N(k) == Streams!Messages!Number(fs, k)
           E(k) == Streams!Messages!EventsOf(fs, k)
           At(e) == fs[CHOOSE k \in 1..Len(fs) : fs[k] # "ping" /\ N(k) = e]
           new == EventIn(fs[n + 1])
           P == Streams!Messages!Frame
<1>1. n \in 0..Len(fs) /\ n + 1 \in 0..Len(fs) /\ n + 1 \in 1..Len(fs)
  OBVIOUS
<1>2. /\ N(n) \in Nat /\ N(n + 1) = N(n) + (IF fs[n + 1] = "ping" THEN 0 ELSE 1)
  BY NumberIs
<1>3. \A k : E(k) = [e \in 1..N(k) |-> At(e)]
  BY DEF Streams!Messages!EventsOf
<1>4. E(n) \in Seq(P) /\ E(n + 1) \in Seq(P) /\ Len(E(n)) = N(n) /\ Len(E(n + 1)) = N(n + 1)
  BY <1>1, EventsAre
<1>5. fs[n + 1] # "ping" => E(n + 1)[N(n + 1)] = fs[n + 1]
  <2>1. n + 1 \in 1..(n + 1)
    OBVIOUS
  <2> QED
    BY <1>1, <2>1, EventsAre
<1>6. new \in Seq(P) /\ IF fs[n + 1] = "ping" THEN Len(new) = 0 ELSE Len(new) = 1 /\ new[1] = fs[n + 1]
  <2>1. fs[n + 1] \in P
    BY <1>1
  <2> HIDE DEF P
  <2> QED
    BY <2>1 DEF EventIn
<1> HIDE DEF N, E, At, new, P
<1>7. \A i \in 1..N(n) : E(n + 1)[i] = E(n)[i]
  BY <1>2, <1>3
<1>8. /\ E(n) \o new \in Seq(P) /\ Len(E(n) \o new) = N(n) + Len(new)
      /\ \A i \in 1..(N(n) + Len(new)) : (E(n) \o new)[i] = IF i <= N(n) THEN E(n)[i] ELSE new[i - N(n)]
  <2> DEFINE old == E(n)
  <2>1. old \in Seq(P) /\ new \in Seq(P) /\ Len(old) = N(n)
    BY <1>4, <1>6
  <2> HIDE DEF old
  <2>2. /\ old \o new \in Seq(P) /\ Len(old \o new) = Len(old) + Len(new)
        /\ \A i \in 1..(Len(old) + Len(new)) :
              (old \o new)[i] = IF i <= Len(old) THEN old[i] ELSE new[i - Len(old)]
    BY <2>1, ConcatProperties
  <2> QED
    BY <2>1, <2>2 DEF old
<1> DEFINE both == E(n) \o new
<1> HIDE DEF both
<1>9. both \in Seq(P) /\ Len(both) = N(n + 1) /\ \A i \in 1..N(n + 1) : E(n + 1)[i] = both[i]
  <2>1. both \in Seq(P) /\ Len(both) = N(n) + Len(new)
        /\ \A i \in 1..(N(n) + Len(new)) : both[i] = IF i <= N(n) THEN E(n)[i] ELSE new[i - N(n)]
    BY <1>8 DEF both
  <2>2. CASE fs[n + 1] = "ping"
    <3>1. Len(new) = 0 /\ N(n + 1) = N(n)
      BY <1>2, <1>6, <2>2
    <3> QED
      BY <1>2, <1>7, <2>1, <3>1
  <2>3. CASE fs[n + 1] # "ping"
    <3>1. Len(new) = 1 /\ N(n + 1) = N(n) + 1 /\ E(n + 1)[N(n + 1)] = new[1]
      BY <1>2, <1>5, <1>6, <2>3
    <3>2. ASSUME NEW i \in 1..N(n + 1) PROVE E(n + 1)[i] = both[i]
      <4>1. CASE i <= N(n)
        <5>1. i \in 1..N(n) /\ i \in 1..(N(n) + Len(new))
          BY <1>2, <3>1, <4>1
        <5> QED
          BY <1>7, <2>1, <4>1, <5>1
      <4>2. CASE i = N(n) + 1
        <5>1. i \in 1..(N(n) + Len(new)) /\ ~(i <= N(n)) /\ i - N(n) = 1
          BY <1>2, <3>1, <4>2
        <5>2. both[i] = new[1]
          BY <2>1, <5>1
        <5> QED
          BY <3>1, <4>2, <5>2
      <4> QED
        BY <1>2, <3>1, <4>1, <4>2
    <3> QED
      BY <2>1, <3>1, <3>2
  <2> QED
    BY <2>2, <2>3
<1>10. E(n + 1) = both
  BY <1>4, <1>9, SeqEqual
<1> QED
  BY <1>10 DEF both, E, new

\* The events of some frames are a prefix of the events of more.
LEMMA EventsBegin ==
    ASSUME NEW fs \in Seq(Streams!Messages!Frame), NEW n \in 0..Len(fs), NEW m \in n..Len(fs),
           NEW s \in Seq(Streams!Messages!Frame), NEW r \in Seq(Streams!Messages!Frame), s \o r = Streams!Messages!EventsOf(fs, n)
    PROVE  Streams!Messages!IsPrefix(s, Streams!Messages!EventsOf(fs, m))
<1> DEFINE N(k) == Streams!Messages!Number(fs, k)
           a == Streams!Messages!EventsOf(fs, n)
           b == Streams!Messages!EventsOf(fs, m)
           P == Streams!Messages!Frame
           At(e) == fs[CHOOSE k \in 1..Len(fs) : fs[k] # "ping" /\ N(k) = e]
<1>1. n \in Nat /\ m \in Nat /\ n <= m /\ m \in 0..Len(fs)
  OBVIOUS
<1>2. N(n) <= N(m) /\ N(n) \in Nat /\ N(m) \in Nat
  BY <1>1, NumberIs
<1>3. a \in Seq(P) /\ b \in Seq(P) /\ Len(a) = N(n) /\ Len(b) = N(m)
  BY <1>1, EventsAre
<1>4. a = [e \in 1..N(n) |-> At(e)] /\ b = [e \in 1..N(m) |-> At(e)]
  BY DEF Streams!Messages!EventsOf
<1>5. s \in Seq(P) /\ r \in Seq(P) /\ s \o r = a
  OBVIOUS
<1> HIDE DEF a, b, N, At, P
<1>6. Len(a) = Len(s) + Len(r) /\ \A i \in 1..Len(s) : a[i] = s[i]
  <2>1. /\ Len(s \o r) = Len(s) + Len(r) /\ Len(s) \in Nat /\ Len(r) \in Nat
        /\ \A i \in 1..(Len(s) + Len(r)) : (s \o r)[i] = IF i <= Len(s) THEN s[i] ELSE r[i - Len(s)]
    BY <1>5, ConcatProperties, LenProperties
  <2>2. ASSUME NEW i \in 1..Len(s) PROVE (s \o r)[i] = s[i]
    <3>1. i \in 1..(Len(s) + Len(r)) /\ i <= Len(s)
      BY <2>1
    <3> QED
      BY <2>1, <3>1
  <2> QED
    BY <1>5, <2>1, <2>2
<1> DEFINE l == Len(s)
<1>7. l \in Nat /\ l <= N(n)
  BY <1>2, <1>3, <1>5, <1>6, LenProperties
<1> HIDE DEF l
<1>8. ASSUME NEW i \in 1..l PROVE b[i] = s[i]
  <2>1. i \in 1..N(n) /\ i \in 1..N(m)
    BY <1>2, <1>7
  <2> QED
    BY <1>4, <1>6, <2>1 DEF l
<1>9. SubSeq(s, 1, l) = SubSeq(b, 1, l)
  <2> DEFINE x == SubSeq(s, 1, l)
             y == SubSeq(b, 1, l)
  <2>1. x \in Seq(P) /\ Len(x) = l /\ \A i \in 1..l : x[i] = s[i]
    BY <1>5, <1>7 DEF l
  <2>2. y \in Seq(P) /\ Len(y) = l /\ \A i \in 1..l : y[i] = b[i]
    BY <1>2, <1>3, <1>7
  <2> HIDE DEF x, y
  <2>3. \A i \in 1..Len(x) : x[i] = y[i]
    BY <1>8, <2>1, <2>2
  <2>4. x = y
    BY <2>1, <2>2, <2>3, SeqEqual
  <2> QED
    BY <2>4 DEF x, y
<1>10. Len(s) <= Len(b)
  BY <1>2, <1>3, <1>7 DEF l
<1> QED
  BY <1>9, <1>10 DEF Streams!Messages!IsPrefix, l, b

\* A usage before the first stop of the events is a usage before the first stop
\* of the frames.
Counted(s) ==
    \E i, j \in 1..Len(s) :
        /\ i < j /\ s[i] = "delta" /\ s[j] = "stop"
        /\ \A k \in 1..(j - 1) : s[k] # "stop"

\* The same of the first frames.
CountedIn(fs, n) ==
    \E i, j \in 1..n :
        /\ i < j /\ fs[i] = "delta" /\ fs[j] = "stop"
        /\ \A k \in 1..(j - 1) : fs[k] # "stop"

LEMMA UsageIsCounted ==
    ASSUME NEW fs \in Seq(Streams!Messages!Frame), NEW n \in 0..Len(fs)
    PROVE  Counted(Streams!Messages!EventsOf(fs, n)) <=> CountedIn(fs, n)
<1> DEFINE N(k) == Streams!Messages!Number(fs, k)
           e == Streams!Messages!EventsOf(fs, n)
<1>1. /\ Len(e) = N(n)
      /\ \A k \in 1..n : fs[k] # "ping" => N(k) \in 1..N(n) /\ e[N(k)] = fs[k]
  BY EventsAre
<1>2. /\ \A k, l \in Nat \ {0} : k < l /\ fs[l] # "ping" => N(k) < N(l)
      /\ \A i \in 1..N(n) : \E k \in 1..n : fs[k] # "ping" /\ N(k) = i
  BY NumbersAreFrames
<1>3. \A k, l \in Nat : k <= l => N(k) <= N(l)
  BY NumberIs
<1>4. n \in Nat /\ \A k \in 1..n : k \in Nat \ {0} /\ k \in Nat
  OBVIOUS
<1>5. \A k \in Nat : N(k) \in Nat
  BY NumberIs
<1> HIDE DEF N, e
<1>6. ASSUME CountedIn(fs, n) PROVE Counted(e)
  <2>1. PICK i \in 1..n, j \in 1..n :
            /\ i < j /\ fs[i] = "delta" /\ fs[j] = "stop"
            /\ \A k \in 1..(j - 1) : fs[k] # "stop"
    BY <1>6 DEF CountedIn
  <2>2. N(i) \in 1..Len(e) /\ N(j) \in 1..Len(e) /\ e[N(i)] = "delta" /\ e[N(j)] = "stop"
    BY <1>1, <2>1
  <2>3. N(i) < N(j)
    BY <1>2, <1>4, <2>1
  <2>4. ASSUME NEW x \in 1..(N(j) - 1) PROVE e[x] # "stop"
    <3>1. x \in 1..N(n) /\ x < N(j)
      <4>1. N(n) \in Nat /\ N(j) \in 1..N(n)
        BY <1>1, <1>4, <1>5, <2>1
      <4> QED
        BY <2>4, <4>1
    <3>2. PICK k \in 1..n : fs[k] # "ping" /\ N(k) = x
      BY <1>2, <3>1
    <3>3. ~(N(j) <= N(k))
      BY <1>4, <1>5, <3>1, <3>2
    <3>4. ~(j <= k)
      BY <1>3, <1>4, <3>3
    <3>5. k \in 1..(j - 1)
      BY <3>4
    <3> QED
      BY <1>1, <2>1, <3>2, <3>5
  <2> QED
    BY <2>2, <2>3, <2>4 DEF Counted
<1>7. ASSUME Counted(e) PROVE CountedIn(fs, n)
  <2>1. PICK x \in 1..Len(e), y \in 1..Len(e) :
            /\ x < y /\ e[x] = "delta" /\ e[y] = "stop"
            /\ \A z \in 1..(y - 1) : e[z] # "stop"
    BY <1>7 DEF Counted
  <2>2. PICK i \in 1..n : fs[i] # "ping" /\ N(i) = x
    BY <1>1, <1>2
  <2>3. PICK j \in 1..n : fs[j] # "ping" /\ N(j) = y
    BY <1>1, <1>2
  <2>4. fs[i] = "delta" /\ fs[j] = "stop"
    BY <1>1, <2>1, <2>2, <2>3
  <2>5. i < j
    <3>1. ~(N(j) <= N(i))
      BY <1>4, <1>5, <2>1, <2>2, <2>3
    <3>2. ~(j <= i)
      BY <1>3, <1>4, <3>1
    <3> QED
      BY <3>2
  <2>6. ASSUME NEW k \in 1..(j - 1), fs[k] = "stop" PROVE FALSE
    <3>1. k \in 1..n /\ k < j
      OBVIOUS
    <3>2. N(k) \in 1..N(n) /\ e[N(k)] = "stop"
      BY <1>1, <2>6, <3>1
    <3>3. N(k) < N(j)
      BY <1>2, <1>4, <2>4, <3>1
    <3>4. N(k) \in 1..(y - 1)
      BY <1>1, <1>4, <1>5, <2>3, <3>2, <3>3
    <3> QED
      BY <2>1, <3>2, <3>4
  <2> QED
    BY <2>4, <2>5, <2>6 DEF CountedIn
<1> QED
  BY <1>6, <1>7 DEF e

----------------------------------------------------------------------------
(* The frames that have come                                                *)

LEMMA OnePlace ==
    ASSUME NEW end, NEW k \in Nat \ {0}, NEW l \in Nat \ {0}, NEW i \in 1..Width(end),
           NEW j \in 1..Width(end), Before(end, k) + i = Before(end, l) + j
    PROVE  k = l /\ i = j
<1>1. /\ Width(end) \in {5, 7} /\ Before(end, k) \in Nat /\ Before(end, l) \in Nat
      /\ k < l => Before(end, k) + Width(end) <= Before(end, l)
      /\ l < k => Before(end, l) + Width(end) <= Before(end, k)
  BY BeforeIs
<1>2. CASE k < l
  BY <1>1, <1>2
<1>3. CASE l < k
  BY <1>1, <1>3
<1>4. CASE k = l
  BY <1>1, <1>4
<1> QED
  BY <1>2, <1>3, <1>4

\* The pieces that end the data of a frame, and the line feeds.
Ends(t) == {i \in Nat : t[i][2] = 3}
Feeds(t) == {i \in Nat : t[i] = Streams!Messages!Lf}

\* Of the line feeds of the frame that has come in part, one can be there.
FeedsIn(end, n) == IF n <= (IF end = "LF" THEN 3 ELSE 4) THEN 0 ELSE 1

LEMMA PieceIs ==
    ASSUME NEW f \in Streams!Messages!Frame, NEW end \in Streams!Messages!LineEnd, NEW j \in 1..Width(end)
    PROVE  Unit(f, end)[j][2] = 3 <=> j = 3
<1>1. \A i \in 1..3 : Unit(f, end)[i] = <<f, i>>
  BY UnitIs
<1>2. j \in 1..3 \/ j \notin {1, 2, 3}
  OBVIOUS
<1>3. CASE j \in 1..3
  BY <1>1, <1>3
<1>4. CASE j \notin {1, 2, 3}
  <2>1. Unit(f, end)[j] \in {Streams!Messages!Lf, Streams!Messages!Cr}
    BY <1>4, UnitEnds
  <2> QED
    BY <1>4, <2>1 DEF Streams!Messages!Lf, Streams!Messages!Cr
<1> QED
  BY <1>2, <1>3, <1>4

LEMMA FramesAreCounted ==
    ASSUME NEW fs \in Seq(Streams!Messages!Frame), NEW end \in Streams!Messages!LineEnd, NEW closed \in BOOLEAN, NEW t,
           t = Streams!Messages!Text(fs, end, closed), NEW k \in Nat \ {0}, NEW a \in 0..Len(t),
           NEW n \in 0..(Width(end) - 1), a = Before(end, k) + n
    PROVE  /\ Count(Ends(t), a) = (k - 1) + (IF n < 3 THEN 0 ELSE 1)
           /\ Count(Feeds(t), a) = 2 * (k - 1) + FeedsIn(end, n)
<1> DEFINE w == Width(end)
           Is(b, l, m) == /\ b = Before(end, l) + m
                          /\ Count(Ends(t), b) = (l - 1) + (IF m < 3 THEN 0 ELSE 1)
                          /\ Count(Feeds(t), b) = 2 * (l - 1) + FeedsIn(end, m)
           T == {b \in Nat : b <= Len(t) => \E l \in Nat \ {0}, m \in 0..(w - 1) : Is(b, l, m)}
<1>1. /\ \A l \in 1..Len(fs), j \in 1..w :
            Before(end, l) + j <= Len(t) => t[Before(end, l) + j] = Unit(fs[l], end)[j]
      /\ \A p \in 1..Len(t) : \E l \in 1..Len(fs), j \in 1..w : p = Before(end, l) + j
  BY TextIs
<1>2. w \in {5, 7} /\ (w = IF end = "LF" THEN 5 ELSE 7)
  BY DEF Width
<1>3. Len(t) \in Nat /\ Len(fs) \in Nat
  <2>1. t \in Seq(Streams!Messages!Piece)
    BY TextIs
  <2> DEFINE P == Streams!Messages!Piece
  <2> HIDE DEF P
  <2> QED
    BY <2>1
<1>4. \A l \in 1..Len(fs) : fs[l] \in Streams!Messages!Frame
  OBVIOUS
<1> HIDE DEF w
<1>5. /\ Before(end, 1) = 0
      /\ \A l \in Nat \ {0} : Before(end, l) \in Nat /\ Before(end, l + 1) = Before(end, l) + w
  BY BeforeIs DEF w
<1>6. 0 \in T
  <2>1. Count(Ends(t), 0) = 0 /\ Count(Feeds(t), 0) = 0
    BY CountIs
  <2>2. Is(0, 1, 0)
    BY <1>5, <2>1 DEF FeedsIn
  <2>3. 0 \in 0..(w - 1) /\ 1 \in Nat \ {0}
    BY <1>2
  <2> HIDE DEF Is
  <2> QED
    BY <2>2, <2>3
<1>7. ASSUME NEW b \in T PROVE b + 1 \in T
  <2>1. b \in Nat /\ b + 1 \in Nat
    OBVIOUS
  <2>2. SUFFICES ASSUME b + 1 <= Len(t)
                 PROVE  \E l \in Nat \ {0}, m \in 0..(w - 1) : Is(b + 1, l, m)
    BY <2>1
  <2>3. b <= Len(t)
    BY <1>3, <2>1, <2>2
  <2>4. PICK l \in Nat \ {0}, m \in 0..(w - 1) : Is(b, l, m)
    BY <2>3
  <2>5. b + 1 = Before(end, l) + (m + 1) /\ m + 1 \in 1..w /\ m \in Nat /\ Before(end, l) \in Nat
    <3>1. b = Before(end, l) + m
      BY <2>4
    <3>2. Before(end, l) \in Nat /\ m \in Nat /\ m <= w - 1
      <4>1. m \in Nat /\ m <= w - 1
        BY <1>2
      <4>2. Before(end, l) \in Nat
        BY <1>5
      <4> QED
        BY <4>1, <4>2
    <3> QED
      BY <1>2, <3>1, <3>2
  <2>6. l \in 1..Len(fs)
    <3>1. b + 1 \in 1..Len(t)
      BY <1>3, <2>1, <2>2
    <3>2. PICK g \in 1..Len(fs), j \in 1..w : b + 1 = Before(end, g) + j
      BY <1>1, <3>1
    <3>3. g \in Nat \ {0}
      OBVIOUS
    <3>4. l = g
      BY <2>5, <3>2, <3>3, OnePlace DEF w
    <3> QED
      BY <3>4
  <2> DEFINE u == Unit(fs[l], end)
  <2>7. t[b + 1] = u[m + 1]
    <3>1. Before(end, l) + (m + 1) <= Len(t)
      BY <2>2, <2>5
    <3> QED
      BY <1>1, <2>5, <2>6, <3>1, SMTT(60)
  <2>8. /\ b + 1 \in Ends(t) <=> m + 1 = 3
        /\ b + 1 \in Feeds(t) <=> IF end = "LF" THEN m + 1 \in {4, 5} ELSE m + 1 \in {5, 7}
    <3>1. u[m + 1][2] = 3 <=> m + 1 = 3
      BY <1>4, <2>5, <2>6, PieceIs DEF w
    <3>2. u[m + 1] = Streams!Messages!Lf <=> IF end = "LF" THEN m + 1 \in {4, 5} ELSE m + 1 \in {5, 7}
      BY <1>4, <2>5, <2>6, UnitEnds DEF w
    <3> HIDE DEF u
    <3> QED
      BY <2>1, <2>7, <3>1, <3>2 DEF Ends, Feeds
  <2> DEFINE e == Count(Ends(t), b)
             f == Count(Feeds(t), b)
  <2>9. /\ Count(Ends(t), b + 1) = e + (IF m + 1 = 3 THEN 1 ELSE 0)
        /\ Count(Feeds(t), b + 1) =
               f + (IF (IF end = "LF" THEN m + 1 \in {4, 5} ELSE m + 1 \in {5, 7}) THEN 1 ELSE 0)
    <3>1. /\ Count(Ends(t), b + 1) = e + (IF b + 1 \in Ends(t) THEN 1 ELSE 0)
          /\ Count(Feeds(t), b + 1) = f + (IF b + 1 \in Feeds(t) THEN 1 ELSE 0)
      BY <2>1, CountIs, ZenonT(60)
    <3> HIDE DEF e, f
    <3> QED
      BY <2>8, <3>1
  <2>10. /\ e = (l - 1) + (IF m < 3 THEN 0 ELSE 1)
         /\ f = 2 * (l - 1) + FeedsIn(end, m)
    BY <2>4
  <2> HIDE DEF e, f
  <2>11. CASE m + 1 < w
    <3>1. Count(Ends(t), b + 1) = (l - 1) + (IF m + 1 < 3 THEN 0 ELSE 1)
      BY <2>5, <2>9, <2>10, SMTT(60)
    <3>2. Count(Feeds(t), b + 1) = 2 * (l - 1) + FeedsIn(end, m + 1)
      <4>1. CASE end = "LF"
        BY <1>2, <2>5, <2>9, <2>10, <2>11, <4>1 DEF FeedsIn
      <4>2. CASE end # "LF"
        BY <1>2, <2>5, <2>9, <2>10, <2>11, <4>2 DEF FeedsIn
      <4> QED
        BY <4>1, <4>2
    <3>3. Is(b + 1, l, m + 1)
      BY <2>5, <3>1, <3>2
    <3>4. m + 1 \in 0..(w - 1)
      BY <1>2, <2>5, <2>11
    <3> HIDE DEF Is
    <3> QED
      BY <3>3, <3>4
  <2>12. CASE ~(m + 1 < w)
    <3>1. m + 1 = w
      BY <1>2, <2>5, <2>12
    <3>2. Count(Ends(t), b + 1) = l
      BY <1>2, <2>5, <2>9, <2>10, <3>1
    <3>3. Count(Feeds(t), b + 1) = 2 * l
      <4>1. CASE end = "LF"
        BY <1>2, <2>5, <2>9, <2>10, <3>1, <4>1 DEF FeedsIn
      <4>2. CASE end # "LF"
        BY <1>2, <2>5, <2>9, <2>10, <3>1, <4>2 DEF FeedsIn
      <4> QED
        BY <4>1, <4>2
    <3>4. Is(b + 1, l + 1, 0)
      <4>1. b + 1 = Before(end, l + 1) + 0
        BY <1>5, <2>5, <3>1
      <4> QED
        BY <3>2, <3>3, <4>1 DEF FeedsIn
    <3>5. 0 \in 0..(w - 1) /\ l + 1 \in Nat \ {0}
      BY <1>2
    <3> HIDE DEF Is
    <3> QED
      BY <3>4, <3>5
  <2> QED
    BY <2>11, <2>12
<1>8. T = Nat
  <2>1. T \in SUBSET Nat
    OBVIOUS
  <2> HIDE DEF T
  <2> QED
    BY <1>6, <1>7, <2>1, AllNaturals
<1>9. PICK l \in Nat \ {0}, m \in 0..(w - 1) : Is(a, l, m)
  <2>1. a \in Nat /\ a <= Len(t)
    BY <1>3
  <2>2. a \in T
    BY <1>8, <2>1
  <2> HIDE DEF Is
  <2> QED
    BY <2>1, <2>2
<1>10. l = k /\ m = n
  <2>1. m + 1 \in 1..w /\ n + 1 \in 1..w /\ Before(end, l) + (m + 1) = Before(end, k) + (n + 1)
    <3>1. n \in 0..(w - 1) /\ a = Before(end, k) + n
      BY DEF w
    <3>2. a = Before(end, l) + m
      BY <1>9
    <3>3. Before(end, l) \in Nat /\ Before(end, k) \in Nat
      BY <1>5
    <3> QED
      BY <1>2, <3>1, <3>2, <3>3
  <2>2. l = k /\ m + 1 = n + 1
    BY <2>1, OnePlace DEF w
  <2> QED
    BY <2>2
<1> QED
  BY <1>9, <1>10

\* So much of the text of an answer has come, and so many of its frames are cut
\* out of it; the rest is in the buffer.
Cut(fs, end, closed, a, c, here, rest, b) ==
    /\ fs \in Seq(Streams!Messages!Frame) /\ end \in Streams!Messages!LineEnd /\ closed \in BOOLEAN
    /\ a \in 0..Len(Streams!Messages!Text(fs, end, closed)) /\ c \in 0..Len(fs) /\ Before(end, c + 1) <= a
    /\ here = SubSeq(Streams!Messages!Text(fs, end, closed), 1, a)
    /\ rest = SubSeq(Streams!Messages!Text(fs, end, closed), a + 1, Len(Streams!Messages!Text(fs, end, closed)))
    /\ b = Rest(end, Streams!Messages!Text(fs, end, closed), c + 1, a)

LEMMA CutWith ==
    ASSUME NEW fs, NEW end, NEW closed, NEW a, NEW c, NEW here, NEW rest, NEW b,
           Cut(fs, end, closed, a, c, here, rest, b)
    PROVE  LET t == Streams!Messages!Text(fs, end, closed)
               s == Before(end, c + 1)
           IN  /\ t \in Seq(Streams!Messages!Piece) /\ Len(t) \in Nat /\ Len(fs) \in Nat /\ a \in Nat /\ c \in Nat
               /\ s \in Nat /\ s <= a /\ a <= Len(t) /\ c <= Len(fs) /\ c + 1 \in 1..(Len(fs) + 1)
               /\ s \in 0..Len(t) /\ Width(end) \in {5, 7}
<1> DEFINE t == Streams!Messages!Text(fs, end, closed)
           P == Streams!Messages!Piece
<1>1. t \in Seq(P) /\ a \in 0..Len(t) /\ c \in 0..Len(fs) /\ fs \in Seq(Streams!Messages!Frame)
      /\ Before(end, c + 1) <= a
  BY TextIs DEF Cut
<1> HIDE DEF t, P
<1>2. Len(t) \in Nat /\ Len(fs) \in Nat
  BY <1>1
<1>3. c \in Nat /\ a \in Nat /\ a <= Len(t) /\ c <= Len(fs) /\ c + 1 \in 1..(Len(fs) + 1)
      /\ c + 1 \in Nat \ {0}
  BY <1>1, <1>2
<1>4. Before(end, c + 1) \in Nat /\ Width(end) \in {5, 7}
  BY <1>3, BeforeIs
<1> QED
  BY <1>1, <1>2, <1>3, <1>4 DEF t, P

\* A part of a sequence goes on with the part after it.
LEMMA PartsJoin ==
    ASSUME NEW P, NEW t \in Seq(P), NEW s \in Nat, NEW a \in Nat, NEW n \in Nat,
           s <= a, a + n <= Len(t)
    PROVE  /\ SubSeq(SubSeq(t, a + 1, Len(t)), 1, n) = SubSeq(t, a + 1, a + n)
           /\ SubSeq(t, s + 1, a) \o SubSeq(t, a + 1, a + n) = SubSeq(t, s + 1, a + n)
           /\ SubSeq(SubSeq(t, a + 1, Len(t)), n + 1, Len(SubSeq(t, a + 1, Len(t))))
                  = SubSeq(t, a + n + 1, Len(t))
<1> DEFINE L == Len(t)
<1>1. L \in Nat /\ t \in Seq(P)
  OBVIOUS
<1>2. ASSUME NEW x \in Nat, NEW y \in Nat, x <= y, y <= L
      PROVE  /\ SubSeq(t, x + 1, y) \in Seq(P) /\ Len(SubSeq(t, x + 1, y)) = y - x
             /\ \A i \in 1..(y - x) : SubSeq(t, x + 1, y)[i] = t[x + i]
  BY <1>1, <1>2
<1> DEFINE rest == SubSeq(t, a + 1, L)
           first == SubSeq(t, a + 1, a + n)
           old == SubSeq(t, s + 1, a)
<1>3. rest \in Seq(P) /\ Len(rest) = L - a /\ \A i \in 1..(L - a) : rest[i] = t[a + i]
  BY <1>1, <1>2
<1>4. first \in Seq(P) /\ Len(first) = n /\ \A i \in 1..n : first[i] = t[a + i]
  <2>1. a + n \in Nat /\ a <= a + n /\ a + n <= L /\ (a + n) - a = n
    OBVIOUS
  <2> HIDE DEF L
  <2> QED
    BY <1>2, <2>1
<1>5. old \in Seq(P) /\ Len(old) = a - s /\ \A i \in 1..(a - s) : old[i] = t[s + i]
  BY <1>1, <1>2
<1> HIDE DEF rest, first, old
<1>6. SubSeq(rest, 1, n) = first
  <2> DEFINE x == SubSeq(rest, 1, n)
  <2>1. x \in Seq(P) /\ Len(x) = n /\ \A i \in 1..n : x[i] = rest[i] /\ i \in 1..(L - a)
    BY <1>1, <1>3
  <2> HIDE DEF x
  <2>2. \A i \in 1..Len(x) : x[i] = first[i]
    BY <1>3, <1>4, <2>1
  <2>3. x = first
    BY <1>4, <2>1, <2>2, SeqEqual
  <2> QED
    BY <2>3 DEF x
<1>7. old \o first = SubSeq(t, s + 1, a + n)
  <2> DEFINE x == old \o first
             y == SubSeq(t, s + 1, a + n)
  <2>1. /\ x \in Seq(P) /\ Len(x) = Len(old) + Len(first)
        /\ \A i \in 1..(Len(old) + Len(first)) :
               x[i] = IF i <= Len(old) THEN old[i] ELSE first[i - Len(old)]
    BY <1>4, <1>5, ConcatProperties
  <2>2. y \in Seq(P) /\ Len(y) = (a + n) - s /\ \A i \in 1..((a + n) - s) : y[i] = t[s + i]
    <3>1. a + n \in Nat /\ s <= a + n /\ a + n <= L
      OBVIOUS
    <3> HIDE DEF L
    <3> QED
      BY <1>2, <3>1
  <2> HIDE DEF x, y
  <2>3. Len(x) = Len(y) /\ Len(x) = (a - s) + n
    BY <1>4, <1>5, <2>1, <2>2
  <2>4. ASSUME NEW i \in 1..Len(x) PROVE x[i] = y[i]
    <3>1. y[i] = t[s + i]
      BY <2>2, <2>3, <2>4
    <3>2. CASE i <= a - s
      <4>1. i \in 1..(a - s) /\ i \in 1..(Len(old) + Len(first)) /\ i <= Len(old)
        BY <1>4, <1>5, <2>3, <2>4, <3>2
      <4> QED
        BY <1>5, <2>1, <3>1, <4>1
    <3>3. CASE ~(i <= a - s)
      <4>1. /\ i - (a - s) \in 1..n /\ i \in 1..(Len(old) + Len(first)) /\ ~(i <= Len(old))
            /\ a + (i - (a - s)) = s + i
        BY <1>4, <1>5, <2>3, <2>4, <3>3
      <4>2. x[i] = first[i - (a - s)]
        BY <1>5, <2>1, <4>1
      <4> QED
        BY <1>4, <3>1, <4>1, <4>2
    <3> QED
      BY <3>2, <3>3
  <2>5. x = y
    BY <2>1, <2>2, <2>3, <2>4, SeqEqual
  <2> QED
    BY <2>5 DEF x, y
<1>8. SubSeq(rest, n + 1, Len(rest)) = SubSeq(t, a + n + 1, L)
  <2> DEFINE x == SubSeq(rest, n + 1, Len(rest))
             y == SubSeq(t, a + n + 1, L)
             m == (L - a) - n
  <2>1. m \in Nat /\ Len(rest) = n + m /\ a + n \in Nat /\ a + n <= L /\ L - (a + n) = m
    BY <1>1, <1>3
  <2>2. x \in Seq(P) /\ Len(x) = m /\ \A i \in 1..m : x[i] = rest[n + i]
    <3>1. x = SubSeq(rest, n + 1, n + m) /\ n + m <= Len(rest)
      BY <1>3, <2>1
    <3> HIDE DEF m, x
    <3> QED
      BY <1>3, <2>1, <3>1
  <2>3. y \in Seq(P) /\ Len(y) = m /\ \A i \in 1..m : y[i] = t[(a + n) + i]
    <3> DEFINE v == a + n
    <3>1. v \in Nat /\ v <= L /\ L - v = m /\ y = SubSeq(t, v + 1, L)
      BY <2>1
    <3> HIDE DEF L, m, v, y
    <3>2. y \in Seq(P) /\ Len(y) = m /\ \A i \in 1..m : y[i] = t[v + i]
      <4>1. SubSeq(t, v + 1, L) \in Seq(P) /\ Len(SubSeq(t, v + 1, L)) = L - v
            /\ \A i \in 1..(L - v) : SubSeq(t, v + 1, L)[i] = t[v + i]
        <5>1. v \in Nat /\ L \in Nat /\ v <= L /\ L <= L
          BY <1>1, <3>1
        <5> QED
          BY <1>2, <5>1
      <4> QED
        BY <3>1, <4>1
    <3> QED
      BY <3>2 DEF v
  <2> HIDE DEF x, y
  <2>4. ASSUME NEW i \in 1..m PROVE x[i] = y[i]
    <3>1. n + i \in 1..(L - a) /\ a + (n + i) = (a + n) + i
      BY <1>1, <2>4
    <3> HIDE DEF m
    <3> QED
      BY <1>3, <2>2, <2>3, <2>4, <3>1
  <2> HIDE DEF m
  <2>5. x = y
    BY <2>2, <2>3, <2>4, SeqEqual
  <2> QED
    BY <2>5 DEF x, y
<1> QED
  BY <1>6, <1>7, <1>8 DEF rest, first, old

\* Nothing has come of an answer that begins.
LEMMA CutBegins ==
    ASSUME NEW fs \in Seq(Streams!Messages!Frame), NEW end \in Streams!Messages!LineEnd, NEW closed \in BOOLEAN
    PROVE  Cut(fs, end, closed, 0, 0, << >>, Streams!Messages!Text(fs, end, closed), << >>)
<1> DEFINE t == Streams!Messages!Text(fs, end, closed)
           P == Streams!Messages!Piece
<1>1. t \in Seq(P)
  BY TextIs
<1> HIDE DEF t, P
<1>2. SubSeq(t, 1, 0) = << >> /\ SubSeq(t, 1, Len(t)) = t /\ Len(t) \in Nat
  BY <1>1, SubSeqEmpty, SubSeqFull
<1>3. Before(end, 1) = 0 /\ Len(fs) \in Nat
  BY BeforeIs
<1>4. Rest(end, t, 1, 0) = << >>
  BY <1>2, <1>3 DEF Rest
<1> QED
  BY <1>2, <1>3, <1>4 DEF Cut, t

LEMMA CutGrows ==
    ASSUME NEW fs, NEW end, NEW closed, NEW a, NEW c, NEW here, NEW rest, NEW b,
           Cut(fs, end, closed, a, c, here, rest, b), NEW n \in 1..Len(rest)
    PROVE  Cut(fs, end, closed, a + n, c, here \o SubSeq(rest, 1, n), SubSeq(rest, n + 1, Len(rest)),
               b \o SubSeq(rest, 1, n))
<1> DEFINE t == Streams!Messages!Text(fs, end, closed)
           s == Before(end, c + 1)
           P == Streams!Messages!Piece
<1>1. /\ t \in Seq(P) /\ Len(t) \in Nat /\ Len(fs) \in Nat /\ a \in Nat /\ c \in Nat
      /\ s \in Nat /\ s <= a /\ a <= Len(t)
  BY CutWith
<1>2. /\ here = SubSeq(t, 1, a) /\ rest = SubSeq(t, a + 1, Len(t)) /\ b = SubSeq(t, s + 1, a)
      /\ fs \in Seq(Streams!Messages!Frame) /\ end \in Streams!Messages!LineEnd /\ closed \in BOOLEAN /\ c \in 0..Len(fs)
  BY DEF Cut, Rest
<1> HIDE DEF t, s, P
<1>3. n \in Nat /\ a + n <= Len(t)
  <2>1. Len(SubSeq(t, a + 1, Len(t))) = Len(t) - a
    BY <1>1
  <2>2. n \in 1..(Len(t) - a)
    BY <1>2, <2>1
  <2> QED
    BY <1>1, <2>2
<1>4. /\ SubSeq(rest, 1, n) = SubSeq(t, a + 1, a + n)
      /\ b \o SubSeq(t, a + 1, a + n) = SubSeq(t, s + 1, a + n)
      /\ SubSeq(rest, n + 1, Len(rest)) = SubSeq(t, a + n + 1, Len(t))
  <2> DEFINE r == SubSeq(t, a + 1, Len(t))
  <2>1. /\ SubSeq(r, 1, n) = SubSeq(t, a + 1, a + n)
        /\ SubSeq(t, s + 1, a) \o SubSeq(t, a + 1, a + n) = SubSeq(t, s + 1, a + n)
        /\ SubSeq(r, n + 1, Len(r)) = SubSeq(t, a + n + 1, Len(t))
    BY <1>1, <1>3, PartsJoin
  <2>2. rest = r /\ b = SubSeq(t, s + 1, a)
    BY <1>2
  <2> HIDE DEF r
  <2> QED
    BY <2>1, <2>2
<1>5. here \o SubSeq(t, a + 1, a + n) = SubSeq(t, 1, a + n)
  <2>1. SubSeq(t, 0 + 1, a) \o SubSeq(t, a + 1, a + n) = SubSeq(t, 0 + 1, a + n)
    BY <1>1, <1>3, PartsJoin
  <2>2. 0 + 1 = 1
    OBVIOUS
  <2> QED
    BY <1>2, <2>1, <2>2
<1>6. a + n \in 0..Len(t) /\ s <= a + n
  BY <1>1, <1>3
<1> QED
  BY <1>2, <1>4, <1>5, <1>6 DEF Cut, Rest, t, s

\* A frame is cut out if all of it has come.
LEMMA CutTakes ==
    ASSUME NEW fs, NEW end, NEW closed, NEW a, NEW c, NEW here, NEW rest, NEW b,
           Cut(fs, end, closed, a, c, here, rest, b)
    PROVE  /\ Streams!Messages!Separators(b) = {} => a < Before(end, c + 1) + Width(end)
           /\ Streams!Messages!Separators(b) # {} =>
                 LET s == Streams!Messages!FirstSeparator(b)
                 IN  /\ c + 1 <= Len(fs)
                     /\ SubSeq(b, 1, s[1] - 1) = Streams!Messages!Data(fs[c + 1])
                     /\ Cut(fs, end, closed, a, c + 1, here, rest, SubSeq(b, s[1] + s[2], Len(b)))
<1> DEFINE t == Streams!Messages!Text(fs, end, closed)
           x == Before(end, c + 1)
           w == Width(end)
           n == a - x
           P == Streams!Messages!Piece
<1>1. /\ t \in Seq(P) /\ Len(t) \in Nat /\ Len(fs) \in Nat /\ a \in Nat /\ c \in Nat
      /\ x \in Nat /\ x <= a /\ a <= Len(t) /\ c + 1 \in 1..(Len(fs) + 1) /\ w \in {5, 7}
  BY CutWith
<1>2. b = Rest(end, t, c + 1, a) /\ a \in 0..Len(t) /\ fs \in Seq(Streams!Messages!Frame) /\ end \in Streams!Messages!LineEnd
      /\ closed \in BOOLEAN /\ here = SubSeq(t, 1, a) /\ rest = SubSeq(t, a + 1, Len(t))
  BY DEF Cut
<1>3. IF n < w THEN Streams!Messages!Separators(b) = {}
      ELSE /\ Streams!Messages!Separators(b) # {} /\ Streams!Messages!FirstSeparator(b) = <<4, w - 3>>
           /\ SubSeq(b, 1, 3) = Streams!Messages!Data(fs[c + 1])
  BY <1>1, <1>2, CutIs, SMTT(60)
<1>4. /\ Len(b) = n /\ (n > 0 => c + 1 <= Len(fs))
      /\ n >= w => SubSeq(b, w + 1, n) = Rest(end, t, c + 2, a)
  <2>1. c + 2 = (c + 1) + 1
    BY <1>1
  <2>2. /\ Len(b) = n /\ (n > 0 => c + 1 <= Len(fs))
        /\ n >= w => SubSeq(b, w + 1, n) = Rest(end, t, (c + 1) + 1, a)
    <3>1. t = Streams!Messages!Text(fs, end, closed)
      OBVIOUS
    <3>2. c + 1 \in 1..(Len(fs) + 1) /\ x <= a
      BY <1>1
    <3> HIDE DEF t
    <3>3. LET k == c + 1
              r == Rest(end, t, k, a)
              m == a - Before(end, k)
          IN  /\ Len(r) = m /\ (m > 0 => k <= Len(fs))
              /\ m >= Width(end) => SubSeq(r, Width(end) + 1, m) = Rest(end, t, k + 1, a)
      BY <1>2, <3>1, <3>2, RestIs
    <3> QED
      BY <1>2, <3>3
  <2> HIDE DEF t, n, w
  <2> QED
    BY <2>1, <2>2
<1>5. Before(end, c + 2) = x + w
  <2>1. c + 1 \in Nat \ {0} /\ c + 2 = (c + 1) + 1
    BY <1>1
  <2> QED
    BY <2>1, BeforeIs
<1> HIDE DEF t, x, w, P
<1>6. Streams!Messages!Separators(b) = {} => a < x + w
  BY <1>1, <1>3
<1>7. ASSUME Streams!Messages!Separators(b) # {}
      PROVE  LET s == Streams!Messages!FirstSeparator(b)
             IN  /\ c + 1 <= Len(fs)
                 /\ SubSeq(b, 1, s[1] - 1) = Streams!Messages!Data(fs[c + 1])
                 /\ Cut(fs, end, closed, a, c + 1, here, rest, SubSeq(b, s[1] + s[2], Len(b)))
  <2> DEFINE s == Streams!Messages!FirstSeparator(b)
  <2>1. n >= w /\ n > 0 /\ s = <<4, w - 3>>
    BY <1>1, <1>3, <1>7
  <2>2. s[1] - 1 = 3 /\ s[1] + s[2] = w + 1
    BY <1>1, <2>1
  <2> HIDE DEF s
  <2>3. SubSeq(b, 1, s[1] - 1) = Streams!Messages!Data(fs[c + 1])
    BY <1>3, <2>1, <2>2, <1>7
  <2>4. SubSeq(b, s[1] + s[2], Len(b)) = Rest(end, t, c + 2, a)
    BY <1>4, <2>1, <2>2
  <2>5. c + 1 <= Len(fs) /\ c + 1 \in 0..Len(fs) /\ (c + 1) + 1 = c + 2 /\ Before(end, c + 2) <= a
    BY <1>1, <1>4, <1>5, <2>1
  <2> QED
    BY <1>2, <2>3, <2>4, <2>5 DEF Cut, t, s
<1> QED
  BY <1>6, <1>7 DEF x, w

\* What the pieces say of the frames that have come.
WholeIn(here) == Cardinality({i \in 1..Len(here) : here[i][2] = 3})
ClosedIn(here) == Cardinality({i \in 1..Len(here) : here[i] = Streams!Messages!Lf}) \div 2

LEMMA CutIsCounted ==
    ASSUME NEW fs, NEW end, NEW closed, NEW a, NEW c, NEW here, NEW rest, NEW b,
           Cut(fs, end, closed, a, c, here, rest, b)
    PROVE  LET n == a - Before(end, c + 1)
           IN  /\ WholeIn(here) \in c..Len(fs)
               /\ n < Width(end) =>
                     /\ WholeIn(here) = c + (IF n < 3 THEN 0 ELSE 1)
                     /\ ClosedIn(here) = c
<1> DEFINE t == Streams!Messages!Text(fs, end, closed)
           s == Before(end, c + 1)
           w == Width(end)
           P == Streams!Messages!Piece
<1>1. /\ t \in Seq(P) /\ Len(t) \in Nat /\ Len(fs) \in Nat /\ a \in Nat /\ c \in Nat
      /\ s \in Nat /\ s <= a /\ a <= Len(t) /\ c <= Len(fs) /\ s \in 0..Len(t) /\ w \in {5, 7}
  BY CutWith
<1>2. here = SubSeq(t, 1, a) /\ fs \in Seq(Streams!Messages!Frame) /\ end \in Streams!Messages!LineEnd /\ closed \in BOOLEAN
      /\ a \in 0..Len(t)
  BY DEF Cut
<1>3. /\ \A l \in Nat \ {0}, d \in 0..Len(t), m \in 0..(w - 1) :
            d = Before(end, l) + m =>
                /\ Count(Ends(t), d) = (l - 1) + (IF m < 3 THEN 0 ELSE 1)
                /\ Count(Feeds(t), d) = 2 * (l - 1) + FeedsIn(end, m)
      /\ \A p \in 1..Len(t) : \E l \in 1..Len(fs), j \in 1..w : p = Before(end, l) + j
  <2>1. t = Streams!Messages!Text(fs, end, closed)
    OBVIOUS
  <2> HIDE DEF t, P
  <2>2. \A p \in 1..Len(t) : \E l \in 1..Len(fs), j \in 1..w : p = Before(end, l) + j
    BY <1>2, <2>1, TextIs
  <2>3. ASSUME NEW l \in Nat \ {0}, NEW d \in 0..Len(t), NEW m \in 0..(w - 1), d = Before(end, l) + m
        PROVE  /\ Count(Ends(t), d) = (l - 1) + (IF m < 3 THEN 0 ELSE 1)
               /\ Count(Feeds(t), d) = 2 * (l - 1) + FeedsIn(end, m)
    BY <1>2, <2>1, <2>3, FramesAreCounted
  <2> QED
    BY <2>2, <2>3
<1> HIDE DEF t, s, w, P
<1>4. Len(here) = a /\ \A i \in 1..a : here[i] = t[i]
  BY <1>1, <1>2
<1>5. WholeIn(here) = Count(Ends(t), a) /\ ClosedIn(here) = Count(Feeds(t), a) \div 2
  <2>1. {i \in 1..Len(here) : here[i][2] = 3} = {i \in 1..a : i \in Ends(t)}
    BY <1>4 DEF Ends
  <2>2. {i \in 1..Len(here) : here[i] = Streams!Messages!Lf} = {i \in 1..a : i \in Feeds(t)}
    BY <1>4 DEF Feeds
  <2> QED
    BY <2>1, <2>2 DEF WholeIn, ClosedIn, Count
<1>6. c <= Count(Ends(t), a) /\ Count(Ends(t), a) \in Nat
  <2>1. c + 1 \in Nat \ {0} /\ s = Before(end, c + 1) + 0 /\ 0 \in 0..(w - 1) /\ (c + 1) - 1 = c
    BY <1>1 DEF s
  <2>2. Count(Ends(t), s) = ((c + 1) - 1) + (IF 0 < 3 THEN 0 ELSE 1)
    BY <1>1, <1>3, <2>1
  <2>3. Count(Ends(t), s) = c
    BY <1>1, <2>1, <2>2
  <2> QED
    BY <1>1, <2>3, CountIs
<1>7. Count(Ends(t), a) <= Len(fs)
  <2>1. CASE a = 0
    <3>1. Count(Ends(t), a) = 0
      BY <2>1, CountIs
    <3> QED
      BY <1>1, <3>1
  <2>2. CASE a > 0
    <3>1. a \in 1..Len(t)
      BY <1>1, <2>2
    <3>2. PICK l \in 1..Len(fs), j \in 1..w : a = Before(end, l) + j
      BY <1>3, <3>1
    <3>3. l \in Nat \ {0} /\ l <= Len(fs) /\ j \in Nat /\ l + 1 \in Nat \ {0}
      BY <1>1
    <3>4. CASE j < w
      <4>1. j \in 0..(w - 1)
        BY <1>1, <3>3, <3>4
      <4>2. Count(Ends(t), a) = (l - 1) + (IF j < 3 THEN 0 ELSE 1)
        BY <1>2, <1>3, <3>2, <3>3, <4>1
      <4> QED
        BY <1>1, <3>3, <4>2
    <3>5. CASE ~(j < w)
      <4>1. j = w /\ 0 \in 0..(w - 1)
        BY <1>1, <3>3, <3>5
      <4>2. Before(end, l) \in Nat /\ Before(end, l + 1) = Before(end, l) + w
        BY <3>3, BeforeIs DEF w
      <4>3. a = Before(end, l + 1) + 0
        BY <1>1, <3>2, <4>1, <4>2
      <4>4. Count(Ends(t), a) = ((l + 1) - 1) + (IF 0 < 3 THEN 0 ELSE 1)
        BY <1>2, <1>3, <3>3, <4>1, <4>3
      <4> QED
        BY <1>1, <3>3, <4>4
    <3> QED
      BY <3>4, <3>5
  <2> QED
    BY <1>1, <2>1, <2>2
<1>8. ASSUME a - s < w
      PROVE  /\ Count(Ends(t), a) = c + (IF a - s < 3 THEN 0 ELSE 1)
             /\ Count(Feeds(t), a) \div 2 = c
  <2> DEFINE n == a - s
  <2>1. n \in 0..(w - 1) /\ a = Before(end, c + 1) + n /\ c + 1 \in Nat \ {0} /\ (c + 1) - 1 = c
    BY <1>1, <1>8 DEF s
  <2>2. /\ Count(Ends(t), a) = c + (IF n < 3 THEN 0 ELSE 1)
        /\ Count(Feeds(t), a) = 2 * c + FeedsIn(end, n)
    <3>1. /\ Count(Ends(t), a) = ((c + 1) - 1) + (IF n < 3 THEN 0 ELSE 1)
          /\ Count(Feeds(t), a) = 2 * ((c + 1) - 1) + FeedsIn(end, n)
      <4> HIDE DEF n
      <4> QED
        BY <1>2, <1>3, <2>1
    <3> QED
      BY <2>1, <3>1
  <2>3. FeedsIn(end, n) \in {0, 1}
    BY DEF FeedsIn
  <2> HIDE DEF n
  <2>4. (2 * c + FeedsIn(end, n)) \div 2 = c
    BY <1>1, <2>3
  <2> QED
    BY <2>2, <2>4 DEF n
<1> QED
  BY <1>1, <1>5, <1>6, <1>7, <1>8 DEF s, w

\* An answer that ends leaves the events of all of its frames that have come.
LEMMA CutEnds ==
    ASSUME NEW fs, NEW end, NEW closed, NEW a, NEW c, NEW here, NEW rest, NEW b,
           Cut(fs, end, closed, a, c, here, rest, b), a < Before(end, c + 1) + Width(end),
           Streams!Messages!Parse(b) # "error"
    PROVE  Streams!Messages!EventsOf(fs, c) \o Streams!Messages!EventOf(b) = Streams!Messages!EventsOf(fs, WholeIn(here))
<1> DEFINE t == Streams!Messages!Text(fs, end, closed)
           s == Before(end, c + 1)
           w == Width(end)
           n == a - s
           sofar == Streams!Messages!EventsOf(fs, c)
           P == Streams!Messages!Piece
<1>1. /\ t \in Seq(P) /\ Len(t) \in Nat /\ Len(fs) \in Nat /\ a \in Nat /\ c \in Nat
      /\ s \in Nat /\ s <= a /\ a <= Len(t) /\ c + 1 \in 1..(Len(fs) + 1) /\ w \in {5, 7}
  BY CutWith
<1>2. b = Rest(end, t, c + 1, a) /\ a \in 0..Len(t) /\ fs \in Seq(Streams!Messages!Frame) /\ end \in Streams!Messages!LineEnd
      /\ closed \in BOOLEAN
  BY DEF Cut
<1>3. n < w /\ n \in Nat /\ n <= w
  BY <1>1
<1>4. WholeIn(here) = c + (IF n < 3 THEN 0 ELSE 1)
  BY <1>3, CutIsCounted
<1>5. /\ b \in Seq(P) /\ Len(b) = n /\ (n > 0 => c + 1 <= Len(fs))
      /\ \A i \in 1..n : i <= w => b[i] = Unit(fs[c + 1], end)[i]
  BY <1>1, <1>2, RestIs
<1>6. sofar \in Seq(Streams!Messages!Frame)
  <2>1. c \in 0..Len(fs)
    BY DEF Cut
  <2> QED
    BY <1>2, <2>1, EventsAre
<1> HIDE DEF t, s, w, sofar
<1>7. CASE n = 0
  <2>1. Len(b) <= 1
    BY <1>5, <1>7
  <2>2. b = << >>
    BY <1>5, <1>7, EmptySeq
  <2>3. Streams!Messages!Trim(b) = << >>
    BY <2>1, <2>2 DEF Streams!Messages!Trim
  <2>4. Streams!Messages!EventOf(b) = << >>
    BY <2>3 DEF Streams!Messages!EventOf, Streams!Messages!Parse
  <2>5. WholeIn(here) = c
    BY <1>1, <1>4, <1>7
  <2> QED
    BY <1>6, <2>4, <2>5, ConcatEmptySeq DEF sofar
<1>8. CASE n > 0
  <2> DEFINE f == fs[c + 1]
  <2>1. c + 1 \in 1..Len(fs) /\ c + 1 <= Len(fs) /\ f \in Streams!Messages!Frame
    BY <1>1, <1>2, <1>5, <1>8
  <2>2. ASSUME NEW i \in 1..Len(b) PROVE b[i] = Unit(f, end)[i]
    <3>1. i \in 1..n /\ i <= w
      <4> HIDE DEF n
      <4>1. i \in 1..n
        BY <1>5
      <4> QED
        BY <1>1, <1>3, <4>1
    <3> HIDE DEF n
    <3> QED
      BY <1>5, <3>1
  <2>3. Len(b) <= Width(end)
    BY <1>3, <1>5 DEF w
  <2>4. Streams!Messages!EventOf(b) = IF Len(b) >= 3 THEN EventIn(f) ELSE << >>
    <3> HIDE DEF f
    <3> QED
      BY <1>2, <1>5, <2>1, <2>2, <2>3, RestParses
  <2>5. CASE n < 3
    <3>1. Streams!Messages!EventOf(b) = << >> /\ WholeIn(here) = c
      BY <1>1, <1>3, <1>4, <1>5, <2>4, <2>5
    <3> QED
      BY <1>6, <3>1, ConcatEmptySeq DEF sofar
  <2>6. CASE ~(n < 3)
    <3>1. Streams!Messages!EventOf(b) = EventIn(f) /\ WholeIn(here) = c + 1
      BY <1>1, <1>3, <1>4, <1>5, <2>4, <2>6
    <3> QED
      BY <1>1, <1>2, <2>1, <3>1, OneMoreEvent DEF sofar
  <2> QED
    BY <2>5, <2>6
<1> QED
  BY <1>3, <1>7, <1>8

----------------------------------------------------------------------------
(* What has been told                                                       *)

\* What the consumer and the prompt cache have been told, and what is on the way.
Heard(fs, c, g, q, p, use, rec, told) ==
    /\ g \in Seq(Streams!Messages!Frame) /\ q \in Seq(Streams!Messages!Frame) /\ p \in Seq(Streams!Messages!Frame)
    /\ (g \o q) \o p = Streams!Messages!EventsOf(fs, c)
    /\ use <=> \E i \in 1..Len(g) : g[i] = "delta"
    /\ rec <=> \E i \in 1..Len(g) : g[i] = "stop"
    /\ told \in {0, 1} /\ (told = 1 <=> Counted(g))

LEMMA NoFrame == << >> \in Seq(Streams!Messages!Frame) /\ Len(<< >>) = 0 /\ << >> \o << >> = << >>
<1> DEFINE P == Streams!Messages!Frame
<1> HIDE DEF P
<1>1. << >> \in Seq(P) /\ Len(<< >>) = 0
  OBVIOUS
<1> QED
  BY <1>1, ConcatEmptySeq DEF P

LEMMA HeardBegins == \A fs : Heard(fs, 0, << >>, << >>, << >>, FALSE, FALSE, 0)
<1> TAKE fs
<1>1. 1..Len(<< >>) = {}
  BY NoFrame
<1>2. ~Counted(<< >>)
  BY <1>1 DEF Counted
<1> QED
  BY <1>1, <1>2, NoFrame, NoEvents DEF Heard

LEMMA HeardFrame ==
    ASSUME NEW fs \in Seq(Streams!Messages!Frame), NEW c \in Nat, c + 1 <= Len(fs), NEW g, NEW q, NEW p, NEW use,
           NEW rec, NEW told, Heard(fs, c, g, q, p, use, rec, told)
    PROVE  Heard(fs, c + 1, g, q, p \o EventIn(fs[c + 1]), use, rec, told)
<1> DEFINE P == Streams!Messages!Frame
           e == EventIn(fs[c + 1])
<1>1. g \in Seq(P) /\ q \in Seq(P) /\ p \in Seq(P) /\ (g \o q) \o p = Streams!Messages!EventsOf(fs, c)
  BY DEF Heard
<1>2. e \in Seq(P)
  <2>1. fs[c + 1] \in P
    OBVIOUS
  <2> HIDE DEF P
  <2> QED
    BY <2>1 DEF EventIn
<1>3. Streams!Messages!EventsOf(fs, c + 1) = Streams!Messages!EventsOf(fs, c) \o e
  BY OneMoreEvent
<1> HIDE DEF P, e
<1>4. p \o e \in Seq(P)
  BY <1>1, <1>2, ConcatProperties
<1>5. (g \o q) \o (p \o e) = ((g \o q) \o p) \o e
  <2> DEFINE o == g \o q
  <2>1. o \in Seq(P)
    BY <1>1, ConcatProperties
  <2> HIDE DEF o
  <2>2. (o \o p) \o e = o \o (p \o e)
    <3>1. o \in Seq(P) /\ p \in Seq(P) /\ e \in Seq(P)
      BY <1>1, <1>2, <2>1
    <3> QED
      BY <3>1, ConcatAssociative
  <2> QED
    BY <2>2 DEF o
<1>6. (g \o q) \o (p \o e) = Streams!Messages!EventsOf(fs, c + 1)
  BY <1>1, <1>3, <1>5
<1> QED
  BY <1>1, <1>4, <1>6 DEF Heard, P, e

LEMMA HeardChunk ==
    ASSUME NEW fs, NEW c, NEW g, NEW p, NEW use, NEW rec, NEW told,
           Heard(fs, c, g, << >>, p, use, rec, told)
    PROVE  Heard(fs, c, g, p, << >>, use, rec, told)
<1> DEFINE P == Streams!Messages!Frame
<1>1. g \in Seq(P) /\ p \in Seq(P)
  BY DEF Heard
<1> HIDE DEF P
<1>2. (g \o p) \o << >> = (g \o << >>) \o p
  <2>1. g \o p \in Seq(P) /\ g \o << >> = g
    BY <1>1, ConcatProperties, ConcatEmptySeq
  <2> QED
    BY <2>1, ConcatEmptySeq
<1> QED
  BY <1>2, NoFrame DEF Heard

LEMMA HeardEvent ==
    ASSUME NEW fs, NEW c, NEW g, NEW q, NEW use \in BOOLEAN, NEW rec \in BOOLEAN, NEW told,
           Heard(fs, c, g, q, << >>, use, rec, told), q # << >>
    PROVE  Heard(fs, c, Append(g, Head(q)), Tail(q), << >>, use \/ Head(q) = "delta",
                 rec \/ Head(q) = "stop",
                 IF Head(q) = "stop" /\ ~rec /\ use THEN told + 1 ELSE told)
<1> DEFINE P == Streams!Messages!Frame
           e == Head(q)
           new == Append(g, e)
           n == Len(g)
<1>1. /\ g \in Seq(P) /\ q \in Seq(P) /\ (g \o q) \o << >> = Streams!Messages!EventsOf(fs, c)
      /\ use <=> \E i \in 1..n : g[i] = "delta"
      /\ rec <=> \E i \in 1..n : g[i] = "stop"
      /\ told \in {0, 1} /\ (told = 1 <=> Counted(g))
  BY DEF Heard
<1> HIDE DEF P
<1>2. e \in P /\ Tail(q) \in Seq(P)
  BY <1>1, HeadTailProperties
<1>3. /\ new \in Seq(P) /\ Len(new) = n + 1 /\ n \in Nat
      /\ \A i \in 1..n : new[i] = g[i]
      /\ new[n + 1] = e
  BY <1>1, <1>2, AppendProperties
<1>4. new \o Tail(q) = g \o q
  <2>1. new = g \o <<e>> /\ <<e>> \in Seq(P)
    BY <1>1, <1>2, AppendIsConcat
  <2>2. <<e>> \o Tail(q) = q
    <3> DEFINE one == <<e>>
               r == Tail(q)
               x == one \o r
    <3>1. one \in Seq(P) /\ Len(one) = 1 /\ one[1] = e
      BY <2>1
    <3>2. r \in Seq(P) /\ Len(r) = Len(q) - 1 /\ \A i \in 1..Len(r) : r[i] = q[i + 1]
      BY <1>1, HeadTailProperties
    <3>3. q[1] = e /\ Len(q) \in Nat \ {0}
      BY <1>1, EmptySeq
    <3> HIDE DEF one, r, e
    <3>4. /\ x \in Seq(P) /\ Len(x) = Len(one) + Len(r)
          /\ \A i \in 1..(Len(one) + Len(r)) :
                 x[i] = IF i <= Len(one) THEN one[i] ELSE r[i - Len(one)]
      <4>1. one \in Seq(P) /\ r \in Seq(P)
        BY <3>1, <3>2
      <4> QED
        BY <4>1, ConcatProperties
    <3> HIDE DEF x
    <3>5. Len(x) = Len(q)
      BY <3>1, <3>2, <3>3, <3>4
    <3>6. ASSUME NEW i \in 1..Len(x) PROVE x[i] = q[i]
      <4>1. CASE i = 1
        BY <3>1, <3>2, <3>3, <3>4, <4>1
      <4>2. CASE i # 1
        <5>1. i \in 1..(Len(one) + Len(r)) /\ ~(i <= Len(one)) /\ i - 1 \in 1..Len(r) /\ (i - 1) + 1 = i
          BY <3>1, <3>2, <3>3, <3>4, <3>5, <4>2
        <5>2. x[i] = r[i - 1]
          BY <3>1, <3>4, <5>1
        <5> QED
          BY <3>2, <5>1, <5>2
      <4> QED
        BY <4>1, <4>2
    <3>7. x = q
      BY <1>1, <3>4, <3>5, <3>6, SeqEqual
    <3> QED
      BY <3>7 DEF x, one, r
  <2>3. (g \o <<e>>) \o Tail(q) = g \o (<<e>> \o Tail(q))
    BY <1>1, <1>2, <2>1, ConcatAssociative
  <2> QED
    BY <2>1, <2>2, <2>3
<1> HIDE DEF new, e, n
<1>5. (use \/ e = "delta") <=> \E i \in 1..Len(new) : new[i] = "delta"
  <2>1. \A i : i \in 1..(n + 1) <=> i \in 1..n \/ i = n + 1
    BY <1>3
  <2> QED
    BY <1>1, <1>3, <2>1
<1>6. (rec \/ e = "stop") <=> \E i \in 1..Len(new) : new[i] = "stop"
  <2>1. \A i : i \in 1..(n + 1) <=> i \in 1..n \/ i = n + 1
    BY <1>3
  <2> QED
    BY <1>1, <1>3, <2>1
<1>7. Counted(new) <=> Counted(g) \/ (e = "stop" /\ ~rec /\ use)
  <2>1. \A i : i \in 1..(n + 1) <=> i \in 1..n \/ i = n + 1
    BY <1>3
  <2>2. (\A i \in 1..n : i < n + 1) /\ 1..((n + 1) - 1) = 1..n
    BY <1>3
  <2>3. ASSUME Counted(g) PROVE Counted(new)
    <3>1. PICK i \in 1..n, j \in 1..n :
              /\ i < j /\ g[i] = "delta" /\ g[j] = "stop"
              /\ \A k \in 1..(j - 1) : g[k] # "stop"
      BY <2>3 DEF Counted, n
    <3>2. \A k \in 1..(j - 1) : k \in 1..n
      BY <1>3
    <3> QED
      BY <1>3, <2>1, <3>1, <3>2 DEF Counted
  <2>4. ASSUME e = "stop", ~rec, use PROVE Counted(new)
    <3>1. PICK i \in 1..n : g[i] = "delta"
      BY <1>1, <2>4
    <3>2. \A k \in 1..n : new[k] # "stop"
      BY <1>1, <1>3, <2>4
    <3> QED
      BY <1>3, <2>1, <2>2, <2>4, <3>1, <3>2 DEF Counted
  <2>5. ASSUME Counted(new), ~Counted(g) PROVE e = "stop" /\ ~rec /\ use
    <3>1. PICK i \in 1..(n + 1), j \in 1..(n + 1) :
              /\ i < j /\ new[i] = "delta" /\ new[j] = "stop"
              /\ \A k \in 1..(j - 1) : new[k] # "stop"
      BY <1>3, <2>5 DEF Counted
    <3>2. i \in 1..n
      BY <1>3, <3>1
    <3>3. new[i] = g[i]
      BY <1>3, <3>2
    <3>4. j = n + 1
      <4>1. SUFFICES ASSUME j \in 1..n PROVE FALSE
        BY <2>1
      <4>2. new[j] = g[j] /\ \A k \in 1..(j - 1) : k \in 1..n /\ new[k] = g[k]
        BY <1>3, <4>1
      <4>3. i \in 1..Len(g) /\ j \in 1..Len(g)
        BY <3>2, <4>1 DEF n
      <4>4. g[i] = "delta" /\ g[j] = "stop" /\ \A k \in 1..(j - 1) : g[k] # "stop"
        BY <3>1, <3>3, <4>2
      <4> QED
        BY <2>5, <3>1, <4>3, <4>4 DEF Counted
    <3>5. \A k \in 1..n : g[k] # "stop"
      BY <1>3, <2>2, <3>1, <3>4
    <3> QED
      BY <1>1, <1>3, <3>1, <3>2, <3>3, <3>4, <3>5
  <2> QED
    BY <2>3, <2>4, <2>5
<1>8. Counted(g) => rec
  <2>1. ASSUME Counted(g) PROVE \E j \in 1..n : g[j] = "stop"
    BY <2>1 DEF Counted, n
  <2> QED
    BY <1>1, <2>1
<1> DEFINE ntold == IF e = "stop" /\ ~rec /\ use THEN told + 1 ELSE told
<1>9. ntold \in {0, 1} /\ (ntold = 1 <=> Counted(new))
  BY <1>1, <1>7, <1>8
<1>10. (new \o Tail(q)) \o << >> = Streams!Messages!EventsOf(fs, c)
  BY <1>1, <1>4
<1> HIDE DEF ntold
<1>11. Heard(fs, c, new, Tail(q), << >>, use \/ e = "delta", rec \/ e = "stop", ntold)
  BY <1>2, <1>3, <1>5, <1>6, <1>9, <1>10, NoFrame DEF Heard, P
<1> QED
  BY <1>11 DEF new, e, ntold

----------------------------------------------------------------------------
(* The invariant of the frames                                              *)

MsgInv ==
    /\ reader \in {"idle", "send", "sleep", "next", "parse", "finish", "ended", "failed"}
    /\ reader \in {"idle", "send", "sleep"} =>
          /\ buffer = << >> /\ parsed = << >> /\ queue = << >> /\ got = << >>
          /\ arrived = << >> /\ usage = FALSE /\ recorded = FALSE
          /\ records = 0
    /\ reader \in {"next", "parse", "finish"} =>
          \E end \in Streams!Messages!LineEnd, closed \in BOOLEAN, a \in Nat, c \in Nat :
             /\ Cut(answer, end, closed, a, c, arrived, body, buffer)
             /\ Heard(answer, c, got, queue, parsed, usage, recorded, records)
             /\ usage \in BOOLEAN /\ recorded \in BOOLEAN
             /\ reader = "parse" => queue = << >>
             /\ reader # "parse" => parsed = << >> /\ a < Before(end, c + 1) + Width(end)
             /\ reader = "finish" => queue = << >>
    /\ reader \in {"ended", "failed"} => Streams!Messages!EventsSurviveChunking

LEMMA WholeFramesAre == Streams!Messages!WholeFrames = WholeIn(arrived) /\ Streams!Messages!ClosedFrames = ClosedIn(arrived)
  BY DEF Streams!Messages!WholeFrames, Streams!Messages!ClosedFrames, WholeIn, ClosedIn, Streams!Messages!Cardinality, Cardinality

LEMMA MsgSafe == MsgInv => Streams!Messages!EventsSurviveChunking
<1> SUFFICES ASSUME MsgInv PROVE Streams!Messages!EventsSurviveChunking
  OBVIOUS
<1>1. CASE reader \in {"ended", "failed"}
  BY <1>1 DEF MsgInv
<1>2. CASE reader \in {"idle", "send", "sleep"}
  <2>1. got = << >> /\ arrived = << >>
    BY <1>2 DEF MsgInv
  <2>2. Streams!Messages!WholeFrames = 0
    <3>1. {i \in 1..Len(arrived) : arrived[i][2] = 3} = {}
      BY <2>1, NoFrame
    <3> QED
      BY <3>1, FS_EmptySet, WholeFramesAre DEF WholeIn
  <2>3. Streams!Messages!Events = << >>
    BY <2>2, NoEvents DEF Streams!Messages!Events
  <2>4. Streams!Messages!IsPrefix(<< >>, << >>)
    BY NoFrame DEF Streams!Messages!IsPrefix
  <2> QED
    BY <1>2, <2>1, <2>3, <2>4 DEF MsgInv, Streams!Messages!EventsSurviveChunking
<1>3. CASE reader \in {"next", "parse", "finish"}
  <2>1. PICK end \in Streams!Messages!LineEnd, closed \in BOOLEAN, a \in Nat, c \in Nat :
            /\ Cut(answer, end, closed, a, c, arrived, body, buffer)
            /\ Heard(answer, c, got, queue, parsed, usage, recorded, records)
    BY <1>3 DEF MsgInv
  <2>2. answer \in Seq(Streams!Messages!Frame) /\ c \in 0..Len(answer)
    BY <2>1 DEF Cut
  <2>3. Streams!Messages!WholeFrames \in c..Len(answer)
    BY <2>1, CutIsCounted, WholeFramesAre
  <2>4. /\ got \in Seq(Streams!Messages!Frame) /\ queue \o parsed \in Seq(Streams!Messages!Frame)
        /\ got \o (queue \o parsed) = Streams!Messages!EventsOf(answer, c)
    <3> DEFINE P == Streams!Messages!Frame
    <3>1. got \in Seq(P) /\ queue \in Seq(P) /\ parsed \in Seq(P)
          /\ (got \o queue) \o parsed = Streams!Messages!EventsOf(answer, c)
      BY <2>1 DEF Heard
    <3> HIDE DEF P
    <3>2. (got \o queue) \o parsed = got \o (queue \o parsed) /\ queue \o parsed \in Seq(P)
      <4>1. got \in Seq(P) /\ queue \in Seq(P) /\ parsed \in Seq(P)
        BY <3>1
      <4>2. (got \o queue) \o parsed = got \o (queue \o parsed)
        BY <4>1, ConcatAssociative
      <4>3. queue \o parsed \in Seq(P)
        BY <4>1, ConcatProperties
      <4> QED
        BY <4>2, <4>3
    <3> QED
      BY <3>1, <3>2 DEF P
  <2>5. Streams!Messages!IsPrefix(got, Streams!Messages!Events)
    BY <2>2, <2>3, <2>4, EventsBegin DEF Streams!Messages!Events
  <2>6. records <= 1
    BY <2>1 DEF Heard
  <2> QED
    BY <1>3, <2>5, <2>6 DEF Streams!Messages!EventsSurviveChunking
<1> QED
  BY <1>1, <1>2, <1>3 DEF MsgInv

LEMMA MsgStarts == Streams!Messages!Init => MsgInv
  BY DEF Streams!Messages!Init, MsgInv

LEMMA MsgStays ==
    ASSUME MsgInv,
           UNCHANGED <<answer, body, buffer, parsed, queue, usage, recorded, records, got, reader, arrived>>
    PROVE  MsgInv'
<1>1. Streams!Messages!EventsSurviveChunking => Streams!Messages!EventsSurviveChunking'
  BY DEF Streams!Messages!EventsSurviveChunking, Streams!Messages!Events, Streams!Messages!WholeFrames, Streams!Messages!ClosedFrames
<1> QED
  BY <1>1 DEF MsgInv

\* What has been told stays so when the link breaks or a frame cannot be read.
LEMMA MsgFails ==
    ASSUME MsgInv, reader' = "failed", UNCHANGED <<answer, records, got, arrived>>
    PROVE  MsgInv'
<1>1. Streams!Messages!EventsSurviveChunking
  BY MsgSafe
<1>2. Streams!Messages!EventsSurviveChunking'
  BY <1>1 DEF Streams!Messages!EventsSurviveChunking, Streams!Messages!Events, Streams!Messages!WholeFrames
<1> QED
  BY <1>2 DEF MsgInv

LEMMA MsgSends == MsgInv /\ Streams!Messages!Send => MsgInv'
<1> SUFFICES ASSUME MsgInv, Streams!Messages!Send PROVE MsgInv'
  OBVIOUS
<1>1. CASE Streams!Messages!BeginRequest
  BY <1>1 DEF MsgInv, Streams!Messages!BeginRequest, Streams!Messages!streamVars
<1>2. CASE Streams!Messages!Backoff
  BY <1>2 DEF MsgInv, Streams!Messages!Backoff, Streams!Messages!streamVars
<1>3. CASE Streams!Messages!SendFails
  <2>1. reader = "send" /\ reader' \in {"failed", "sleep"}
        /\ UNCHANGED <<answer, body, buffer, parsed, queue, usage, recorded, records, got, arrived>>
    BY <1>3 DEF Streams!Messages!SendFails, Streams!Messages!streamVars
  <2>2. CASE reader' = "failed"
    BY <2>1, <2>2, MsgFails
  <2>3. CASE reader' = "sleep"
    BY <2>1, <2>3 DEF MsgInv
  <2> QED
    BY <2>1, <2>2, <2>3
<1>4. CASE Streams!Messages!SendSucceeds
  <2>1. PICK end \in Streams!Messages!LineEnd, closed \in BOOLEAN : body' = Streams!Messages!Text(answer', end, closed)
    BY <1>4 DEF Streams!Messages!SendSucceeds
  <2>2. /\ reader = "send" /\ reader' = "next" /\ answer' \in Streams!Messages!BoundedSeq(Streams!Messages!Frame, MaxFrames)
        /\ UNCHANGED <<buffer, parsed, queue, usage, recorded, records, got, arrived>>
    BY <1>4 DEF Streams!Messages!SendSucceeds
  <2>3. answer' \in Seq(Streams!Messages!Frame)
    <3> DEFINE P == Streams!Messages!Frame
    <3>1. PICK m \in 0..MaxFrames : answer' \in [1..m -> P]
      BY <2>2 DEF Streams!Messages!BoundedSeq, Streams!Messages!SeqOf
    <3>2. m \in Nat
      BY FramesAreNumbers
    <3> HIDE DEF P
    <3>3. answer' \in Seq(P)
      BY <3>1, <3>2
    <3> QED
      BY <3>3 DEF P
  <2>4. /\ buffer' = << >> /\ parsed' = << >> /\ queue' = << >> /\ got' = << >>
        /\ arrived' = << >> /\ usage' = FALSE /\ recorded' = FALSE /\ records' = 0
    BY <2>2 DEF MsgInv
  <2>5. Cut(answer', end, closed, 0, 0, arrived', body', buffer')
    BY <2>1, <2>3, <2>4, CutBegins
  <2>6. Heard(answer', 0, got', queue', parsed', usage', recorded', records')
    BY <2>4, HeardBegins
  <2>7. 0 \in Nat /\ 0 < Before(end, 0 + 1) + Width(end)
    BY BeforeIs
  <2> QED
    BY <2>2, <2>4, <2>5, <2>6, <2>7 DEF MsgInv
<1> QED
  BY <1>1, <1>2, <1>3, <1>4 DEF Streams!Messages!Send

LEMMA MsgReads == MsgInv /\ Streams!Messages!Read => MsgInv'
<1> SUFFICES ASSUME MsgInv, Streams!Messages!Read PROVE MsgInv'
  OBVIOUS
<1>1. reader = "next"
  BY DEF Streams!Messages!Read, Streams!Messages!NextPending, Streams!Messages!ReceiveChunk, Streams!Messages!LinkBreaks, Streams!Messages!BodyEnds
<1>2. PICK end \in Streams!Messages!LineEnd, closed \in BOOLEAN, a \in Nat, c \in Nat :
          /\ Cut(answer, end, closed, a, c, arrived, body, buffer)
          /\ Heard(answer, c, got, queue, parsed, usage, recorded, records)
          /\ usage \in BOOLEAN /\ recorded \in BOOLEAN
          /\ parsed = << >> /\ a < Before(end, c + 1) + Width(end)
  BY <1>1 DEF MsgInv
<1>3. CASE Streams!Messages!NextPending
  <2>1. /\ queue # << >> /\ got' = Append(got, Head(queue)) /\ queue' = Tail(queue)
        /\ usage' = (usage \/ Head(queue) = "delta")
        /\ recorded' = (recorded \/ Head(queue) = "stop")
        /\ records' = IF Head(queue) = "stop" /\ ~recorded /\ usage THEN records + 1 ELSE records
        /\ UNCHANGED <<answer, body, buffer, parsed, reader, arrived>>
    BY <1>3 DEF Streams!Messages!NextPending, Streams!Messages!Observe
  <2>2. Heard(answer, c, got, queue, << >>, usage, recorded, records)
    BY <1>2
  <2>3. Heard(answer, c, Append(got, Head(queue)), Tail(queue), << >>, usage \/ Head(queue) = "delta",
              recorded \/ Head(queue) = "stop",
              IF Head(queue) = "stop" /\ ~recorded /\ usage THEN records + 1 ELSE records)
    BY <1>2, <2>1, <2>2, HeardEvent
  <2>4. Heard(answer', c, got', queue', parsed', usage', recorded', records')
    BY <1>2, <2>1, <2>3
  <2>5. Cut(answer', end, closed, a, c, arrived', body', buffer')
    BY <1>2, <2>1
  <2>6. usage' \in BOOLEAN /\ recorded' \in BOOLEAN /\ parsed' = << >> /\ reader' = "next"
    BY <1>1, <1>2, <2>1
  <2> QED
    BY <1>2, <2>4, <2>5, <2>6 DEF MsgInv
<1>4. CASE Streams!Messages!ReceiveChunk
  <2>1. PICK n \in 1..Len(body) :
            /\ buffer' = buffer \o SubSeq(body, 1, n) /\ arrived' = arrived \o SubSeq(body, 1, n)
            /\ body' = SubSeq(body, n + 1, Len(body))
    BY <1>4 DEF Streams!Messages!ReceiveChunk
  <2>2. queue = << >> /\ reader' = "parse" /\ UNCHANGED <<answer, parsed, queue, usage, recorded, records, got>>
    BY <1>4 DEF Streams!Messages!ReceiveChunk
  <2>3. Cut(answer', end, closed, a + n, c, arrived', body', buffer')
    BY <1>2, <2>1, <2>2, CutGrows
  <2>4. a + n \in Nat
    <3>1. a + n \in 0..Len(Streams!Messages!Text(answer', end, closed))
      BY <2>3 DEF Cut
    <3> QED
      BY <3>1
  <2>5. Heard(answer', c, got', queue', parsed', usage', recorded', records') /\ usage' \in BOOLEAN /\ recorded' \in BOOLEAN
    BY <1>2, <2>2
  <2> QED
    BY <2>2, <2>3, <2>4, <2>5 DEF MsgInv
<1>5. CASE Streams!Messages!LinkBreaks
  <2>1. reader' = "failed" /\ UNCHANGED <<answer, records, got, arrived>>
    BY <1>5 DEF Streams!Messages!LinkBreaks, Streams!Messages!streamVars
  <2> QED
    BY <2>1, MsgFails
<1>6. CASE Streams!Messages!BodyEnds
  <2>1. /\ queue = << >> /\ reader' = "finish"
        /\ UNCHANGED <<answer, body, buffer, parsed, queue, usage, recorded, records, got, arrived>>
    BY <1>6 DEF Streams!Messages!BodyEnds, Streams!Messages!streamVars
  <2>2. Cut(answer', end, closed, a, c, arrived', body', buffer')
    BY <1>2, <2>1
  <2>3. Heard(answer', c, got', queue', parsed', usage', recorded', records') /\ usage' \in BOOLEAN /\ recorded' \in BOOLEAN
    BY <1>2, <2>1
  <2> QED
    BY <1>2, <2>1, <2>2, <2>3 DEF MsgInv
<1> QED
  BY <1>3, <1>4, <1>5, <1>6 DEF Streams!Messages!Read

LEMMA MsgParses == MsgInv /\ (Streams!Messages!TakeFrame \/ Streams!Messages!ChunkParsed) => MsgInv'
<1> SUFFICES ASSUME MsgInv, Streams!Messages!TakeFrame \/ Streams!Messages!ChunkParsed PROVE MsgInv'
  OBVIOUS
<1>1. reader = "parse"
  BY DEF Streams!Messages!TakeFrame, Streams!Messages!ChunkParsed
<1>2. PICK end \in Streams!Messages!LineEnd, closed \in BOOLEAN, a \in Nat, c \in Nat :
          /\ Cut(answer, end, closed, a, c, arrived, body, buffer)
          /\ Heard(answer, c, got, queue, parsed, usage, recorded, records)
          /\ usage \in BOOLEAN /\ recorded \in BOOLEAN /\ queue = << >>
  BY <1>1 DEF MsgInv
<1>3. CASE Streams!Messages!ChunkParsed
  <2>1. /\ Streams!Messages!Separators(buffer) = {} /\ queue' = parsed /\ parsed' = << >> /\ reader' = "next"
        /\ UNCHANGED <<answer, body, buffer, usage, recorded, records, got, arrived>>
    BY <1>3 DEF Streams!Messages!ChunkParsed
  <2>2. a < Before(end, c + 1) + Width(end)
    BY <1>2, <2>1, CutTakes
  <2>3. Heard(answer', c, got', queue', parsed', usage', recorded', records') /\ usage' \in BOOLEAN /\ recorded' \in BOOLEAN
    BY <1>2, <2>1, HeardChunk
  <2>4. Cut(answer', end, closed, a, c, arrived', body', buffer')
    BY <1>2, <2>1
  <2> QED
    BY <2>1, <2>2, <2>3, <2>4 DEF MsgInv
<1>4. CASE Streams!Messages!TakeFrame
  <2> DEFINE s == Streams!Messages!FirstSeparator(buffer)
             frame == SubSeq(buffer, 1, s[1] - 1)
             f == answer[c + 1]
  <2>1. /\ Streams!Messages!Separators(buffer) # {}
        /\ buffer' = SubSeq(buffer, s[1] + s[2], Len(buffer))
        /\ IF Streams!Messages!Parse(frame) = "error" THEN reader' = "failed" /\ parsed' = << >>
           ELSE parsed' = parsed \o Streams!Messages!EventOf(frame) /\ reader' = reader
        /\ UNCHANGED <<answer, body, queue, usage, recorded, records, got, arrived>>
    BY <1>4 DEF Streams!Messages!TakeFrame
  <2>2. /\ c + 1 <= Len(answer) /\ frame = Streams!Messages!Data(f)
        /\ Cut(answer, end, closed, a, c + 1, arrived, body, SubSeq(buffer, s[1] + s[2], Len(buffer)))
    BY <1>2, <2>1, CutTakes
  <2>3. answer \in Seq(Streams!Messages!Frame) /\ c + 1 \in 1..Len(answer)
    BY <1>2, <2>2 DEF Cut
  <2> HIDE DEF s, frame
  <2>4. CASE Streams!Messages!Parse(frame) = "error"
    BY <2>1, <2>4, MsgFails
  <2>5. CASE Streams!Messages!Parse(frame) # "error"
    <3>1. f \in Streams!Messages!Frame
      BY <2>3
    <3>2. Streams!Messages!EventOf(frame) = EventIn(f)
      BY <2>2, <2>5, <3>1, DataParses
    <3>3. Heard(answer, c + 1, got, queue, parsed \o EventIn(f), usage, recorded, records)
      BY <1>2, <2>2, <2>3, HeardFrame
    <3>4. Heard(answer', c + 1, got', queue', parsed', usage', recorded', records') /\ usage' \in BOOLEAN /\ recorded' \in BOOLEAN
      BY <1>2, <2>1, <2>5, <3>2, <3>3
    <3>5. Cut(answer', end, closed, a, c + 1, arrived', body', buffer')
      BY <2>1, <2>2
    <3>6. reader' = "parse" /\ queue' = << >> /\ c + 1 \in Nat
      BY <1>1, <1>2, <2>1, <2>5
    <3> QED
      BY <3>4, <3>5, <3>6 DEF MsgInv
  <2> QED
    BY <2>4, <2>5
<1> QED
  BY <1>3, <1>4

LEMMA MsgFinishes == MsgInv /\ Streams!Messages!Finish => MsgInv'
<1> SUFFICES ASSUME MsgInv, Streams!Messages!Finish PROVE MsgInv'
  OBVIOUS
<1>1. /\ reader = "finish" /\ UNCHANGED <<answer, body, parsed, queue, usage, recorded, records, attempts, arrived>>
      /\ IF Streams!Messages!Parse(buffer) = "error" THEN reader' = "failed" /\ got' = got
         ELSE reader' = "ended" /\ got' = got \o Streams!Messages!EventOf(buffer)
  BY DEF Streams!Messages!Finish
<1>2. PICK end \in Streams!Messages!LineEnd, closed \in BOOLEAN, a \in Nat, c \in Nat :
          /\ Cut(answer, end, closed, a, c, arrived, body, buffer)
          /\ Heard(answer, c, got, queue, parsed, usage, recorded, records)
          /\ queue = << >> /\ parsed = << >> /\ a < Before(end, c + 1) + Width(end)
  BY <1>1 DEF MsgInv
<1>3. CASE Streams!Messages!Parse(buffer) = "error"
  BY <1>1, <1>3, MsgFails
<1>4. CASE Streams!Messages!Parse(buffer) # "error"
  <2>1. /\ got = Streams!Messages!EventsOf(answer, c) /\ got \in Seq(Streams!Messages!Frame)
        /\ records <= 1 /\ (records = 1 <=> Counted(got))
    <3> DEFINE P == Streams!Messages!Frame
    <3>1. got \in Seq(P) /\ (got \o << >>) \o << >> = Streams!Messages!EventsOf(answer, c)
          /\ records <= 1 /\ (records = 1 <=> Counted(got))
      BY <1>2 DEF Heard
    <3> HIDE DEF P
    <3>2. (got \o << >>) \o << >> = got
      BY <3>1, ConcatEmptySeq
    <3> QED
      BY <3>1, <3>2 DEF P
  <2>2. answer \in Seq(Streams!Messages!Frame) /\ c \in 0..Len(answer)
    BY <1>2 DEF Cut
  <2>3. got' = Streams!Messages!Events'
    <3>1. Streams!Messages!EventsOf(answer, c) \o Streams!Messages!EventOf(buffer) = Streams!Messages!EventsOf(answer, WholeIn(arrived))
      BY <1>2, <1>4, CutEnds
    <3>2. Streams!Messages!Events = Streams!Messages!EventsOf(answer, WholeIn(arrived))
      BY WholeFramesAre DEF Streams!Messages!Events
    <3>3. Streams!Messages!Events' = Streams!Messages!Events
      BY <1>1 DEF Streams!Messages!Events, Streams!Messages!WholeFrames
    <3> QED
      BY <1>1, <1>4, <2>1, <3>1, <3>2, <3>3
  <2>4. /\ records' <= 1
        /\ records' = 1 <=> \E i, j \in 1..Streams!Messages!ClosedFrames' :
               /\ i < j /\ answer'[i] = "delta" /\ answer'[j] = "stop"
               /\ \A k \in 1..(j - 1) : answer'[k] # "stop"
    <3>1. ClosedIn(arrived) = c
      <4>1. a - Before(end, c + 1) < Width(end)
        <5>1. a \in Nat /\ Before(end, c + 1) \in Nat /\ Width(end) \in {5, 7}
          BY <1>2, CutWith
        <5> QED
          BY <1>2, <5>1
      <4> QED
        BY <1>2, <4>1, CutIsCounted
    <3>2. Streams!Messages!ClosedFrames' = c
      <4>1. Streams!Messages!ClosedFrames' = Streams!Messages!ClosedFrames
        BY <1>1 DEF Streams!Messages!ClosedFrames
      <4> QED
        BY <3>1, <4>1, WholeFramesAre
    <3>3. Counted(got) <=> CountedIn(answer, c)
      BY <2>1, <2>2, UsageIsCounted
    <3> QED
      BY <1>1, <2>1, <3>2, <3>3 DEF CountedIn
  <2>5. Streams!Messages!IsPrefix(got, got)'
    <3> DEFINE n == WholeIn(arrived)
    <3>1. n \in 0..Len(answer)
      <4>1. n \in c..Len(answer) /\ c \in Nat /\ Len(answer) \in Nat
        BY <1>2, <2>2, CutIsCounted
      <4> HIDE DEF n
      <4> QED
        BY <4>1
    <3>2. Streams!Messages!EventsOf(answer, n) \in Seq(Streams!Messages!Frame)
      BY <2>2, <3>1, EventsAre
    <3>3. got' = Streams!Messages!EventsOf(answer, n)
      <4>1. Streams!Messages!Events' = Streams!Messages!Events
        BY <1>1 DEF Streams!Messages!Events, Streams!Messages!WholeFrames
      <4> QED
        BY <2>3, <4>1, WholeFramesAre DEF Streams!Messages!Events
    <3>4. got' \in Seq(Streams!Messages!Frame)
      BY <3>2, <3>3
    <3>5. Len(got') <= Len(got')
      <4> DEFINE P == Streams!Messages!Frame
      <4>1. got' \in Seq(P)
        BY <3>4
      <4> HIDE DEF P
      <4> QED
        BY <4>1
    <3> QED
      BY <3>5 DEF Streams!Messages!IsPrefix
  <2>6. Streams!Messages!EventsSurviveChunking'
    BY <2>3, <2>4, <2>5 DEF Streams!Messages!EventsSurviveChunking
  <2>7. reader' = "ended"
    BY <1>1, <1>4
  <2> QED
    BY <2>6, <2>7 DEF MsgInv
<1> QED
  BY <1>3, <1>4

LEMMA MsgStep == MsgInv /\ [EachNext]_eachVars => MsgInv'
<1> SUFFICES ASSUME MsgInv, [EachNext]_eachVars PROVE MsgInv'
  OBVIOUS
<1>1. CASE UNCHANGED streamVars
  BY <1>1, MsgStays DEF streamVars
<1>2. CASE Streams!EachNext
  <2>1. CASE UNCHANGED Streams!messageVars
    BY <2>1, MsgStays DEF Streams!messageVars
  <2>2. CASE Streams!Messages!Next
    <3>1. CASE Streams!Messages!Send
      BY <3>1, MsgSends
    <3>2. CASE Streams!Messages!Read
      BY <3>2, MsgReads
    <3>3. CASE Streams!Messages!Decode
      BY <3>3, MsgParses, MsgFinishes DEF Streams!Messages!Decode
    <3> QED
      BY <2>2, <3>1, <3>2, <3>3 DEF Streams!Messages!Next
  <2> QED
    BY <1>2, <2>1, <2>2 DEF Streams!EachNext
<1> QED
  BY <1>1, <1>2 DEF EachNext, eachVars

\* However the network cuts the body of an answer into chunks, and wherever it
\* ends, the consumer gets the events of the answer in order, all of those that
\* have come when it is told of the end, and the prompt cache is told of an answer
\* once if its usage came before its first stop, and else never: SseParser::push
\* and finish (sse.rs) under next_event and observe_event (anthropic.rs).
THEOREM EventsArriveWhole == EachSpec => []EventsSurviveChunking
<1>1. EachInit => MsgInv
  BY MsgStarts DEF EachInit, Streams!EachInit
<1>2. MsgInv /\ [EachNext]_eachVars => MsgInv'
  BY MsgStep
<1>3. MsgInv => EventsSurviveChunking
  BY MsgSafe DEF EventsSurviveChunking, Streams!EventsSurviveChunking
<1> QED
  BY <1>1, <1>2, <1>3, PTL DEF EachSpec
==============================================================================
