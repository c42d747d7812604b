-------------------------- MODULE SessionLogProofs --------------------------
(***************************************************************************)
(* Theorems about SessionLog, for any processes, failures and bounds.  The *)
(* invariant is about the one process that has the session open: what it   *)
(* remembers is what was acknowledged, and how far its operation has come  *)
(* with the file.  Two processes on one file break it, and the properties  *)
(* say so.                                                                 *)
(***************************************************************************)
EXTENDS SessionLog, SequenceTheorems, FiniteSetTheorems, WellFoundedInduction, TLAPS

Message == [kind : {"message"}, id : Nat]
Prompt == [kind : {"prompt"}, id : Nat]

\* What a session in memory says.
Known(s) == Range(s.messages) \cup Range(s.prompts)

SessionType == [open : BOOLEAN, messages : Seq(Message), prompts : Seq(Prompt),
                compactions : Nat]

OpType == [pc : {"idle", "body", "newline", "rotate", "write", "cleanup"},
           record : {Meta} \cup Message \cup Prompt, snapshot : Seq(Chunk), inode : Nat]

TypeInv ==
    /\ files \in Seq(Seq(Chunk)) /\ path \in 0..Len(files)
    /\ rotated \in Seq(1..Len(files))
    /\ session \in [Process -> SessionType]
    /\ op \in [Process -> OpType]
    /\ next \in Nat \ {0} /\ saves \in 0..MaxSaves /\ crashes \in 0..MaxCrashes
    /\ cut \in BOOLEAN /\ trouble \subseteq {"io", "shared"}
    /\ acked \subseteq Message \cup Prompt
    /\ \A record \in acked : record.id \in 1..(next - 1)
    /\ \A p \in Process :
          /\ op[p].record # Meta => op[p].record.id \in 1..(next - 1)
          /\ op[p].pc = "newline" => op[p].inode \in 1..Len(files)

\* A file that a record can be appended to.
EndsALine(content) == content = << >> \/ Last(content) = Newline

ClosedIsIdle == \A p \in Process : ~session[p].open => op[p] = Idle

OneOpen == \A p, q \in Process : session[p].open /\ session[q].open => p = q

\* An operation that is under way, and what it has done to the file.
UnderWay(p) ==
    LET o == op[p]
        s == session[p]
    IN  /\ o.pc # "idle" /\ o.record # Meta =>
               /\ o.record \notin acked
               /\ o.record.kind = "message" => s.messages # << >> /\ Last(s.messages) = o.record
               /\ o.record.kind = "prompt" => s.prompts # << >> /\ Last(s.prompts) = o.record
        /\ o.pc = "body" => o.record # Meta /\ path # 0
        /\ o.pc = "newline" =>
               /\ o.record # Meta /\ path # 0 /\ o.inode = path
               /\ files[path] # << >> /\ Last(files[path]) = o.record
        /\ o.pc \in {"rotate", "write", "cleanup"} => o.snapshot = Snapshot(s)
        /\ o.pc = "cleanup" => path # 0 /\ files[path] = o.snapshot

\* What was acknowledged is in memory and in a file.
Safe ==
    /\ \A p \in Process : session[p].open => acked \subseteq Known(session[p])
    /\ path # 0 => acked \subseteq Range(files[path])
    /\ path = 0 /\ acked # {}
         => rotated # << >> /\ acked \subseteq Range(files[Last(rotated)])

\* Every line is whole, and the last one is ended or about to be.
Legible ==
    path # 0 /\ ~cut =>
        /\ Readable(files[path])
        /\ (\A p \in Process : op[p].pc # "newline") => EndsALine(files[path])

\* What is in the file of what a session says: all its prompts, all of its
\* messages but the summary.
Holds(content, prompts, messages) ==
    /\ prompts = RecordsOf(content, "prompt")
    /\ IsSuffix(WithoutSummary(messages), RecordsOf(content, "message"))

\* Nothing has failed: the file is what the session in memory says, but for the
\* record that is about to be written and while a snapshot is on its way.
Mirrored(p) ==
    LET o == op[p]
        s == session[p]
    IN  s.open =>
        /\ o.pc # "write" => path # 0 \/ o.pc = "rotate"
        /\ o.pc \in {"idle", "newline", "cleanup"} => Holds(files[path], s.prompts, s.messages)
        /\ o.pc = "body" =>
               IF o.record.kind = "message"
               THEN Holds(files[path], s.prompts, Front(s.messages))
               ELSE Holds(files[path], Front(s.prompts), s.messages)

IInv ==
    /\ TypeInv /\ ClosedIsIdle
    /\ "shared" \notin trouble =>
          /\ OneOpen /\ Safe /\ Legible /\ \A p \in Process : UnderWay(p)
    /\ trouble = {} => \A p \in Process : Mirrored(p)

----------------------------------------------------------------------------
(* Induction: a set of naturals that holds 0 and with each its successor.  *)

LEMMA AllNaturals ==
    ASSUME NEW S \in SUBSET Nat, 0 \in S, \A n \in S : n + 1 \in S
    PROVE  S = Nat
<1> DEFINE T == Nat \ S
           Less == OpToRel(<, Nat)
<1>1. IsWellFoundedOn(Less, Nat)
  BY NatLessThanWellFounded
<1>2. \A y, x \in Nat : y < x => <<y, x>> \in Less
  BY DEF OpToRel
<1> HIDE DEF Less
<1> SUFFICES ASSUME T # {} PROVE FALSE
  OBVIOUS
<1>3. PICK x \in T : \A y \in T : ~ (<<y, x>> \in Less)
  BY <1>1, WFMin
<1>4. x - 1 \in Nat /\ x - 1 < x /\ x = (x - 1) + 1
  OBVIOUS
<1>5. x - 1 \notin T
  BY <1>2, <1>3, <1>4, Zenon
<1> QED
  BY <1>4, <1>5

LEMMA RangeOfAppend ==
    ASSUME NEW S, NEW s \in Seq(S), NEW e \in S
    PROVE  Range(Append(s, e)) = Range(s) \cup {e}
<1>1. Append(s, e) \in Seq(S) /\ Len(Append(s, e)) = Len(s) + 1
      /\ (\A i \in 1..Len(s) : Append(s, e)[i] = s[i])
      /\ Append(s, e)[Len(s) + 1] = e
  BY AppendProperties
<1> DEFINE new == Append(s, e)
<1>2. Range(s) = {s[i] : i \in 1..Len(s)} /\ Range(new) = {new[i] : i \in 1..Len(new)}
  BY <1>1, RangeEquality
<1>3. 1..Len(new) = 1..Len(s) \cup {Len(s) + 1}
  BY <1>1
<1> HIDE DEF new
<1> QED
  BY <1>1, <1>2, <1>3 DEF new

----------------------------------------------------------------------------
(* The records of one kind in a file *)

OfKind(kind) == {c \in Chunk : c.kind = kind}

\* What one more chunk adds to them.
Step(kept, c, kind) == IF c.kind = kind THEN Append(kept, c) ELSE kept

\* g[i] is what the first i chunks hold, for all i up to n.
Steps(g, content, kind, n) ==
    g[0] = << >> /\ \A i \in 1..n : g[i] = Step(g[i - 1], content[i], kind)

\* What RecordsOf computes on the way.
IsRun(f, content, kind) ==
    f = [i \in 0..Len(content) |->
            IF i = 0 THEN << >>
            ELSE IF content[i].kind = kind THEN Append(f[i - 1], content[i])
            ELSE f[i - 1]]

LEMMA RunSteps ==
    ASSUME NEW content, Len(content) \in Nat, NEW kind, NEW f, IsRun(f, content, kind)
    PROVE  Steps(f, content, kind, Len(content))
<1>1. \A i \in 0..Len(content) :
          f[i] = IF i = 0 THEN << >>
                 ELSE IF content[i].kind = kind THEN Append(f[i - 1], content[i])
                 ELSE f[i - 1]
  BY DEF IsRun
<1>2. \A i \in 0..Len(content) :
          f[i] = IF i = 0 THEN << >> ELSE Step(f[i - 1], content[i], kind)
  BY <1>1 DEF Step
<1> QED
  BY <1>2 DEF Steps

LEMMA StepsAreAlike ==
    ASSUME NEW content, NEW kind, NEW m \in Nat, NEW f, NEW g,
           Steps(f, content, kind, m), Steps(g, content, kind, m)
    PROVE  f[m] = g[m]
<1> DEFINE S == {n \in Nat : n <= m => f[n] = g[n]}
<1>1. 0 \in S
  BY DEF Steps
<1>2. ASSUME NEW n \in S PROVE n + 1 \in S
  <2> SUFFICES ASSUME n + 1 <= m PROVE f[n + 1] = g[n + 1]
    OBVIOUS
  <2>1. n \in Nat /\ f[n] = g[n] /\ (n + 1) - 1 = n /\ n + 1 \in 1..m
    OBVIOUS
  <2> QED
    BY <2>1 DEF Steps
<1>3. S = Nat
  <2> HIDE DEF S
  <2> QED BY <1>1, <1>2, AllNaturals DEF S
<1> QED
  BY <1>3

\* Any account of the way, step by step, ends in what RecordsOf finds.
LEMMA RecordsAre ==
    ASSUME NEW content, Len(content) \in Nat, NEW kind, NEW g,
           Steps(g, content, kind, Len(content))
    PROVE  RecordsOf(content, kind) = g[Len(content)]
<1> DEFINE f == [i \in 0..Len(content) |-> g[i]]
           h == CHOOSE h : IsRun(h, content, kind)
<1>1. \A i \in 0..Len(content) :
          g[i] = IF i = 0 THEN << >> ELSE Step(g[i - 1], content[i], kind)
  BY DEF Steps
<1>2. \A i \in 1..Len(content) : i - 1 \in 0..Len(content) /\ f[i - 1] = g[i - 1]
  OBVIOUS
<1>3. \A i \in 0..Len(content) :
          g[i] = IF i = 0 THEN << >>
                 ELSE IF content[i].kind = kind THEN Append(f[i - 1], content[i])
                 ELSE f[i - 1]
  <2> HIDE DEF f
  <2> QED BY <1>1, <1>2 DEF Step
<1>4. IsRun(f, content, kind)
  BY <1>3 DEF IsRun
<1> HIDE DEF f
<1>5. IsRun(h, content, kind)
  BY <1>4
<1>6. RecordsOf(content, kind) = h[Len(content)]
  BY DEF RecordsOf, IsRun
<1> HIDE DEF h
<1>7. h[Len(content)] = g[Len(content)]
  BY <1>5, RunSteps, StepsAreAlike
<1> QED
  BY <1>6, <1>7

\* Up to n there is such an account, and it collects what it should.
Account(g, content, kind, n) ==
    /\ Steps(g, content, kind, n)
    /\ g[n] \in Seq(OfKind(kind))
    /\ Range(g[n]) = {c \in OfKind(kind) : \E j \in 1..n : content[j] = c}

LEMMA StepKeepsAccount ==
    ASSUME NEW content \in Seq(Chunk), NEW kind, NEW n \in Nat, n + 1 <= Len(content),
           NEW g, Account(g, content, kind, n)
    PROVE  \E h : Account(h, content, kind, n + 1)
<1> DEFINE e == content[n + 1]
           last == Step(g[n], e, kind)
           h == [i \in 0..(n + 1) |-> IF i <= n THEN g[i] ELSE last]
<1>1. e \in Chunk
  OBVIOUS
<1>2. g[n] \in Seq(OfKind(kind))
        /\ Range(g[n]) = {c \in OfKind(kind) : \E j \in 1..n : content[j] = c}
  BY DEF Account
<1>3. last \in Seq(OfKind(kind))
  BY <1>1, <1>2 DEF OfKind, Step
<1>4. Range(last) = {c \in OfKind(kind) : \E j \in 1..(n + 1) : content[j] = c}
  <2>1. CASE e.kind = kind
    <3>1. e \in OfKind(kind) /\ last = Append(g[n], e)
      BY <2>1, <1>1 DEF OfKind, Step
    <3>2. Range(last) = Range(g[n]) \cup {e}
      BY <3>1, <1>2, RangeOfAppend
    <3> HIDE DEF last
    <3>3. \A j \in 1..(n + 1) : j \in 1..n \/ j = n + 1
      OBVIOUS
    <3>4. \A j \in 1..n : j \in 1..(n + 1)
      OBVIOUS
    <3> QED BY <3>1, <3>2, <3>3, <3>4, <1>2
  <2>2. CASE e.kind # kind
    <3>1. e \notin OfKind(kind) /\ last = g[n]
      BY <2>2 DEF OfKind, Step
    <3>3. \A j \in 1..(n + 1) : j \in 1..n \/ j = n + 1
      OBVIOUS
    <3>4. \A j \in 1..n : j \in 1..(n + 1)
      OBVIOUS
    <3> HIDE DEF last
    <3> QED BY <3>1, <3>3, <3>4, <1>2
  <2> QED BY <2>1, <2>2
<1>5. h[n + 1] = last /\ \A i \in 0..n : h[i] = g[i]
  OBVIOUS
<1> HIDE DEF h
<1>6. h[0] = << >>
  BY <1>5 DEF Account, Steps
<1>7. ASSUME NEW i \in 1..(n + 1) PROVE h[i] = Step(h[i - 1], content[i], kind)
  <2>1. CASE i \in 1..n
    BY <2>1, <1>5 DEF Account, Steps
  <2>2. CASE i = n + 1
    BY <2>2, <1>5
  <2> QED BY <2>1, <2>2
<1>8. Account(h, content, kind, n + 1)
  <2> HIDE DEF last
  <2> QED BY <1>3, <1>4, <1>5, <1>6, <1>7 DEF Account, Steps
<1> QED BY <1>8

LEMMA HasAccount ==
    ASSUME NEW content \in Seq(Chunk), NEW kind
    PROVE  \E g : Account(g, content, kind, Len(content))
<1> DEFINE S == {n \in Nat : n <= Len(content) => \E g : Account(g, content, kind, n)}
<1>1. 0 \in S
  <2> DEFINE g == [i \in {0} |-> << >>]
  <2>1. g[0] = << >> /\ g[0] \in Seq(OfKind(kind)) /\ Range(g[0]) = {}
    BY DEF Range
  <2>2. Account(g, content, kind, 0)
    BY <2>1 DEF Account, Steps
  <2> QED BY <2>2
<1>2. ASSUME NEW n \in S PROVE n + 1 \in S
  <2> SUFFICES ASSUME n + 1 <= Len(content) PROVE \E g : Account(g, content, kind, n + 1)
    OBVIOUS
  <2>1. n \in Nat /\ n <= Len(content)
    OBVIOUS
  <2>2. PICK g : Account(g, content, kind, n)
    BY <2>1
  <2> QED BY <2>1, <2>2, StepKeepsAccount
<1>3. S = Nat
  <2> HIDE DEF S
  <2> QED BY <1>1, <1>2, AllNaturals DEF S
<1>4. Len(content) \in Nat
  OBVIOUS
<1>5. Len(content) \in S
  <2> HIDE DEF S
  <2> QED BY <1>3, <1>4
<1> QED
  BY <1>4, <1>5

LEMMA RecordsOfType ==
    ASSUME NEW content \in Seq(Chunk), NEW kind
    PROVE  /\ RecordsOf(content, kind) \in Seq(OfKind(kind))
           /\ Range(RecordsOf(content, kind)) = {c \in Range(content) : c.kind = kind}
<1>4. PICK g : Account(g, content, kind, Len(content))
  BY HasAccount
<1>5. RecordsOf(content, kind) = g[Len(content)]
  BY <1>4, RecordsAre DEF Account
<1>6. Range(content) = {content[j] : j \in 1..Len(content)} /\ Range(content) \subseteq Chunk
  BY RangeEquality, RangeOfSeq
<1>7. {c \in OfKind(kind) : \E j \in 1..Len(content) : content[j] = c}
        = {c \in Range(content) : c.kind = kind}
  BY <1>6 DEF OfKind
<1> QED
  BY <1>4, <1>5, <1>7 DEF Account


LEMMA NoRecords ==
    ASSUME NEW content \in Seq(Chunk), NEW kind,
           \A i \in 1..Len(content) : content[i].kind # kind
    PROVE  RecordsOf(content, kind) = << >>
<1> DEFINE r == RecordsOf(content, kind)
<1>1. r \in Seq(OfKind(kind)) /\ Range(r) = {c \in Range(content) : c.kind = kind}
  BY RecordsOfType
<1>2. Range(content) = {content[i] : i \in 1..Len(content)}
  BY RangeEquality
<1>3. Range(r) = {}
  BY <1>1, <1>2
<1>4. Range(r) = {r[i] : i \in 1..Len(r)}
  BY <1>1, RangeEquality
<1> HIDE DEF r
<1>5. Len(r) = 0
  <2> SUFFICES ASSUME Len(r) # 0 PROVE FALSE
    OBVIOUS
  <2>1. 1 \in 1..Len(r)
    BY <1>1
  <2> QED BY <2>1, <1>3, <1>4
<1> QED
  BY <1>1, <1>5, EmptySeq DEF r

LEMMA RecordsOfOwnKind ==
    ASSUME NEW kind, NEW content \in Seq(OfKind(kind))
    PROVE  RecordsOf(content, kind) = content
<1> DEFINE g == [i \in 0..Len(content) |-> SubSeq(content, 1, i)]
<1>1. Len(content) \in Nat
  OBVIOUS
<1>2. g[0] = << >>
  BY <1>1, SubSeqEmpty
<1>3. ASSUME NEW i \in 1..Len(content) PROVE g[i] = Step(g[i - 1], content[i], kind)
  <2>1. content[i] \in OfKind(kind)
    OBVIOUS
  <2>2. SubSeq(content, 1, i) = SubSeq(content, 1, i - 1) \o <<content[i]>>
    BY <1>1, SubSeqRecursiveSecond
  <2>3. SubSeq(content, 1, i - 1) \in Seq(OfKind(kind))
    OBVIOUS
  <2>4. Append(SubSeq(content, 1, i - 1), content[i]) = SubSeq(content, 1, i - 1) \o <<content[i]>>
    BY <2>1, <2>3, AppendIsConcat
  <2>5. g[i] = SubSeq(content, 1, i) /\ g[i - 1] = SubSeq(content, 1, i - 1)
    BY <1>1
  <2> HIDE DEF g
  <2> QED BY <2>1, <2>2, <2>4, <2>5 DEF OfKind, Step
<1>4. g[Len(content)] = content
  BY <1>1, SubSeqFull
<1> HIDE DEF g
<1> QED
  BY <1>1, <1>2, <1>3, <1>4, RecordsAre DEF Steps

LEMMA RecordsOfOneMore ==
    ASSUME NEW content \in Seq(Chunk), NEW c \in Chunk, NEW kind
    PROVE  RecordsOf(content \o <<c>>, kind) = Step(RecordsOf(content, kind), c, kind)
<1> DEFINE n == Len(content)
           new == content \o <<c>>
<1>1. new \in Seq(Chunk) /\ Len(new) = n + 1 /\ n \in Nat
      /\ new[n + 1] = c /\ \A i \in 1..n : new[i] = content[i]
  OBVIOUS
<1> HIDE DEF new
<1>2. PICK g : Steps(g, new, kind, n + 1)
  BY <1>1, HasAccount DEF Account
<1>3. Steps(g, content, kind, n)
  BY <1>1, <1>2 DEF Steps
<1>4. g[n + 1] = Step(g[n], c, kind)
  <2>1. n + 1 \in 1..(n + 1) /\ (n + 1) - 1 = n
    BY <1>1
  <2> HIDE DEF n
  <2> QED BY <2>1, <1>1, <1>2 DEF Steps
<1>5. RecordsOf(content, kind) = g[n]
  BY <1>1, <1>3, RecordsAre
<1>6. RecordsOf(new, kind) = g[n + 1]
  BY <1>1, <1>2, RecordsAre
<1> QED
  BY <1>4, <1>5, <1>6 DEF new

LEMMA RecordsOfBoth ==
    ASSUME NEW a \in Seq(Chunk), NEW b \in Seq(Chunk), NEW kind
    PROVE  RecordsOf(a \o b, kind) = RecordsOf(a, kind) \o RecordsOf(b, kind)
<1> DEFINE part(n) == SubSeq(b, 1, n)
           Same(n) == RecordsOf(a \o part(n), kind)
                        = RecordsOf(a, kind) \o RecordsOf(part(n), kind)
           S == {n \in Nat : n <= Len(b) => Same(n)}
<1>1. RecordsOf(a, kind) \in Seq(OfKind(kind))
  BY RecordsOfType
<1>2. 0 \in S
  <2>1. part(0) = << >>
    BY SubSeqEmpty
  <2>2. RecordsOf(<< >>, kind) = << >>
    <3>1. << >> \in Seq(Chunk) /\ \A i \in 1..Len(<< >>) : << >>[i].kind # kind
      OBVIOUS
    <3> QED BY <3>1, NoRecords
  <2>3. a \o << >> = a
    BY ConcatEmptySeq
  <2>4. RecordsOf(a, kind) \o << >> = RecordsOf(a, kind)
    BY <1>1, ConcatEmptySeq
  <2>5. Same(0)
    BY <2>1, <2>2, <2>3, <2>4
  <2> QED BY <2>5
<1>3. ASSUME NEW n \in S PROVE n + 1 \in S
  <2> SUFFICES ASSUME n + 1 <= Len(b) PROVE Same(n + 1)
    OBVIOUS
  <2> DEFINE e == b[n + 1]
             p == part(n)
             rp == RecordsOf(p, kind)
  <2>1. n \in Nat /\ e \in Chunk /\ p \in Seq(Chunk) /\ Same(n)
    OBVIOUS
  <2>2. part(n + 1) = p \o <<e>>
    BY <2>1, SubSeqRecursiveSecond
  <2>3. a \o part(n + 1) = (a \o p) \o <<e>>
    <3>1. <<e>> \in Seq(Chunk)
      BY <2>1
    <3>2. p \in Seq(Chunk)
      BY <2>1
    <3> HIDE DEF p, e
    <3>3. (a \o p) \o <<e>> = a \o (p \o <<e>>)
      BY <3>1, <3>2, ConcatAssociative, SMTT(60)
    <3> QED BY <2>2, <3>3
  <2>4. a \o p \in Seq(Chunk)
    BY <2>1
  <2>5. RecordsOf(a \o part(n + 1), kind) = Step(RecordsOf(a \o p, kind), e, kind)
    BY <2>1, <2>3, <2>4, RecordsOfOneMore, ZenonT(60)
  <2>6. RecordsOf(part(n + 1), kind) = Step(rp, e, kind)
    BY <2>1, <2>2, RecordsOfOneMore, ZenonT(60)
  <2>7. rp \in Seq(OfKind(kind))
    BY <2>1, RecordsOfType
  <2>8. RecordsOf(a \o p, kind) = RecordsOf(a, kind) \o rp
    BY <2>1
  <2> HIDE DEF part
  <2>9. Step(RecordsOf(a, kind) \o rp, e, kind) = RecordsOf(a, kind) \o Step(rp, e, kind)
    <3> HIDE DEF rp, e
    <3>1. CASE e.kind = kind
      <4> DEFINE ra == RecordsOf(a, kind)
      <4>1. e \in OfKind(kind)
        BY <2>1, <3>1 DEF OfKind
      <4>2. <<e>> \in Seq(OfKind(kind)) /\ ra \o rp \in Seq(OfKind(kind))
        BY <4>1, <1>1, <2>7
      <4>3. Append(ra \o rp, e) = (ra \o rp) \o <<e>> /\ Append(rp, e) = rp \o <<e>>
        BY <4>1, <4>2, <2>7, AppendIsConcat
      <4>4. (ra \o rp) \o <<e>> = ra \o (rp \o <<e>>)
        BY <4>2, <1>1, <2>7, ConcatAssociative, SMTT(60)
      <4> QED BY <4>3, <4>4, <3>1 DEF Step
    <3>2. CASE e.kind # kind
      BY <3>2 DEF Step
    <3> QED BY <3>1, <3>2
  <2> QED BY <2>5, <2>6, <2>8, <2>9
<1>4. S = Nat
  <2> HIDE DEF S
  <2> QED BY <1>2, <1>3, AllNaturals DEF S
<1>5. Len(b) \in Nat
  OBVIOUS
<1>6. Len(b) \in S
  <2> HIDE DEF S
  <2> QED BY <1>4, <1>5
<1>7. part(Len(b)) = b
  BY SubSeqFull
<1>8. Same(Len(b))
  BY <1>5, <1>6
<1> QED
  BY <1>7, <1>8

----------------------------------------------------------------------------
(* A record on each line *)

LEMMA OddOrEven ==
    \A i \in Nat : \E k \in Nat : i = 2 * k \/ i = 2 * k + 1
<1> DEFINE S == {i \in Nat : \E k \in Nat : i = 2 * k \/ i = 2 * k + 1}
<1>1. 0 \in S
  <2>1. 0 = 2 * 0 /\ 0 \in Nat
    OBVIOUS
  <2> QED BY <2>1
<1>2. ASSUME NEW i \in S PROVE i + 1 \in S
  <2>1. PICK k \in Nat : i = 2 * k \/ i = 2 * k + 1
    OBVIOUS
  <2>2. i + 1 = 2 * k + 1 \/ (k + 1 \in Nat /\ i + 1 = 2 * (k + 1))
    BY <2>1
  <2> QED BY <2>2
<1>3. S = Nat
  <2> HIDE DEF S
  <2> QED BY <1>1, <1>2, AllNaturals DEF S
<1> QED
  BY <1>3

LEMMA Halves ==
    \A k \in Nat : /\ (2 * k) % 2 = 0 /\ (2 * k + 1) % 2 = 1
                   /\ (2 * k) \div 2 = k /\ (2 * k + 1) \div 2 = k
OBVIOUS

LEMMA LinesAre ==
    ASSUME NEW rs \in Seq(Chunk)
    PROVE  /\ Lines(rs) \in Seq(Chunk) /\ Len(Lines(rs)) = 2 * Len(rs)
           /\ \A k \in 1..Len(rs) : Lines(rs)[2 * k - 1] = rs[k] /\ Lines(rs)[2 * k] = Newline
           /\ \A i \in 1..(2 * Len(rs)) : \E k \in 1..Len(rs) : i = 2 * k - 1 \/ i = 2 * k
<1> DEFINE n == Len(rs)
           at(i) == IF i % 2 = 1 THEN rs[(i + 1) \div 2] ELSE Newline
<1>1. n \in Nat /\ 2 * n \in Nat /\ Newline \in Chunk
  BY DEF Newline, Chunk, Kind
<1>2. ASSUME NEW i \in 1..(2 * n) PROVE \E k \in 1..n : i = 2 * k - 1 \/ i = 2 * k
  <2>0. i \in Nat
    OBVIOUS
  <2>1. PICK k \in Nat : i = 2 * k \/ i = 2 * k + 1
    BY <2>0, OddOrEven
  <2>2. CASE i = 2 * k
    BY <1>1, <2>2
  <2>3. CASE i = 2 * k + 1
    <3>1. k + 1 \in 1..n /\ i = 2 * (k + 1) - 1
      BY <1>1, <2>3
    <3> QED BY <3>1
  <2> QED BY <2>1, <2>2, <2>3
<1>3. ASSUME NEW k \in 1..n PROVE at(2 * k - 1) = rs[k] /\ at(2 * k) = Newline
  <2>1. k \in Nat /\ k - 1 \in Nat /\ 2 * k - 1 = 2 * (k - 1) + 1 /\ (2 * k - 1) + 1 = 2 * k
    BY <1>1
  <2>2. (2 * k - 1) % 2 = 1 /\ ((2 * k - 1) + 1) \div 2 = k /\ (2 * k) % 2 = 0
    BY <2>1, Halves
  <2> QED BY <2>2
<1>4. ASSUME NEW i \in 1..(2 * n) PROVE at(i) \in Chunk
  <2>1. PICK k \in 1..n : i = 2 * k - 1 \/ i = 2 * k
    BY <1>2
  <2>2. at(i) = rs[k] \/ at(i) = Newline
    BY <1>3, <2>1
  <2> HIDE DEF at
  <2> QED BY <1>1, <2>2
<1>5. Lines(rs) = [i \in 1..2 * n |-> at(i)]
  BY DEF Lines
<1>6. \A k \in 1..n : 2 * k - 1 \in 1..(2 * n) /\ 2 * k \in 1..(2 * n)
  BY <1>1
<1> HIDE DEF at
<1>7. Lines(rs) \in [1..2 * n -> Chunk]
  BY <1>4, <1>5
<1>8. Lines(rs) \in Seq(Chunk) /\ Len(Lines(rs)) = 2 * n
  BY <1>1, <1>7
<1>9. \A k \in 1..n : Lines(rs)[2 * k - 1] = at(2 * k - 1) /\ Lines(rs)[2 * k] = at(2 * k)
  BY <1>5, <1>6
<1> QED
  BY <1>2, <1>3, <1>8, <1>9

\* What the lines of some records hold.
LEMMA RecordsOfLines ==
    ASSUME NEW rs \in Seq(Chunk), NEW kind, kind # "newline"
    PROVE  RecordsOf(Lines(rs), kind) = RecordsOf(rs, kind)
<1> DEFINE n == Len(rs)
<1>1. PICK h : Steps(h, rs, kind, n)
  BY HasAccount DEF Account
<1> DEFINE g == [i \in 0..(2 * n) |-> h[(i + 1) \div 2]]
<1>2. n \in Nat /\ Lines(rs) \in Seq(Chunk) /\ Len(Lines(rs)) = 2 * n
  BY LinesAre
<1>3. \A k \in 0..n : 2 * k \in 0..(2 * n) /\ (2 * k + 1) \div 2 = k
  BY <1>2, Halves
<1>4. \A k \in 0..n : g[2 * k] = h[k]
  BY <1>3
<1>5. ASSUME NEW k \in 1..n PROVE g[2 * k - 1] = h[k]
  <2>1. 2 * k - 1 \in 0..(2 * n) /\ (2 * k - 1) + 1 = 2 * k /\ k \in Nat
    BY <1>2
  <2>2. ((2 * k - 1) + 1) \div 2 = k
    BY <2>1, Halves
  <2> QED BY <2>1, <2>2
<1> HIDE DEF g
<1>6. g[0] = << >>
  <2>1. 0 \in 0..n /\ 2 * 0 = 0
    BY <1>2
  <2> QED BY <2>1, <1>1, <1>4 DEF Steps
<1>7. ASSUME NEW i \in 1..(2 * n) PROVE g[i] = Step(g[i - 1], Lines(rs)[i], kind)
  <2>1. PICK k \in 1..n : i = 2 * k - 1 \/ i = 2 * k
    BY LinesAre
  <2>2. h[k] = Step(h[k - 1], rs[k], kind)
    BY <1>1 DEF Steps
  <2>3. CASE i = 2 * k - 1
    <3>1. i - 1 = 2 * (k - 1) /\ k - 1 \in 0..n
      BY <1>2, <2>3
    <3>2. Lines(rs)[i] = rs[k] /\ g[i] = h[k] /\ g[i - 1] = h[k - 1]
      BY <1>4, <1>5, <2>3, <3>1, LinesAre
    <3> QED BY <2>2, <3>2
  <2>4. CASE i = 2 * k
    <3>1. i - 1 = 2 * k - 1 /\ k \in 0..n
      BY <1>2, <2>4
    <3>2. Lines(rs)[i] = Newline /\ g[i] = h[k] /\ g[i - 1] = h[k]
      BY <1>4, <1>5, <2>4, <3>1, LinesAre
    <3> QED BY <3>2 DEF Step, Newline
  <2> QED BY <2>1, <2>3, <2>4
<1>8. RecordsOf(Lines(rs), kind) = g[2 * n]
  <2>1. Steps(g, Lines(rs), kind, Len(Lines(rs)))
    BY <1>2, <1>6, <1>7 DEF Steps
  <2>2. Len(Lines(rs)) \in Nat
    BY <1>2
  <2>3. RecordsOf(Lines(rs), kind) = g[Len(Lines(rs))]
    BY <2>1, <2>2, RecordsAre
  <2> QED BY <2>3, <1>2
<1>9. RecordsOf(rs, kind) = h[n]
  BY <1>1, <1>2, RecordsAre
<1>10. g[2 * n] = h[n]
  BY <1>2, <1>4
<1> QED
  BY <1>8, <1>9, <1>10

----------------------------------------------------------------------------
(* Suffixes *)

LEMMA SuffixIs ==
    ASSUME NEW S, NEW s \in Seq(S), NEW t \in Seq(S)
    PROVE  IsSuffix(s, t) <=>
              /\ Len(s) <= Len(t)
              /\ \A i \in 1..Len(s) : s[Len(s) - i + 1] = t[Len(t) - i + 1]
<1> DEFINE m == Len(s)
           n == Len(t)
<1>1. m \in Nat /\ n \in Nat
  OBVIOUS
<1>2. ASSUME NEW u \in Seq(S)
      PROVE  /\ Reverse(u) \in Seq(S) /\ Len(Reverse(u)) = Len(u)
             /\ \A i \in 1..Len(u) : Reverse(u)[i] = u[Len(u) - i + 1]
  <2>1. Len(u) \in Nat /\ \A i \in 1..Len(u) : (Len(u) - i) + 1 \in 1..Len(u)
    OBVIOUS
  <2>2. Reverse(u) \in [1..Len(u) -> S]
    BY <2>1 DEF Reverse
  <2> QED BY <2>1, <2>2 DEF Reverse
<1> DEFINE rs == Reverse(s)
           rt == Reverse(t)
<1>3. /\ rs \in Seq(S) /\ Len(rs) = m /\ \A i \in 1..m : rs[i] = s[m - i + 1]
      /\ rt \in Seq(S) /\ Len(rt) = n /\ \A i \in 1..n : rt[i] = t[n - i + 1]
  BY <1>2
<1> HIDE DEF rs, rt
<1>4. IsSuffix(s, t) <=> m <= n /\ SubSeq(rs, 1, m) = SubSeq(rt, 1, m)
  BY <1>3 DEF IsSuffix, IsPrefix, rs, rt
<1>5. ASSUME m <= n
      PROVE  SubSeq(rs, 1, m) = SubSeq(rt, 1, m) <=> \A i \in 1..m : rs[i] = rt[i]
  <2>1. \A i \in 1..m : rs[i] \in S /\ rt[i] \in S
    BY <1>1, <1>3, <1>5
  <2>2. /\ SubSeq(rs, 1, m) \in Seq(S) /\ Len(SubSeq(rs, 1, m)) = m
        /\ \A i \in 1..m : SubSeq(rs, 1, m)[i] = rs[i]
    BY <2>1, <1>1, <1>3
  <2>3. /\ SubSeq(rt, 1, m) \in Seq(S) /\ Len(SubSeq(rt, 1, m)) = m
        /\ \A i \in 1..m : SubSeq(rt, 1, m)[i] = rt[i]
    BY <2>1, <1>1, <1>3, <1>5
  <2>4. ASSUME \A i \in 1..m : rs[i] = rt[i] PROVE SubSeq(rs, 1, m) = SubSeq(rt, 1, m)
    BY <2>2, <2>3, <2>4, SeqEqual
  <2>5. ASSUME SubSeq(rs, 1, m) = SubSeq(rt, 1, m), NEW i \in 1..m PROVE rs[i] = rt[i]
    BY <2>2, <2>3, <2>5, Zenon
  <2> QED BY <2>4, <2>5
<1>6. ASSUME m <= n PROVE \A i \in 1..m : i \in 1..n
  BY <1>1, <1>6
<1> QED
  BY <1>3, <1>4, <1>5, <1>6

\* A sequence is a suffix of itself, and still one with its first element gone.
LEMMA SuffixOfItself ==
    ASSUME NEW S, NEW s \in Seq(S)
    PROVE  IsSuffix(s, s) /\ (s # << >> => IsSuffix(Tail(s), s))
<1>1. IsSuffix(s, s)
  BY SuffixIs
<1>2. ASSUME s # << >> PROVE IsSuffix(Tail(s), s)
  <2> DEFINE r == Tail(s)
  <2>1. r \in Seq(S) /\ Len(r) = Len(s) - 1 /\ Len(s) \in Nat
        /\ \A i \in 1..Len(r) : r[i] = s[i + 1]
    BY <1>2, HeadTailProperties
  <2> HIDE DEF r
  <2>2. \A i \in 1..Len(r) : r[Len(r) - i + 1] = s[Len(s) - i + 1]
    BY <2>1
  <2>3. r \in Seq(S) /\ Len(r) <= Len(s)
    BY <2>1
  <2>4. IsSuffix(r, s)
    BY <2>2, <2>3, SuffixIs
  <2> QED BY <2>4 DEF r
<1> QED
  BY <1>1, <1>2

LEMMA SuffixOfSuffix ==
    ASSUME NEW S, NEW s \in Seq(S), NEW t \in Seq(S), NEW u \in Seq(S),
           IsSuffix(s, t), IsSuffix(t, u)
    PROVE  IsSuffix(s, u)
<1>1. Len(s) <= Len(t) /\ Len(s) \in Nat /\ Len(t) \in Nat /\ Len(u) \in Nat
      /\ \A i \in 1..Len(s) : s[Len(s) - i + 1] = t[Len(t) - i + 1]
  BY SuffixIs
<1>2. Len(t) <= Len(u) /\ \A i \in 1..Len(t) : t[Len(t) - i + 1] = u[Len(u) - i + 1]
  BY SuffixIs
<1>3. \A i \in 1..Len(s) : i \in 1..Len(t)
  BY <1>1
<1>4. \A i \in 1..Len(s) : s[Len(s) - i + 1] = u[Len(u) - i + 1]
  BY <1>1, <1>2, <1>3
<1>5. Len(s) <= Len(u)
  BY <1>1, <1>2
<1> QED
  BY <1>4, <1>5, SuffixIs

LEMMA SuffixAppend ==
    ASSUME NEW S, NEW s \in Seq(S), NEW t \in Seq(S), NEW e \in S, IsSuffix(s, t)
    PROVE  IsSuffix(Append(s, e), Append(t, e))
<1> DEFINE a == Append(s, e)
           b == Append(t, e)
<1>1. Len(s) <= Len(t) /\ Len(s) \in Nat /\ Len(t) \in Nat
      /\ \A i \in 1..Len(s) : s[Len(s) - i + 1] = t[Len(t) - i + 1]
  BY SuffixIs
<1>2. a \in Seq(S) /\ Len(a) = Len(s) + 1
      /\ (\A i \in 1..Len(s) : a[i] = s[i]) /\ a[Len(s) + 1] = e
  OBVIOUS
<1>3. b \in Seq(S) /\ Len(b) = Len(t) + 1
      /\ (\A i \in 1..Len(t) : b[i] = t[i]) /\ b[Len(t) + 1] = e
  OBVIOUS
<1> HIDE DEF a, b
<1>4. ASSUME NEW i \in 1..Len(a) PROVE a[Len(a) - i + 1] = b[Len(b) - i + 1]
  <2>1. CASE i = 1
    BY <2>1, <1>1, <1>2, <1>3
  <2>2. CASE i # 1
    <3>1. i - 1 \in 1..Len(s) /\ i - 1 \in 1..Len(t)
      BY <2>2, <1>1, <1>2
    <3>2. Len(a) - i + 1 = Len(s) - (i - 1) + 1 /\ Len(s) - (i - 1) + 1 \in 1..Len(s)
      BY <3>1, <1>1, <1>2
    <3>3. Len(b) - i + 1 = Len(t) - (i - 1) + 1 /\ Len(t) - (i - 1) + 1 \in 1..Len(t)
      BY <3>1, <1>1, <1>3, <1>2
    <3>4. a[Len(a) - i + 1] = s[Len(s) - (i - 1) + 1]
      BY <3>2, <1>2
    <3>5. b[Len(b) - i + 1] = t[Len(t) - (i - 1) + 1]
      BY <3>3, <1>3
    <3> QED BY <3>1, <3>4, <3>5, <1>1
  <2> QED BY <2>1, <2>2
<1>5. a \in Seq(S) /\ b \in Seq(S) /\ Len(a) <= Len(b)
  BY <1>1, <1>2, <1>3
<1>6. IsSuffix(a, b)
  BY <1>4, <1>5, SuffixIs
<1> QED
  BY <1>6 DEF a, b

\* Messages whose file has all of them but the summary still have, one later.
LEMMA WithoutSummaryIs ==
    ASSUME NEW m \in Seq(Message)
    PROVE  /\ WithoutSummary(m) \in Seq(Message) /\ IsSuffix(WithoutSummary(m), m)
           /\ \A e \in Message : e # Summary =>
                  WithoutSummary(Append(m, e)) = Append(WithoutSummary(m), e)
           /\ Summary \in Message /\ WithoutSummary(<<Summary>> \o m) = m
<1>1. Summary \in Message
  BY DEF Summary, Message
<1>2. WithoutSummary(m) \in Seq(Message) /\ IsSuffix(WithoutSummary(m), m)
  BY SuffixOfItself, HeadTailProperties DEF WithoutSummary
<1>3. ASSUME NEW e \in Message, e # Summary
      PROVE  WithoutSummary(Append(m, e)) = Append(WithoutSummary(m), e)
  <2> DEFINE new == Append(m, e)
  <2>1. new # << >> /\ new[1] = IF m = << >> THEN e ELSE m[1]
    <3>1. new # << >> /\ new[Len(m) + 1] = e /\ \A i \in 1..Len(m) : new[i] = m[i]
      BY AppendProperties
    <3>2. m = << >> => Len(m) = 0
      OBVIOUS
    <3>3. m # << >> => 1 \in 1..Len(m)
      OBVIOUS
    <3> HIDE DEF new
    <3> QED BY <3>1, <3>2, <3>3
  <2>2. Tail(new) = IF m = << >> THEN << >> ELSE Append(Tail(m), e)
    BY HeadTailAppend
  <2> HIDE DEF new
  <2>3. CASE m = << >>
    BY <2>1, <2>3, <1>3 DEF WithoutSummary, new
  <2>4. CASE m # << >>
    BY <2>1, <2>2, <2>4 DEF WithoutSummary, new
  <2> QED BY <2>3, <2>4
<1>4. WithoutSummary(<<Summary>> \o m) = m
  <2> DEFINE new == <<Summary>> \o m
  <2>1. new \in Seq(Message) /\ new # << >> /\ new[1] = Summary /\ Len(new) = Len(m) + 1
        /\ Len(m) \in Nat /\ \A i \in 1..Len(m) : new[i + 1] = m[i]
    BY <1>1
  <2> HIDE DEF new
  <2>2. Tail(new) \in Seq(Message) /\ Len(Tail(new)) = Len(new) - 1
        /\ \A i \in 1..Len(Tail(new)) : Tail(new)[i] = new[i + 1]
    BY <2>1, HeadTailProperties
  <2>3. Tail(new) = m
    BY <2>1, <2>2, SeqEqual
  <2> QED BY <2>1, <2>3 DEF WithoutSummary, new
<1> QED
  BY <1>1, <1>2, <1>3, <1>4

\* The end of some messages that reaches no further back than behind their
\* summary is a suffix of what a file must have of them.
LEMMA RestIsSuffix ==
    ASSUME NEW m \in Seq(Message), NEW keep \in 1..Len(m),
           m[1] = Summary => keep >= 2
    PROVE  /\ SubSeq(m, keep + 1, Len(m)) \in Seq(Message)
           /\ IsSuffix(SubSeq(m, keep + 1, Len(m)), WithoutSummary(m))
<1> DEFINE n == Len(m)
           r == SubSeq(m, keep + 1, n)
           w == WithoutSummary(m)
<1>1. n \in Nat /\ keep \in Nat /\ m # << >> /\ 1 <= keep /\ keep <= n
  OBVIOUS
<1>2. r \in Seq(Message) /\ Len(r) = n - keep
      /\ \A i \in 1..(n - keep) : r[i] = m[keep + i]
  BY <1>1
<1>3. w \in Seq(Message)
  BY WithoutSummaryIs
<1>4. \/ w = m
      \/ keep >= 2 /\ Len(w) = n - 1 /\ \A i \in 1..(n - 1) : w[i] = m[i + 1]
  BY <1>1, HeadTailProperties DEF WithoutSummary
<1> HIDE DEF r, w
<1>5. Len(r) <= Len(w)
  BY <1>1, <1>2, <1>4
<1>6. ASSUME NEW i \in 1..Len(r) PROVE r[Len(r) - i + 1] = w[Len(w) - i + 1]
  <2>1. i \in Nat /\ Len(r) - i + 1 \in 1..(n - keep) /\ keep + (Len(r) - i + 1) = n - i + 1
    BY <1>1, <1>2
  <2>2. r[Len(r) - i + 1] = m[n - i + 1]
    BY <2>1, <1>2
  <2>3. CASE w = m
    BY <2>2, <2>3
  <2>4. CASE Len(w) = n - 1 /\ \A j \in 1..(n - 1) : w[j] = m[j + 1]
    <3>1. Len(w) - i + 1 \in 1..(n - 1) /\ (Len(w) - i + 1) + 1 = n - i + 1
      BY <2>4, <1>1, <1>2, <2>1
    <3> QED BY <3>1, <2>2, <2>4
  <2> QED BY <2>3, <2>4, <1>4
<1>7. IsSuffix(r, w)
  BY <1>2, <1>3, <1>5, <1>6, SuffixIs
<1> QED
  BY <1>2, <1>7 DEF r, w

----------------------------------------------------------------------------
(* What is written to a file *)

LEMMA RecordsAreChunks ==
    /\ Message \subseteq Chunk /\ Prompt \subseteq Chunk
    /\ Message = OfKind("message") /\ Prompt = OfKind("prompt")
    /\ Meta \in Chunk /\ Newline \in Chunk /\ Torn \in Chunk
    /\ \A c \in Message \cup Prompt : c # Meta /\ c # Newline /\ c # Torn
<1>1. "message" \in Kind /\ "prompt" \in Kind /\ "meta" \in Kind /\ "newline" \in Kind
      /\ "torn" \in Kind
  BY DEF Kind
<1>2. \A c \in Chunk : c.kind = "message" <=> c \in Message
  BY DEF Chunk, Message
<1>3. \A c \in Chunk : c.kind = "prompt" <=> c \in Prompt
  BY DEF Chunk, Prompt
<1>4. Message \subseteq Chunk /\ Prompt \subseteq Chunk
  BY <1>1 DEF Chunk, Message, Prompt
<1>5. Message = OfKind("message") /\ Prompt = OfKind("prompt")
  BY <1>2, <1>3, <1>4 DEF OfKind
<1>6. Meta \in Chunk /\ Newline \in Chunk /\ Torn \in Chunk
  BY <1>1 DEF Chunk, Meta, Newline, Torn
<1>7. \A c \in Message \cup Prompt : c # Meta /\ c # Newline /\ c # Torn
  BY DEF Message, Prompt, Meta, Newline, Torn
<1> QED
  BY <1>4, <1>5, <1>6, <1>7

LEMMA OneMoreChunk ==
    ASSUME NEW content \in Seq(Chunk), NEW c \in Chunk
    PROVE  /\ content \o <<c>> \in Seq(Chunk) /\ content \o <<c>> # << >>
           /\ Last(content \o <<c>>) = c
           /\ Range(content \o <<c>>) = Range(content) \cup {c}
<1> DEFINE new == content \o <<c>>
<1>1. new = Append(content, c)
  BY AppendIsConcat
<1>2. new \in Seq(Chunk) /\ new # << >> /\ Len(new) = Len(content) + 1 /\ new[Len(content) + 1] = c
  BY <1>1, AppendProperties
<1>3. Range(new) = Range(content) \cup {c}
  <2>1. Range(Append(content, c)) = Range(content) \cup {c}
    BY RangeOfAppend
  <2> QED BY <1>1, <2>1
<1> HIDE DEF new
<1>4. Last(new) = c
  BY <1>2 DEF Last
<1> QED
  BY <1>2, <1>3, <1>4 DEF new

\* A file stays readable: with a record on a line of its own, and with that
\* line ended.
LEMMA StaysReadable ==
    ASSUME NEW content \in Seq(Chunk), Readable(content)
    PROVE  /\ \A c \in Message \cup Prompt :
                 EndsALine(content) => Readable(content \o <<c>>)
           /\ Readable(content \o <<Newline>>) /\ EndsALine(content \o <<Newline>>)
<1> DEFINE n == Len(content)
<1>1. n \in Nat
  OBVIOUS
<1>2. \A i \in 1..n : content[i] # Newline =>
          content[i] # Torn /\ (i < n => content[i + 1] = Newline)
  BY DEF Readable
<1>3. ASSUME NEW c \in Chunk, c # Torn, c = Newline \/ EndsALine(content)
      PROVE  Readable(content \o <<c>>)
  <2> DEFINE new == content \o <<c>>
  <2>1. Len(new) = n + 1 /\ new[n + 1] = c /\ \A i \in 1..n : new[i] = content[i]
    OBVIOUS
  <2> HIDE DEF new
  <2>2. n > 0 => c = Newline \/ content[n] = Newline
    BY <1>3 DEF EndsALine, Last
  <2>3. ASSUME NEW i \in 1..(n + 1), new[i] # Newline
        PROVE  new[i] # Torn /\ (i < n + 1 => new[i + 1] = Newline)
    <3>1. CASE i = n + 1
      BY <3>1, <2>1, <1>1, <1>3
    <3>2. CASE i = n
      <4>1. n > 0 /\ i \in 1..n /\ new[i] = content[i]
        BY <3>2, <2>1, <1>1
      <4>2. c = Newline
        BY <4>1, <3>2, <2>2, <2>3
      <4> QED BY <4>1, <4>2, <3>2, <2>1, <2>3, <1>2
    <3>3. CASE i < n
      <4>1. i \in 1..n /\ i + 1 \in 1..n
        BY <3>3, <1>1
      <4>2. new[i] = content[i] /\ new[i + 1] = content[i + 1]
        BY <4>1, <2>1
      <4> QED BY <4>1, <4>2, <3>3, <2>3, <1>2
    <3> QED BY <1>1, <3>1, <3>2, <3>3
  <2>4. Readable(new)
    BY <2>1, <2>3 DEF Readable
  <2> QED BY <2>4 DEF new
<1>4. EndsALine(content \o <<Newline>>)
  BY OneMoreChunk, RecordsAreChunks DEF EndsALine
<1>5. Readable(content \o <<Newline>>)
  <2>1. Newline # Torn
    BY DEF Newline, Torn
  <2> QED BY <2>1, <1>3, RecordsAreChunks
<1> QED
  BY <1>3, <1>4, <1>5, RecordsAreChunks

\* A snapshot: readable, its last line ended, with what the session says and
\* nothing else.
LEMMA SnapshotIs ==
    ASSUME NEW s \in SessionType
    PROVE  /\ Snapshot(s) \in Seq(Chunk) /\ Snapshot(s) # << >>
           /\ Readable(Snapshot(s)) /\ EndsALine(Snapshot(s))
           /\ Known(s) \subseteq Range(Snapshot(s))
           /\ RecordsOf(Snapshot(s), "message") = s.messages
           /\ RecordsOf(Snapshot(s), "prompt") = s.prompts
<1> DEFINE compaction == IF s.compactions = 0 THEN << >>
                         ELSE <<[kind |-> "compaction", id |-> s.compactions]>>
           head == <<Meta>> \o compaction
           rs == head \o s.prompts \o s.messages
           n == Len(rs)
           lines == Lines(rs)
<1>1. s.messages \in Seq(Message) /\ s.prompts \in Seq(Prompt) /\ s.compactions \in Nat
  BY DEF SessionType
<1>2. compaction \in Seq(Chunk) /\ \A i \in 1..Len(compaction) : compaction[i].kind = "compaction"
  <2> DEFINE c == [kind |-> "compaction", id |-> s.compactions]
  <2>1. c \in Chunk /\ c.kind = "compaction"
    BY <1>1 DEF Chunk, Kind
  <2> HIDE DEF c
  <2>2. <<c>> \in Seq(Chunk) /\ \A i \in 1..Len(<<c>>) : <<c>>[i].kind = "compaction"
    BY <2>1
  <2>3. << >> \in Seq(Chunk) /\ \A i \in 1..Len(<< >>) : << >>[i].kind = "compaction"
    OBVIOUS
  <2>4. compaction = << >> \/ compaction = <<c>>
    BY DEF c
  <2> HIDE DEF compaction
  <2> QED BY <2>2, <2>3, <2>4
<1>3. head \in Seq(Chunk) /\ head # << >>
      /\ \A i \in 1..Len(head) : head[i].kind \in {"meta", "compaction"}
  <2>1. <<Meta>> \in Seq(Chunk) /\ Len(<<Meta>>) = 1 /\ <<Meta>>[1].kind = "meta"
    BY RecordsAreChunks DEF Meta
  <2> HIDE DEF compaction
  <2>2. head \in Seq(Chunk) /\ Len(head) = 1 + Len(compaction) /\ Len(compaction) \in Nat
        /\ \A i \in 1..Len(head) : head[i] = IF i <= 1 THEN <<Meta>>[i] ELSE compaction[i - 1]
    BY <2>1, <1>2, ConcatProperties
  <2> HIDE DEF head
  <2>3. head # << >>
    BY <2>2
  <2>4. ASSUME NEW i \in 1..Len(head) PROVE head[i].kind \in {"meta", "compaction"}
    <3>1. CASE i <= 1
      BY <3>1, <2>1, <2>2
    <3>2. CASE ~(i <= 1)
      <4>1. i - 1 \in 1..Len(compaction)
        BY <3>2, <2>2
      <4> QED BY <4>1, <3>2, <2>2, <1>2
    <3> QED BY <3>1, <3>2
  <2> QED BY <2>2, <2>3, <2>4
<1>4. /\ s.messages \in Seq(Chunk) /\ s.messages \in Seq(OfKind("message"))
      /\ \A i \in 1..Len(s.messages) : s.messages[i].kind = "message"
      /\ s.prompts \in Seq(Chunk) /\ s.prompts \in Seq(OfKind("prompt"))
      /\ \A i \in 1..Len(s.prompts) : s.prompts[i].kind = "prompt"
  BY <1>1, RecordsAreChunks, SeqMonotonic, ElementOfSeq DEF OfKind
<1> HIDE DEF head
<1> DEFINE front == head \o s.prompts
<1>5. front \in Seq(Chunk) /\ rs = front \o s.messages /\ rs \in Seq(Chunk)
  BY <1>3, <1>4, ConcatProperties
<1>6. \A kind : RecordsOf(rs, kind) = (RecordsOf(head, kind) \o RecordsOf(s.prompts, kind))
                                         \o RecordsOf(s.messages, kind)
  <2> TAKE kind
  <2>1. RecordsOf(front, kind) = RecordsOf(head, kind) \o RecordsOf(s.prompts, kind)
    BY <1>3, <1>4, RecordsOfBoth
  <2> HIDE DEF front, rs
  <2>2. RecordsOf(rs, kind) = RecordsOf(front, kind) \o RecordsOf(s.messages, kind)
    BY <1>4, <1>5, RecordsOfBoth
  <2> QED BY <2>1, <2>2
<1>7. RecordsOf(rs, "message") = s.messages /\ RecordsOf(rs, "prompt") = s.prompts
  <2> HIDE DEF rs
  <2>1. RecordsOf(head, "message") = << >> /\ RecordsOf(head, "prompt") = << >>
    BY <1>3, NoRecords
  <2>2. RecordsOf(s.prompts, "message") = << >> /\ RecordsOf(s.prompts, "prompt") = s.prompts
    BY <1>4, NoRecords, RecordsOfOwnKind
  <2>3. RecordsOf(s.messages, "prompt") = << >> /\ RecordsOf(s.messages, "message") = s.messages
    BY <1>4, NoRecords, RecordsOfOwnKind
  <2>4. RecordsOf(rs, "message") = (<< >> \o << >>) \o s.messages
    BY <1>6, <2>1, <2>2, <2>3
  <2>5. RecordsOf(rs, "prompt") = (<< >> \o s.prompts) \o << >>
    BY <1>6, <2>1, <2>2, <2>3
  <2>6. (<< >> \o << >>) \o s.messages = s.messages
    BY <1>4, ConcatEmptySeq
  <2>7. (<< >> \o s.prompts) \o << >> = s.prompts
    BY <1>4, ConcatEmptySeq
  <2> QED BY <2>4, <2>5, <2>6, <2>7
<1>8. n \in Nat \ {0}
  <2>1. rs # << >>
    <3>1. front # << >>
      BY <1>3, <1>4, ConcatEqualIffEmpty
    <3> HIDE DEF front
    <3> QED BY <3>1, <1>4, <1>5, ConcatEqualIffEmpty
  <2> HIDE DEF rs
  <2> QED BY <2>1, <1>5, EmptySeq
<1>9. \A i \in 1..n : rs[i] # Newline /\ rs[i] # Torn
  <2>1. Range(front) = Range(head) \cup Range(s.prompts)
    BY <1>3, <1>4, RangeConcatenation
  <2> HIDE DEF front, rs
  <2>2. Range(rs) = Range(front) \cup Range(s.messages)
    BY <1>4, <1>5, RangeConcatenation
  <2>3. \A c \in Range(head) : c.kind \in {"meta", "compaction"}
    BY <1>3, RangeEquality
  <2>4. \A c \in Range(s.prompts) \cup Range(s.messages) : c.kind \in {"prompt", "message"}
    BY <1>4, RangeEquality
  <2>5. \A i \in 1..n : rs[i] \in Range(rs)
    BY <1>5, RangeEquality
  <2>6. \A i \in 1..n : rs[i].kind \in {"meta", "compaction", "prompt", "message"}
    BY <2>1, <2>2, <2>3, <2>4, <2>5
  <2> QED BY <2>6 DEF Newline, Torn
<1>10. Range(s.messages) \cup Range(s.prompts) \subseteq Range(rs)
  <2>1. Range(front) = Range(head) \cup Range(s.prompts)
    BY <1>3, <1>4, RangeConcatenation
  <2> HIDE DEF front, rs
  <2>2. Range(rs) = Range(front) \cup Range(s.messages)
    BY <1>4, <1>5, RangeConcatenation
  <2> QED BY <2>1, <2>2
<1>11. Snapshot(s) = lines
  BY DEF Snapshot, head
<1> HIDE DEF rs
<1>12. /\ lines \in Seq(Chunk) /\ Len(lines) = 2 * n
       /\ \A k \in 1..n : lines[2 * k - 1] = rs[k] /\ lines[2 * k] = Newline
       /\ \A i \in 1..(2 * n) : \E k \in 1..n : i = 2 * k - 1 \/ i = 2 * k
  BY <1>5, LinesAre
<1>13. RecordsOf(lines, "message") = s.messages /\ RecordsOf(lines, "prompt") = s.prompts
  BY <1>5, <1>7, RecordsOfLines
<1> HIDE DEF lines
<1>14. lines # << >> /\ Last(lines) = Newline
  BY <1>8, <1>12 DEF Last
<1>15. Readable(lines)
  <2> SUFFICES ASSUME NEW i \in 1..(2 * n), lines[i] # Newline
               PROVE  lines[i] # Torn /\ (i < 2 * n => lines[i + 1] = Newline)
    BY <1>12 DEF Readable
  <2>1. PICK k \in 1..n : i = 2 * k - 1 \/ i = 2 * k
    BY <1>12
  <2>2. i = 2 * k - 1 /\ i + 1 = 2 * k
    <3>1. lines[2 * k] = Newline /\ i # 2 * k
      BY <1>12
    <3> QED BY <2>1, <3>1, <1>8
  <2> QED BY <2>2, <1>9, <1>12
<1>16. Range(rs) \subseteq Range(lines)
  <2>1. Range(rs) = {rs[k] : k \in 1..n}
    <3> HIDE DEF front
    <3>1. rs \in Seq(Chunk)
      BY <1>5
    <3>2. Range(rs) = {rs[k] : k \in 1..Len(rs)}
      BY <3>1, RangeEquality
    <3> QED BY <3>2
  <2>2. Range(lines) = {lines[i] : i \in 1..(2 * n)}
    BY <1>12, RangeEquality
  <2>3. \A k \in 1..n : 2 * k - 1 \in 1..(2 * n)
    BY <1>8
  <2>4. \A k \in 1..n : rs[k] \in Range(lines)
    BY <2>2, <2>3, <1>12
  <2> QED BY <2>1, <2>4
<1> QED
  BY <1>10, <1>11, <1>12, <1>13, <1>14, <1>15, <1>16 DEF Known, EndsALine

----------------------------------------------------------------------------
(* The steps *)

Bounds == MaxRotatedFiles \in Nat /\ MaxSaves \in Nat /\ MaxCrashes \in Nat

\* A process has the session to itself: the others are closed and stay so.
LEMMA OthersRest ==
    ASSUME IInv, "shared" \notin trouble, NEW p \in Process,
           session[p].open \/ \A q \in Process : ~session[q].open,
           \A q \in Process : q # p => op'[q] = op[q] /\ session'[q] = session[q]
    PROVE  /\ OneOpen'
           /\ \A q \in Process : q # p =>
                  /\ ~session'[q].open /\ op'[q] = Idle
                  /\ UnderWay(q)' /\ Mirrored(q)'
<1>1. \A q \in Process : q # p => ~session[q].open
  BY DEF IInv, OneOpen
<1>2. \A q \in Process : q # p => ~session'[q].open /\ op'[q] = Idle
  BY <1>1 DEF IInv, ClosedIsIdle
<1>3. OneOpen'
  BY <1>2 DEF OneOpen
<1>4. ASSUME NEW q \in Process, q # p PROVE UnderWay(q)' /\ Mirrored(q)'
  BY <1>2, <1>4 DEF UnderWay, Mirrored, Idle
<1> QED
  BY <1>2, <1>3, <1>4

\* So it is enough to look at that process.
LEMMA EnoughForOne ==
    ASSUME IInv, NEW p \in Process, trouble \subseteq trouble',
           "shared" \notin trouble'
              => session[p].open \/ \A q \in Process : ~session[q].open,
           \A q \in Process : q # p => op'[q] = op[q] /\ session'[q] = session[q],
           TypeInv',
           ~session'[p].open => op'[p] = Idle,
           "shared" \notin trouble' => Safe' /\ Legible' /\ UnderWay(p)',
           trouble' = {} => Mirrored(p)'
    PROVE  IInv'
<1>1. ClosedIsIdle'
  BY DEF IInv, ClosedIsIdle
<1>2. ASSUME "shared" \notin trouble'
      PROVE  /\ OneOpen' /\ Safe' /\ Legible' /\ \A q \in Process : UnderWay(q)'
             /\ \A q \in Process : q # p => Mirrored(q)'
  BY <1>2, OthersRest
<1>3. ASSUME trouble' = {} PROVE \A q \in Process : Mirrored(q)'
  BY <1>2, <1>3
<1> QED
  BY <1>1, <1>2, <1>3 DEF IInv

LEMMA AppendedIs ==
    ASSUME NEW S, NEW m \in Seq(S), NEW e \in S
    PROVE  /\ Append(m, e) \in Seq(S) /\ Append(m, e) # << >>
           /\ Front(Append(m, e)) = m /\ Last(Append(m, e)) = e
           /\ Range(Append(m, e)) = Range(m) \cup {e}
<1> DEFINE new == Append(m, e)
<1>1. new \in Seq(S) /\ new # << >> /\ Len(new) = Len(m) + 1 /\ Len(m) \in Nat
      /\ (\A i \in 1..Len(m) : new[i] = m[i]) /\ new[Len(m) + 1] = e
  BY AppendProperties
<1>2. Range(new) = Range(m) \cup {e}
  BY RangeOfAppend
<1> HIDE DEF new
<1>3. Last(new) = e
  BY <1>1 DEF Last
<1>4. \A i \in 1..Len(m) : new[i] \in S
  BY <1>1
<1>5. SubSeq(new, 1, Len(m)) \in Seq(S) /\ Len(SubSeq(new, 1, Len(m))) = Len(m)
      /\ \A i \in 1..Len(m) : SubSeq(new, 1, Len(m))[i] = new[i]
  BY <1>1, <1>4
<1>6. SubSeq(new, 1, Len(m)) = m
  BY <1>1, <1>5, SeqEqual
<1>7. Front(new) = m
  BY <1>1, <1>6 DEF Front
<1> QED BY <1>1, <1>2, <1>3, <1>7 DEF new

LEMMA FrontIsSeq == ASSUME NEW S, NEW m \in Seq(S) PROVE Front(m) \in Seq(S)
<1>1. Len(m) \in Nat /\ \A i \in 1..(Len(m) - 1) : m[i] \in S
  OBVIOUS
<1> QED BY <1>1, SubSeqProperties DEF Front

LEMMA FrontAndLast ==
    ASSUME NEW S, NEW m \in Seq(S), m # << >>
    PROVE  /\ Front(m) \in Seq(S) /\ Last(m) \in S
           /\ m = Append(Front(m), Last(m))
           /\ Range(m) = Range(Front(m)) \cup {Last(m)}
<1>1. /\ Front(m) \in Seq(S) /\ Len(m) \in Nat \ {0} /\ Last(m) \in S
  BY FrontIsSeq DEF Last
<1>2. SubSeq(m, 1, Len(m)) = SubSeq(m, 1, Len(m) - 1) \o <<m[Len(m)]>>
  BY <1>1, SubSeqRecursiveSecond
<1>3. m = Front(m) \o <<Last(m)>>
  BY <1>2, SubSeqFull DEF Front, Last
<1>4. m = Append(Front(m), Last(m))
  BY <1>1, <1>3, AppendIsConcat
<1>5. Range(Append(Front(m), Last(m))) = Range(Front(m)) \cup {Last(m)}
  BY <1>1, RangeOfAppend
<1> QED BY <1>1, <1>4, <1>5

LEMMA PushedIs ==
    /\ \A m \in Seq(Message) : \A e \in Message :
          /\ Append(m, e) # << >> /\ Front(Append(m, e)) = m /\ Last(Append(m, e)) = e
          /\ Range(Append(m, e)) = Range(m) \cup {e}
    /\ \A m \in Seq(Prompt) : \A e \in Prompt :
          /\ Append(m, e) # << >> /\ Front(Append(m, e)) = m /\ Last(Append(m, e)) = e
          /\ Range(Append(m, e)) = Range(m) \cup {e}
<1>1. ASSUME NEW m \in Seq(Message), NEW e \in Message
      PROVE  /\ Append(m, e) # << >> /\ Front(Append(m, e)) = m /\ Last(Append(m, e)) = e
             /\ Range(Append(m, e)) = Range(m) \cup {e}
  BY AppendedIs
<1>2. ASSUME NEW m \in Seq(Prompt), NEW e \in Prompt
      PROVE  /\ Append(m, e) # << >> /\ Front(Append(m, e)) = m /\ Last(Append(m, e)) = e
             /\ Range(Append(m, e)) = Range(m) \cup {e}
  BY AppendedIs
<1> QED
  BY <1>1, <1>2

\* A push puts its record in memory and leaves the file for the next step.
LEMMA StartAppendKeeps ==
    ASSUME IInv, NEW p \in Process, Ready(p),
           NEW record \in Message \cup Prompt, record.id = next,
           NEW newSession \in SessionType, newSession.open,
           IF record.kind = "message"
           THEN /\ newSession.messages = Append(session[p].messages, record)
                /\ newSession.prompts = session[p].prompts
           ELSE /\ newSession.prompts = Append(session[p].prompts, record)
                /\ newSession.messages = session[p].messages,
           StartAppend(p, record, newSession)
    PROVE  IInv'
<1> DEFINE s == session[p]
<1> USE DEF StartAppend, Ready
<1>1. TypeInv /\ s \in SessionType /\ op[p] \in OpType /\ s.open
      /\ s.messages \in Seq(Message) /\ s.prompts \in Seq(Prompt)
  BY DEF IInv, TypeInv, SessionType
<1>2. /\ session'[p] = newSession /\ session' \in [Process -> SessionType]
      /\ \A q \in Process : q # p => session'[q] = session[q]
  BY <1>1 DEF TypeInv
<1>3. Snapshot(newSession) \in Seq(Chunk)
  BY SnapshotIs
<1> DEFINE o == IF NeedsBootstrap
                THEN [pc |-> "rotate", record |-> record,
                      snapshot |-> Snapshot(newSession), inode |-> 0]
                ELSE [pc |-> "body", record |-> record, snapshot |-> << >>, inode |-> 0]
<1>4. /\ o \in OpType /\ o.record = record /\ o.pc \in {"rotate", "body"}
      /\ o.pc = "rotate" => o.snapshot = Snapshot(newSession)
      /\ o.pc = "body" => path # 0
  BY <1>1, <1>3 DEF OpType, NeedsBootstrap
<1>5. op'[p] = o /\ op' \in [Process -> OpType] /\ \A q \in Process : q # p => op'[q] = op[q]
  BY <1>1, <1>4 DEF TypeInv
<1> HIDE DEF o
<1>6. TypeInv'
  <2>1. next' = next + 1 /\ next' \in Nat \ {0} /\ next \in Nat \ {0}
    BY <1>1 DEF TypeInv
  <2>2. \A c \in acked : c.id \in 1..(next' - 1)
    BY <1>1, <2>1 DEF TypeInv
  <2>3. ASSUME NEW q \in Process
        PROVE  /\ op'[q].record # Meta => op'[q].record.id \in 1..(next' - 1)
               /\ op'[q].pc = "newline" => op'[q].inode \in 1..Len(files)
    <3>1. CASE q = p
      BY <3>1, <1>4, <1>5, <2>1
    <3>2. CASE q # p
      BY <3>2, <1>1, <1>5, <2>1 DEF TypeInv
    <3> QED BY <3>1, <3>2
  <2> QED BY <1>1, <1>2, <1>5, <2>1, <2>2, <2>3 DEF TypeInv, disk
<1>7. /\ record.kind = "message" => /\ newSession.messages # << >>
                                    /\ Last(newSession.messages) = record
                                    /\ Front(newSession.messages) = s.messages
                                    /\ newSession.prompts = s.prompts
      /\ record.kind # "message" => /\ newSession.prompts # << >>
                                    /\ Last(newSession.prompts) = record
                                    /\ Front(newSession.prompts) = s.prompts
                                    /\ newSession.messages = s.messages
      /\ Known(s) \subseteq Known(newSession)
  <2>1. CASE record.kind = "message"
    <3>1. record \in Message
      BY <2>1 DEF Message, Prompt
    <3>2. newSession.messages = Append(s.messages, record) /\ newSession.prompts = s.prompts
      BY <2>1
    <3> HIDE DEF s
    <3> QED BY <1>1, <2>1, <3>1, <3>2, PushedIs, SMTT(60) DEF Known
  <2>2. CASE record.kind # "message"
    <3>1. record \in Prompt
      BY <2>2 DEF Message, Prompt
    <3>2. newSession.prompts = Append(s.prompts, record) /\ newSession.messages = s.messages
      BY <2>2
    <3> HIDE DEF s
    <3> QED BY <1>1, <2>2, <3>1, <3>2, PushedIs DEF Known
  <2> QED BY <2>1, <2>2
<1>8. ASSUME "shared" \notin trouble PROVE Safe' /\ Legible' /\ UnderWay(p)'
  <2>1. Safe /\ Legible /\ OneOpen /\ UnderWay(p)
    BY <1>8 DEF IInv
  <2>2. Safe'
    <3>1. acked \subseteq Known(newSession)
      BY <1>1, <1>7, <2>1 DEF Safe
    <3>2. \A q \in Process : session'[q].open => acked \subseteq Known(session'[q])
      BY <3>1, <1>2, <2>1 DEF Safe
    <3> QED BY <3>2, <2>1 DEF Safe, disk
  <2>3. Legible'
    <3>1. (\A q \in Process : op[q].pc # "newline") \/ \E q \in Process : op'[q].pc = "newline"
      BY <1>4, <1>5
    <3> QED BY <3>1, <2>1 DEF Legible, disk
  <2>4. UnderWay(p)'
    <3>1. record \notin acked
      BY <1>1 DEF TypeInv
    <3>2. record # Meta
      BY RecordsAreChunks
    <3> QED BY <1>2, <1>4, <1>5, <1>7, <3>1, <3>2 DEF UnderWay, disk
  <2> QED BY <2>2, <2>3, <2>4
<1>9. ASSUME trouble = {} PROVE Mirrored(p)'
  <2>1. Mirrored(p)
    BY <1>9 DEF IInv
  <2>2. path # 0 => Holds(files[path], s.prompts, s.messages)
    BY <2>1, <1>1 DEF Mirrored
  <2> QED BY <1>2, <1>4, <1>5, <1>7, <2>2 DEF Mirrored, disk
<1>10. \A q \in Process : q # p => op'[q] = op[q] /\ session'[q] = session[q]
  BY <1>2, <1>5
<1>11. session'[p].open /\ trouble' = trouble
  BY <1>2
<1> QED
  BY <1>1, <1>6, <1>8, <1>9, <1>10, <1>11, EnoughForOne

LEMMA PushMessageKeeps ==
    ASSUME IInv, NEW p \in Process, PushMessage(p)
    PROVE  IInv'
<1> DEFINE record == [kind |-> "message", id |-> next]
           new == [session[p] EXCEPT !.messages = Append(@, record)]
<1>1. Ready(p) /\ session[p] \in SessionType /\ next \in Nat
      /\ StartAppend(p, record, new)
  BY DEF IInv, TypeInv, PushMessage
<1>2. record \in Message /\ record.id = next /\ record.kind = "message"
  BY <1>1 DEF Message
<1> HIDE DEF record
<1>3. new \in SessionType /\ new.open /\ new.messages = Append(session[p].messages, record)
      /\ new.prompts = session[p].prompts
  <2>1. Append(session[p].messages, record) \in Seq(Message)
    BY <1>1, <1>2 DEF SessionType
  <2> QED BY <1>1, <2>1 DEF SessionType, Ready
<1> HIDE DEF new
<1> QED
  BY <1>1, <1>2, <1>3, StartAppendKeeps

LEMMA PushPromptEntryKeeps ==
    ASSUME IInv, NEW p \in Process, PushPromptEntry(p)
    PROVE  IInv'
<1> DEFINE record == [kind |-> "prompt", id |-> next]
           new == [session[p] EXCEPT !.prompts = Append(@, record)]
<1>1. Ready(p) /\ session[p] \in SessionType /\ next \in Nat
      /\ StartAppend(p, record, new)
  BY DEF IInv, TypeInv, PushPromptEntry
<1>2. record \in Prompt /\ record.id = next /\ record.kind # "message"
  BY <1>1 DEF Prompt
<1> HIDE DEF record
<1>3. new \in SessionType /\ new.open /\ new.prompts = Append(session[p].prompts, record)
      /\ new.messages = session[p].messages
  <2>1. Append(session[p].prompts, record) \in Seq(Prompt)
    BY <1>1, <1>2 DEF SessionType
  <2> QED BY <1>1, <2>1 DEF SessionType, Ready
<1> HIDE DEF new
<1> QED
  BY <1>1, <1>2, <1>3, StartAppendKeeps

\* A compaction only forgets what it takes out of memory.
LEMMA RecordCompactionKeeps ==
    ASSUME Bounds, IInv, NEW p \in Process, RecordCompaction(p)
    PROVE  IInv'
<1> DEFINE s == session[p]
           m == s.messages
           first == IF m # << >> /\ m[1] = Summary THEN 2 ELSE 1
<1>1. /\ TypeInv /\ s \in SessionType /\ s.open /\ op[p].pc = "idle"
      /\ m \in Seq(Message) /\ s.prompts \in Seq(Prompt) /\ s.compactions \in Nat
      /\ saves < MaxSaves /\ saves' = saves + 1 /\ op' = op
  BY DEF IInv, TypeInv, SessionType, RecordCompaction, Ready
<1>2. PICK keep \in first..Len(m) :
          /\ session' = [session EXCEPT
                 ![p].messages = <<Summary>> \o SubSeq(m, keep + 1, Len(m)),
                 ![p].compactions = @ + 1]
          /\ acked' = acked \ Range(SubSeq(m, 1, keep))
  BY DEF RecordCompaction
<1>3. keep \in 1..Len(m) /\ (m[1] = Summary => keep >= 2)
  BY <1>1
<1> DEFINE rest == SubSeq(m, keep + 1, Len(m))
           cutoff == SubSeq(m, 1, keep)
           kept == <<Summary>> \o rest
<1>4. rest \in Seq(Message) /\ IsSuffix(rest, WithoutSummary(m))
  BY <1>1, <1>3, RestIsSuffix
<1>5. Range(m) = Range(cutoff) \cup Range(rest)
  <2>1. cutoff \in Seq(Message)
    BY <1>1, <1>3
  <2>2. cutoff \o rest = m
    <3>1. SubSeq(m, 1, keep) \o SubSeq(m, keep + 1, Len(m)) = SubSeq(m, 1, Len(m))
      BY <1>1, <1>3, ConcatAdjacentSubSeq
    <3> QED BY <3>1, <1>1, SubSeqFull
  <2> HIDE DEF cutoff, rest, m
  <2>3. Range(cutoff \o rest) = Range(cutoff) \cup Range(rest)
    BY <2>1, <1>4, RangeConcatenation
  <2> QED BY <2>2, <2>3
<1> HIDE DEF rest, cutoff
<1>6. /\ kept \in Seq(Message) /\ WithoutSummary(kept) = rest
      /\ Range(rest) \subseteq Range(kept)
  <2>1. Summary \in Message /\ WithoutSummary(<<Summary>> \o rest) = rest
    BY <1>4, WithoutSummaryIs
  <2>2. <<Summary>> \in Seq(Message)
    BY <2>1
  <2>3. Range(<<Summary>> \o rest) = Range(<<Summary>>) \cup Range(rest)
    BY <2>2, <1>4, RangeConcatenation
  <2> QED BY <2>1, <2>2, <2>3, <1>4, ConcatProperties
<1>7. /\ session' = [session EXCEPT ![p].messages = kept, ![p].compactions = @ + 1]
      /\ acked' = acked \ Range(cutoff)
  BY <1>2 DEF rest, cutoff
<1> HIDE DEF kept
<1>8. /\ session'[p].messages = kept /\ session'[p].prompts = s.prompts /\ session'[p].open
      /\ session' \in [Process -> SessionType]
      /\ \A q \in Process : q # p => session'[q] = session[q]
  <2> DEFINE mid == [s EXCEPT !.messages = kept]
             new == [mid EXCEPT !.compactions = s.compactions + 1]
  <2>0. mid \in SessionType /\ mid.messages = kept /\ mid.prompts = s.prompts /\ mid.open
    BY <1>1, <1>6 DEF SessionType
  <2> HIDE DEF mid
  <2>1. new \in SessionType /\ new.messages = kept /\ new.prompts = s.prompts /\ new.open
    BY <1>1, <2>0 DEF SessionType
  <2>2. session' = [session EXCEPT ![p] = new]
    BY <1>1, <1>7 DEF TypeInv, mid
  <2> HIDE DEF new
  <2> QED BY <2>1, <2>2, <1>1 DEF TypeInv
<1>9. acked' \subseteq acked /\ UNCHANGED <<disk, op, next, crashes, trouble, cut>>
  BY <1>7 DEF RecordCompaction
<1>10. TypeInv'
  <2>1. saves' \in 0..MaxSaves
    BY <1>1 DEF TypeInv, Bounds
  <2> QED BY <2>1, <1>1, <1>8, <1>9 DEF TypeInv, disk
<1>11. ASSUME "shared" \notin trouble PROVE Safe' /\ Legible' /\ UnderWay(p)'
  <2>1. Safe /\ Legible /\ OneOpen
    BY <1>11 DEF IInv
  <2>2. acked' \subseteq Known(session'[p])
    BY <2>1, <1>1, <1>5, <1>6, <1>7, <1>8 DEF Safe, Known
  <2>3. \A q \in Process : session'[q].open => acked' \subseteq Known(session'[q])
    BY <2>1, <2>2, <1>8, <1>9 DEF Safe
  <2>4. Safe'
    BY <2>1, <2>3, <1>9 DEF Safe, disk
  <2>5. Legible' /\ UnderWay(p)'
    BY <2>1, <1>1, <1>9 DEF Legible, UnderWay, disk
  <2> QED BY <2>4, <2>5
<1>12. ASSUME trouble = {} PROVE Mirrored(p)'
  <2>1. path # 0 /\ Holds(files[path], s.prompts, m)
    BY <1>1, <1>12 DEF IInv, Mirrored
  <2>2. IsSuffix(rest, RecordsOf(files[path], "message"))
    <3>1. files[path] \in Seq(Chunk)
      BY <1>1, <2>1 DEF TypeInv
    <3>2. RecordsOf(files[path], "message") \in Seq(Message)
      BY <3>1, RecordsOfType, RecordsAreChunks
    <3>3. WithoutSummary(m) \in Seq(Message)
      BY <1>1, WithoutSummaryIs
    <3> QED BY <3>2, <3>3, <2>1, <1>4, SuffixOfSuffix DEF Holds
  <2>3. Holds(files[path], s.prompts, kept)
    BY <2>1, <2>2, <1>6 DEF Holds
  <2> QED BY <2>1, <2>3, <1>1, <1>8, <1>9 DEF Mirrored, disk
<1> QED
  BY <1>1, <1>8, <1>9, <1>10, <1>11, <1>12, EnoughForOne

LEMMA SaveToPathKeeps ==
    ASSUME Bounds, IInv, NEW p \in Process, SaveToPath(p)
    PROVE  IInv'
<1> DEFINE s == session[p]
           o == [pc |-> "rotate", record |-> Meta, snapshot |-> Snapshot(s), inode |-> 0]
<1>1. TypeInv /\ s \in SessionType /\ s.open /\ op[p].pc = "idle"
      /\ saves < MaxSaves /\ saves' = saves + 1
      /\ op' = [op EXCEPT ![p] = o]
      /\ UNCHANGED <<disk, session, next, crashes, trouble, cut, acked>>
  BY DEF IInv, TypeInv, SaveToPath, Ready
<1>2. o \in OpType
  <2>1. Snapshot(s) \in Seq(Chunk)
    BY <1>1, SnapshotIs
  <2> QED BY <2>1 DEF OpType
<1>3. o.pc = "rotate" /\ o.record = Meta /\ o.snapshot = Snapshot(s)
  OBVIOUS
<1> HIDE DEF o
<1>4. op'[p] = o /\ op' \in [Process -> OpType] /\ \A q \in Process : q # p => op'[q] = op[q]
  BY <1>1, <1>2 DEF TypeInv
<1>5. TypeInv'
  <2>1. saves' \in 0..MaxSaves
    BY <1>1 DEF TypeInv, Bounds
  <2>2. \A q \in Process : /\ op'[q].record # Meta => op'[q].record.id \in 1..(next - 1)
                           /\ op'[q].pc = "newline" => op'[q].inode \in 1..Len(files)
    BY <1>1, <1>3, <1>4 DEF TypeInv
  <2> QED BY <2>1, <2>2, <1>1, <1>4 DEF TypeInv, disk
<1>6. ASSUME "shared" \notin trouble PROVE Safe' /\ Legible' /\ UnderWay(p)'
  <2>1. Safe /\ Legible
    BY <1>6 DEF IInv
  <2>2. (\A q \in Process : op'[q].pc # "newline") => \A q \in Process : op[q].pc # "newline"
    BY <1>1, <1>4
  <2>3. Safe' /\ Legible'
    BY <2>1, <2>2, <1>1 DEF Safe, Legible, disk
  <2>4. UnderWay(p)'
    BY <1>1, <1>3, <1>4 DEF UnderWay, disk
  <2> QED BY <2>3, <2>4
<1>7. ASSUME trouble = {} PROVE Mirrored(p)'
  BY <1>1, <1>3, <1>4 DEF Mirrored, disk
<1> QED
  BY <1>1, <1>4, <1>5, <1>6, <1>7, EnoughForOne

----------------------------------------------------------------------------
(* The steps of an operation *)

\* What a step of an operation knows before it.
LEMMA AtWork ==
    ASSUME IInv, NEW p \in Process, op[p].pc # "idle"
    PROVE  /\ TypeInv /\ session[p] \in SessionType /\ op[p] \in OpType /\ session[p].open
           /\ session[p].messages \in Seq(Message) /\ session[p].prompts \in Seq(Prompt)
           /\ op[p].record \in {Meta} \cup Message \cup Prompt
           /\ "shared" \notin trouble => Safe /\ Legible /\ UnderWay(p)
           /\ trouble = {} => Mirrored(p)
BY SMTT(60) DEF IInv, ClosedIsIdle, Idle, TypeInv, SessionType, OpType

LEMMA Writes ==
    ASSUME NEW i \in 1..Len(files), NEW chunks \in Seq(Chunk), files \in Seq(Seq(Chunk)),
           Written(i, chunks)
    PROVE  /\ files' \in Seq(Seq(Chunk)) /\ Len(files') = Len(files)
           /\ files[i] \in Seq(Chunk) /\ files'[i] = files[i] \o chunks
           /\ \A j \in 1..Len(files) : j # i => files'[j] = files[j]
<1>1. files' = [files EXCEPT ![i] = files[i] \o chunks] /\ files[i] \in Seq(Chunk)
  BY DEF Written
<1>2. files[i] \o chunks \in Seq(Chunk)
  BY <1>1, ConcatProperties
<1> QED
  BY <1>1, <1>2, ExceptSeq

LEMMA AppendBodyKeeps ==
    ASSUME IInv, NEW p \in Process, AppendBody(p)
    PROVE  IInv'
<1> DEFINE s == session[p]
           o == op[p]
           record == o.record
<1>1. /\ o.pc = "body" /\ path # 0 /\ Written(path, <<record>>)
      /\ op' = [op EXCEPT ![p].pc = "newline", ![p].inode = path]
      /\ UNCHANGED <<path, rotated, session, next, saves, crashes, trouble, cut, acked>>
  BY DEF AppendBody
<1>2. /\ TypeInv /\ s \in SessionType /\ o \in OpType /\ s.open
      /\ s.messages \in Seq(Message) /\ s.prompts \in Seq(Prompt)
      /\ record \in {Meta} \cup Message \cup Prompt
      /\ "shared" \notin trouble => Safe /\ Legible /\ UnderWay(p)
      /\ trouble = {} => Mirrored(p)
  BY <1>1, AtWork
<1>3. record \in Chunk /\ path \in 1..Len(files) /\ files \in Seq(Seq(Chunk)) /\ <<record>> \in Seq(Chunk)
  BY <1>1, <1>2, RecordsAreChunks DEF TypeInv
<1>4. /\ files' \in Seq(Seq(Chunk)) /\ Len(files') = Len(files)
      /\ files[path] \in Seq(Chunk) /\ files'[path] = files[path] \o <<record>>
      /\ \A j \in 1..Len(files) : j # path => files'[j] = files[j]
  BY <1>1, <1>3, Writes
<1>5. /\ op'[p] = [o EXCEPT !.pc = "newline", !.inode = path]
      /\ op' \in [Process -> OpType] /\ \A q \in Process : q # p => op'[q] = op[q]
  <2> DEFINE mid == [o EXCEPT !.pc = "newline"]
             new == [mid EXCEPT !.inode = path]
  <2>0. mid \in OpType
    BY <1>2 DEF OpType
  <2> HIDE DEF mid
  <2>a. path \in Nat
    BY <1>3
  <2>1. new \in OpType
    BY <2>0, <2>a DEF OpType
  <2>2. op' = [op EXCEPT ![p] = new]
    BY <1>1, <1>2 DEF TypeInv, mid
  <2> HIDE DEF new
  <2>3. op'[p] = new /\ op' \in [Process -> OpType] /\ \A q \in Process : q # p => op'[q] = op[q]
    BY <2>1, <2>2, <1>2 DEF TypeInv
  <2> QED BY <2>3 DEF new, mid
<1>6. op'[p].pc = "newline" /\ op'[p].inode = path /\ op'[p].record = record
  BY <1>2, <1>5 DEF OpType
<1>7. TypeInv'
  <2>1. \A q \in Process : /\ op'[q].record # Meta => op'[q].record.id \in 1..(next - 1)
                           /\ op'[q].pc = "newline" => op'[q].inode \in 1..Len(files)
    BY <1>2, <1>3, <1>5, <1>6 DEF TypeInv
  <2> QED BY <2>1, <1>1, <1>2, <1>4, <1>5 DEF TypeInv
<1>8. ASSUME "shared" \notin trouble PROVE Safe' /\ Legible' /\ UnderWay(p)'
  <2>1. Safe /\ Legible /\ UnderWay(p) /\ OneOpen
    BY <1>2, <1>8 DEF IInv
  <2>2. record \in Message \cup Prompt
    BY <1>1, <1>2, <2>1 DEF UnderWay
  <2>3. files'[path] # << >> /\ Last(files'[path]) = record
        /\ Range(files'[path]) = Range(files[path]) \cup {record}
    BY <1>3, <1>4, OneMoreChunk
  <2>4. Safe'
    BY <1>1, <2>1, <2>3 DEF Safe
  <2>5. ASSUME ~cut PROVE Readable(files'[path])
    <3>1. \A q \in Process : op[q].pc # "newline"
      BY <1>1, <1>2, <2>1 DEF OneOpen, IInv, ClosedIsIdle, Idle
    <3>2. Readable(files[path]) /\ EndsALine(files[path])
      BY <1>1, <2>1, <2>5, <3>1 DEF Legible
    <3> QED BY <3>2, <2>2, <1>4, StaysReadable
  <2>6. Legible'
    BY <1>1, <1>6, <2>5 DEF Legible
  <2>7. UnderWay(p)'
    BY <1>1, <1>6, <2>1, <2>3 DEF UnderWay
  <2> QED BY <2>4, <2>6, <2>7
<1>9. ASSUME trouble = {} PROVE Mirrored(p)'
  <2>1. UnderWay(p) /\ Mirrored(p)
    BY <1>2, <1>9
  <2>2. record \in Message \cup Prompt
    BY <1>1, <1>2, <2>1 DEF UnderWay
  <2>3. RecordsOf(files'[path], "message")
          = Step(RecordsOf(files[path], "message"), record, "message")
        /\ RecordsOf(files'[path], "prompt")
             = Step(RecordsOf(files[path], "prompt"), record, "prompt")
    BY <1>3, <1>4, RecordsOfOneMore
  <2>4. RecordsOf(files[path], "message") \in Seq(Message)
    BY <1>4, RecordsOfType, RecordsAreChunks
  <2>5. Holds(files'[path], s.prompts, s.messages)
    <3>1. CASE record \in Message
      <4>1. record.kind = "message" /\ s.messages # << >> /\ Last(s.messages) = record
            /\ record # Summary
        BY <1>1, <1>2, <2>1, <3>1 DEF UnderWay, TypeInv, Message, Summary, Meta
      <4> DEFINE f == Front(s.messages)
      <4>2. Holds(files[path], s.prompts, f)
        BY <1>1, <1>2, <2>1, <4>1 DEF Mirrored
      <4>3. f \in Seq(Message) /\ s.messages = Append(f, record)
        BY <1>2, <4>1, FrontAndLast
      <4> HIDE DEF f
      <4>4. WithoutSummary(s.messages) = Append(WithoutSummary(f), record)
            /\ WithoutSummary(f) \in Seq(Message)
        BY <3>1, <4>1, <4>3, WithoutSummaryIs
      <4>5. IsSuffix(Append(WithoutSummary(f), record),
                     Append(RecordsOf(files[path], "message"), record))
        BY <2>4, <3>1, <4>2, <4>4, SuffixAppend DEF Holds
      <4> QED BY <2>3, <4>1, <4>2, <4>4, <4>5 DEF Holds, Step
    <3>2. CASE record \notin Message
      <4>1. record \in Prompt /\ record.kind = "prompt" /\ s.prompts # << >>
            /\ Last(s.prompts) = record
        BY <1>1, <1>2, <2>1, <2>2, <3>2 DEF UnderWay, Prompt, Meta
      <4> DEFINE f == Front(s.prompts)
      <4>2. Holds(files[path], f, s.messages)
        BY <1>1, <1>2, <2>1, <4>1 DEF Mirrored
      <4>3. s.prompts = Append(f, record)
        BY <1>2, <4>1, FrontAndLast
      <4> QED BY <2>3, <4>1, <4>2, <4>3 DEF Holds, Step
    <3> QED BY <3>1, <3>2
  <2> QED BY <2>5, <1>1, <1>6 DEF Mirrored
<1> QED
  BY <1>1, <1>2, <1>5, <1>7, <1>8, <1>9, EnoughForOne

\* What an operation puts under Ok is in memory.
LEMMA AcknowledgeKeeps ==
    ASSUME IInv, NEW p \in Process, op[p].pc # "idle", Acknowledge(p)
    PROVE  /\ acked \subseteq acked' /\ acked' \subseteq acked \cup {op[p].record}
           /\ acked' \subseteq Message \cup Prompt
           /\ \A record \in acked' : record.id \in 1..(next - 1)
           /\ "shared" \notin trouble =>
                 /\ acked' \subseteq Known(session[p])
                 /\ \A record \in acked' \ acked : record \in {op[p].record} \ {Meta}
<1> DEFINE s == session[p]
           record == op[p].record
<1>1. /\ TypeInv /\ s \in SessionType /\ op[p] \in OpType /\ s.open
      /\ s.messages \in Seq(Message) /\ s.prompts \in Seq(Prompt)
      /\ record \in {Meta} \cup Message \cup Prompt
      /\ "shared" \notin trouble => Safe /\ Legible /\ UnderWay(p)
  BY AtWork
<1>2. acked' = IF record = Meta THEN acked ELSE acked \cup {record}
  BY DEF Acknowledge
<1>3. record # Meta => record \in Message \cup Prompt /\ record.id \in 1..(next - 1)
  BY <1>1 DEF TypeInv
<1>4. ASSUME "shared" \notin trouble, record # Meta PROVE record \in Known(s)
  <2>1. UnderWay(p)
    BY <1>1, <1>4
  <2>2. CASE record \in Message
    <3>1. s.messages # << >> /\ Last(s.messages) = record
      BY <1>4, <2>1, <2>2 DEF UnderWay, Message
    <3>2. s.messages \in Seq(Message)
      BY <1>1
    <3>3. Range(s.messages) = Range(Front(s.messages)) \cup {Last(s.messages)}
      BY <3>1, <3>2, FrontAndLast
    <3> QED BY <3>1, <3>3 DEF Known
  <2>3. CASE record \in Prompt
    <3>1. s.prompts # << >> /\ Last(s.prompts) = record
      BY <1>4, <2>1, <2>3 DEF UnderWay, Prompt
    <3>2. s.prompts \in Seq(Prompt)
      BY <1>1
    <3>3. Range(s.prompts) = Range(Front(s.prompts)) \cup {Last(s.prompts)}
      BY <3>1, <3>2, FrontAndLast
    <3> QED BY <3>1, <3>3 DEF Known
  <2> QED BY <1>3, <1>4, <2>2, <2>3
<1>5. ASSUME "shared" \notin trouble PROVE acked \subseteq Known(s)
  BY <1>1, <1>5 DEF Safe
<1>6. acked \subseteq Message \cup Prompt /\ \A c \in acked : c.id \in 1..(next - 1)
  BY <1>1 DEF TypeInv
<1> HIDE DEF record, s
<1>7. \A c \in acked' : c \in acked \/ (c = record /\ record # Meta)
  BY <1>2
<1>8. acked' \subseteq Message \cup Prompt /\ \A c \in acked' : c.id \in 1..(next - 1)
  BY <1>3, <1>6, <1>7
<1>9. "shared" \notin trouble => acked' \subseteq Known(s)
  BY <1>4, <1>5, <1>7
<1> QED
  BY <1>2, <1>7, <1>8, <1>9 DEF record, s

LEMMA FinishIs ==
    ASSUME NEW p \in Process, op \in [Process -> OpType], Finish(p)
    PROVE  /\ op' \in [Process -> OpType] /\ op'[p] = Idle /\ Idle.pc = "idle"
           /\ Idle.record = Meta
           /\ \A q \in Process : q # p => op'[q] = op[q]
<1>1. Idle \in OpType /\ Idle.pc = "idle" /\ Idle.record = Meta
  BY DEF Idle, OpType
<1> QED
  BY <1>1 DEF Finish

LEMMA AppendNewlineKeeps ==
    ASSUME IInv, NEW p \in Process, AppendNewline(p)
    PROVE  IInv'
<1> DEFINE s == session[p]
           o == op[p]
           i == o.inode
<1>1. /\ o.pc = "newline" /\ Written(i, <<Newline>>) /\ Finish(p) /\ Acknowledge(p)
      /\ UNCHANGED <<path, rotated, session, next, saves, crashes, trouble, cut>>
  BY DEF AppendNewline
<1>2. /\ TypeInv /\ s \in SessionType /\ o \in OpType /\ s.open
      /\ s.messages \in Seq(Message) /\ s.prompts \in Seq(Prompt)
      /\ o.record \in {Meta} \cup Message \cup Prompt
      /\ "shared" \notin trouble => Safe /\ Legible /\ UnderWay(p)
      /\ trouble = {} => Mirrored(p)
  BY <1>1, AtWork
<1>3. /\ acked \subseteq acked' /\ acked' \subseteq acked \cup {o.record}
      /\ acked' \subseteq Message \cup Prompt
      /\ \A record \in acked' : record.id \in 1..(next - 1)
      /\ "shared" \notin trouble => acked' \subseteq Known(s)
  BY <1>1, AcknowledgeKeeps
<1>4. i \in 1..Len(files) /\ files \in Seq(Seq(Chunk)) /\ <<Newline>> \in Seq(Chunk)
      /\ Newline \in Chunk
  BY <1>1, <1>2, RecordsAreChunks DEF TypeInv
<1>5. /\ files' \in Seq(Seq(Chunk)) /\ Len(files') = Len(files)
      /\ files[i] \in Seq(Chunk) /\ files'[i] = files[i] \o <<Newline>>
      /\ \A j \in 1..Len(files) : j # i => files'[j] = files[j]
  BY <1>1, <1>4, Writes
<1>6. /\ op' \in [Process -> OpType] /\ op'[p] = Idle /\ Idle.pc = "idle"
      /\ Idle.record = Meta /\ \A q \in Process : q # p => op'[q] = op[q]
  BY <1>1, <1>2, FinishIs DEF TypeInv
<1>7. TypeInv'
  <2>1. \A q \in Process : /\ op'[q].record # Meta => op'[q].record.id \in 1..(next - 1)
                           /\ op'[q].pc = "newline" => op'[q].inode \in 1..Len(files)
    BY <1>2, <1>6 DEF TypeInv
  <2> QED BY <2>1, <1>1, <1>2, <1>3, <1>5, <1>6 DEF TypeInv
<1>8. ASSUME "shared" \notin trouble PROVE Safe' /\ Legible' /\ UnderWay(p)'
  <2>1. Safe /\ Legible /\ UnderWay(p) /\ OneOpen
    BY <1>2, <1>8 DEF IInv
  <2>2. path # 0 /\ i = path /\ files[path] # << >> /\ Last(files[path]) = o.record
    BY <1>1, <2>1 DEF UnderWay
  <2>3. Range(files'[path]) = Range(files[path]) \cup {Newline}
    BY <2>2, <1>4, <1>5, OneMoreChunk
  <2>4. o.record \in Range(files[path])
    BY <2>2, <1>5, FrontAndLast
  <2>5. acked' \subseteq Range(files'[path])
    BY <2>1, <2>2, <2>3, <2>4, <1>3 DEF Safe
  <2>6. \A q \in Process : session[q].open => acked' \subseteq Known(session[q])
    BY <1>2, <1>3, <1>8, <2>1 DEF OneOpen
  <2>7. Safe'
    BY <2>2, <2>5, <2>6, <1>1 DEF Safe
  <2>8. ~cut => Readable(files'[path]) /\ EndsALine(files'[path])
    BY <2>1, <2>2, <1>5, StaysReadable DEF Legible
  <2>9. Legible' /\ UnderWay(p)'
    BY <2>8, <1>1, <1>6 DEF Legible, UnderWay
  <2> QED BY <2>7, <2>9
<1>9. ASSUME trouble = {} PROVE Mirrored(p)'
  <2>1. UnderWay(p) /\ Mirrored(p)
    BY <1>2, <1>9
  <2>2. path # 0 /\ i = path
    BY <1>1, <2>1 DEF UnderWay
  <2>3. RecordsOf(files'[path], "message")
          = Step(RecordsOf(files[path], "message"), Newline, "message")
        /\ RecordsOf(files'[path], "prompt")
             = Step(RecordsOf(files[path], "prompt"), Newline, "prompt")
    <3>1. files[path] \in Seq(Chunk) /\ files'[path] = files[path] \o <<Newline>>
      BY <1>5, <2>2
    <3> QED BY <3>1, <1>4, RecordsOfOneMore
  <2>4. Holds(files'[path], s.prompts, s.messages)
    BY <1>1, <1>2, <2>1, <2>3 DEF Mirrored, Holds, Step, Newline
  <2> QED BY <2>2, <2>4, <1>1, <1>6 DEF Mirrored
<1> QED
  BY <1>1, <1>2, <1>6, <1>7, <1>8, <1>9, EnoughForOne

\* An operation that fails takes its message out of memory again: that message
\* was not acknowledged.
LEMMA FailIs ==
    ASSUME IInv, NEW p \in Process, op[p].pc # "idle", Fail(p)
    PROVE  /\ op' \in [Process -> OpType] /\ op'[p] = Idle /\ Idle.pc = "idle"
           /\ Idle.record = Meta
           /\ session' \in [Process -> SessionType] /\ session'[p].open
           /\ \A q \in Process : q # p => op'[q] = op[q] /\ session'[q] = session[q]
           /\ "shared" \notin trouble => acked \subseteq Known(session'[p])
<1> DEFINE s == session[p]
           record == op[p].record
           new == [s EXCEPT !.messages = Front(@)]
<1>1. /\ TypeInv /\ s \in SessionType /\ op[p] \in OpType /\ s.open
      /\ s.messages \in Seq(Message) /\ s.prompts \in Seq(Prompt)
      /\ record \in {Meta} \cup Message \cup Prompt
      /\ "shared" \notin trouble => Safe /\ Legible /\ UnderWay(p)
  BY AtWork
<1>2. /\ op' \in [Process -> OpType] /\ op'[p] = Idle /\ Idle.pc = "idle"
      /\ Idle.record = Meta /\ \A q \in Process : q # p => op'[q] = op[q]
  BY <1>1, FinishIs DEF TypeInv, Fail
<1>3. new \in SessionType /\ new.open /\ new.messages = Front(s.messages) /\ new.prompts = s.prompts
  <2>1. Front(s.messages) \in Seq(Message)
    BY <1>1, FrontIsSeq
  <2> QED BY <2>1, <1>1 DEF SessionType
<1>4. session' = IF record.kind = "message" THEN [session EXCEPT ![p] = new] ELSE session
  BY <1>1 DEF Fail, Rollback, TypeInv
<1> HIDE DEF new
<1>5. /\ session' \in [Process -> SessionType] /\ session'[p].open
      /\ \A q \in Process : q # p => session'[q] = session[q]
      /\ session'[p] = IF record.kind = "message" THEN new ELSE s
  BY <1>1, <1>3, <1>4 DEF TypeInv
<1>6. ASSUME "shared" \notin trouble PROVE acked \subseteq Known(session'[p])
  <2>1. Safe /\ UnderWay(p) /\ acked \subseteq Known(s)
    BY <1>1, <1>6 DEF Safe
  <2>2. CASE record.kind = "message"
    <3>1. record \notin acked /\ s.messages # << >> /\ Last(s.messages) = record
      BY <2>1, <2>2 DEF UnderWay, Meta
    <3>2. Range(s.messages) = Range(Front(s.messages)) \cup {record}
      BY <3>1, <1>1, FrontAndLast
    <3>3. Known(s) \subseteq Known(new) \cup {record}
      BY <3>2, <1>3 DEF Known
    <3> QED BY <2>1, <2>2, <3>1, <3>3, <1>5
  <2>3. CASE record.kind # "message"
    BY <2>1, <2>3, <1>5
  <2> QED BY <2>2, <2>3
<1> QED
  BY <1>2, <1>5, <1>6

LEMMA AppendTargetGoneKeeps ==
    ASSUME IInv, NEW p \in Process, AppendTargetGone(p)
    PROVE  IInv'
<1>1. /\ op[p].pc = "body" /\ path = 0 /\ Fail(p)
      /\ UNCHANGED <<disk, next, saves, crashes, trouble, cut, acked>>
  BY DEF AppendTargetGone
<1>2. /\ TypeInv /\ session[p].open
      /\ "shared" \notin trouble => UnderWay(p)
  BY <1>1, AtWork
<1>3. /\ op' \in [Process -> OpType] /\ op'[p] = Idle /\ Idle.pc = "idle"
      /\ Idle.record = Meta
      /\ session' \in [Process -> SessionType] /\ session'[p].open
      /\ \A q \in Process : q # p => op'[q] = op[q] /\ session'[q] = session[q]
  BY <1>1, FailIs
<1>4. TypeInv'
  <2>1. \A q \in Process : /\ op'[q].record # Meta => op'[q].record.id \in 1..(next - 1)
                           /\ op'[q].pc = "newline" => op'[q].inode \in 1..Len(files)
    BY <1>2, <1>3 DEF TypeInv
  <2> QED BY <2>1, <1>1, <1>2, <1>3 DEF TypeInv, disk
<1>5. "shared" \in trouble
  BY <1>1, <1>2 DEF UnderWay
<1> QED
  BY <1>1, <1>2, <1>3, <1>4, <1>5, EnoughForOne

LEMMA GotoIs ==
    ASSUME NEW p \in Process, op \in [Process -> OpType],
           NEW pc \in {"idle", "body", "newline", "rotate", "write", "cleanup"}, Goto(p, pc)
    PROVE  /\ op' \in [Process -> OpType] /\ op'[p] = [op[p] EXCEPT !.pc = pc]
           /\ op'[p].pc = pc /\ op'[p].record = op[p].record
           /\ op'[p].snapshot = op[p].snapshot /\ op'[p].inode = op[p].inode
           /\ \A q \in Process : q # p => op'[q] = op[q]
<1> DEFINE new == [op[p] EXCEPT !.pc = pc]
<1>1. new \in OpType /\ new.pc = pc /\ new.record = op[p].record
      /\ new.snapshot = op[p].snapshot /\ new.inode = op[p].inode
  BY DEF OpType
<1>2. op' = [op EXCEPT ![p] = new]
  BY DEF Goto
<1> HIDE DEF new
<1>3. op' \in [Process -> OpType] /\ op'[p] = new /\ \A q \in Process : q # p => op'[q] = op[q]
  BY <1>1, <1>2
<1> QED
  BY <1>1, <1>3 DEF new

LEMMA RotateKeeps ==
    ASSUME IInv, NEW p \in Process, Rotate(p)
    PROVE  IInv'
<1> DEFINE full == IF path = 0 THEN FALSE ELSE Size(files[path]) >= RotateAfter
<1>1. /\ op[p].pc = "rotate" /\ Goto(p, "write")
      /\ \/ full /\ path # 0 /\ path' = 0 /\ rotated' = Append(rotated, path)
         \/ ~full /\ UNCHANGED <<path, rotated>>
      /\ UNCHANGED <<files, session, next, saves, crashes, trouble, cut, acked>>
  BY DEF Rotate
<1> HIDE DEF full
<1>2. /\ TypeInv /\ op[p] \in OpType /\ session[p].open
      /\ "shared" \notin trouble => Safe /\ Legible /\ UnderWay(p)
  BY <1>1, AtWork
<1>3. /\ op' \in [Process -> OpType] /\ op'[p].pc = "write" /\ op'[p].record = op[p].record
      /\ op'[p].snapshot = op[p].snapshot
      /\ \A q \in Process : q # p => op'[q] = op[q]
  BY <1>1, <1>2, GotoIs DEF TypeInv
<1>4. path' \in 0..Len(files) /\ rotated' \in Seq(1..Len(files))
      /\ (path' = 0 => path = 0 \/ (rotated' # << >> /\ Last(rotated') = path))
      /\ (path' # 0 => path' = path) /\ (path' = 0 /\ path = 0 => rotated' = rotated)
  <2>1. path \in 0..Len(files) /\ rotated \in Seq(1..Len(files)) /\ Len(files) \in Nat
    BY <1>2 DEF TypeInv
  <2>2. CASE path # 0 /\ path' = 0 /\ rotated' = Append(rotated, path)
    <3>1. path \in 1..Len(files)
      BY <2>1, <2>2
    <3> DEFINE S == 1..Len(files)
    <3>2. path \in S /\ rotated \in Seq(S)
      BY <2>1, <3>1
    <3> HIDE DEF S
    <3>3. Append(rotated, path) \in Seq(S) /\ Append(rotated, path) # << >>
          /\ Last(Append(rotated, path)) = path
      BY <3>2, AppendedIs
    <3> QED BY <2>1, <2>2, <3>3 DEF S
  <2>3. CASE UNCHANGED <<path, rotated>>
    BY <2>1, <2>3
  <2> QED BY <1>1, <2>2, <2>3
<1>5. TypeInv'
  <2>1. \A q \in Process : /\ op'[q].record # Meta => op'[q].record.id \in 1..(next - 1)
                           /\ op'[q].pc = "newline" => op'[q].inode \in 1..Len(files)
    BY <1>2, <1>3 DEF TypeInv
  <2> QED BY <2>1, <1>1, <1>2, <1>3, <1>4 DEF TypeInv
<1>6. ASSUME "shared" \notin trouble PROVE Safe' /\ Legible' /\ UnderWay(p)'
  <2>1. Safe /\ Legible /\ UnderWay(p)
    BY <1>2, <1>6
  <2>2. Safe'
    BY <2>1, <1>1, <1>4 DEF Safe
  <2>3. (\A q \in Process : op'[q].pc # "newline") => \A q \in Process : op[q].pc # "newline"
    BY <1>1, <1>3
  <2>4. Legible'
    BY <2>1, <2>3, <1>1, <1>4 DEF Legible
  <2>5. UnderWay(p)'
    BY <2>1, <1>1, <1>3 DEF UnderWay
  <2> QED BY <2>2, <2>4, <2>5
<1>7. ASSUME trouble = {} PROVE Mirrored(p)'
  BY <1>3 DEF Mirrored
<1> QED
  BY <1>1, <1>2, <1>3, <1>5, <1>6, <1>7, EnoughForOne

LEMMA WriteAtomicKeeps ==
    ASSUME IInv, NEW p \in Process, WriteAtomic(p)
    PROVE  IInv'
<1> DEFINE s == session[p]
           o == op[p]
<1>1. /\ o.pc = "write" /\ Goto(p, "cleanup")
      /\ files' = Append(files, o.snapshot) /\ path' = Len(files) + 1 /\ cut' = FALSE
      /\ UNCHANGED <<rotated, session, next, saves, crashes, trouble, acked>>
  BY DEF WriteAtomic, FreshInode
<1>2. /\ TypeInv /\ s \in SessionType /\ o \in OpType /\ s.open
      /\ "shared" \notin trouble => Safe /\ Legible /\ UnderWay(p)
      /\ trouble = {} => Mirrored(p)
  BY <1>1, AtWork
<1>3. /\ op' \in [Process -> OpType] /\ op'[p].pc = "cleanup" /\ op'[p].record = o.record
      /\ op'[p].snapshot = o.snapshot
      /\ \A q \in Process : q # p => op'[q] = op[q]
  BY <1>1, <1>2, GotoIs DEF TypeInv
<1>4. files' \in Seq(Seq(Chunk)) /\ Len(files') = Len(files) + 1 /\ Len(files) \in Nat
      /\ files'[path'] = o.snapshot
  BY <1>1, <1>2, AppendProperties DEF TypeInv, OpType
<1>5. TypeInv'
  <2>1. ASSUME NEW q \in Process
        PROVE  /\ op'[q].record # Meta => op'[q].record.id \in 1..(next - 1)
               /\ op'[q].pc = "newline" => op'[q].inode \in 1..Len(files')
    <3>1. op'[q].record = op[q].record
          /\ (op'[q].pc = "newline" => op'[q].inode = op[q].inode /\ op[q].pc = "newline")
      BY <1>3
    <3>2. /\ op[q].record # Meta => op[q].record.id \in 1..(next - 1)
          /\ op[q].pc = "newline" => op[q].inode \in 1..Len(files)
      BY <1>2 DEF TypeInv
    <3>3. 1..Len(files) \subseteq 1..Len(files')
      BY <1>4
    <3> QED BY <3>1, <3>2, <3>3
  <2>2. path' \in 0..Len(files')
    BY <1>1, <1>4
  <2>3. rotated' \in Seq(1..Len(files'))
    <3>1. 1..Len(files) \subseteq 1..Len(files') /\ rotated \in Seq(1..Len(files))
      BY <1>2, <1>4 DEF TypeInv
    <3> QED BY <3>1, <1>1, SeqMonotonic
  <2> QED BY <2>1, <2>2, <2>3, <1>1, <1>2, <1>3, <1>4 DEF TypeInv
<1>6. path' # 0
  BY <1>1, <1>4
<1>7. /\ Readable(Snapshot(s)) /\ EndsALine(Snapshot(s))
      /\ Known(s) \subseteq Range(Snapshot(s))
      /\ RecordsOf(Snapshot(s), "message") = s.messages
      /\ RecordsOf(Snapshot(s), "prompt") = s.prompts
  BY <1>2, SnapshotIs
<1>8. ASSUME "shared" \notin trouble PROVE Safe' /\ Legible' /\ UnderWay(p)'
  <2>1. Safe /\ UnderWay(p)
    BY <1>2, <1>8
  <2>2. o.snapshot = Snapshot(s) /\ acked \subseteq Known(s)
    BY <2>1, <1>1, <1>2 DEF UnderWay, Safe
  <2>3. Safe'
    BY <2>1, <2>2, <1>1, <1>4, <1>6, <1>7 DEF Safe
  <2>4. Legible'
    BY <2>2, <1>4, <1>6, <1>7 DEF Legible
  <2>5. UnderWay(p)'
    BY <2>1, <2>2, <1>1, <1>3, <1>4, <1>6 DEF UnderWay
  <2> QED BY <2>3, <2>4, <2>5
<1>9. ASSUME trouble = {} PROVE Mirrored(p)'
  <2>1. o.snapshot = Snapshot(s)
    BY <1>1, <1>2, <1>9 DEF UnderWay
  <2>2. IsSuffix(WithoutSummary(s.messages), s.messages)
    BY <1>2, WithoutSummaryIs DEF SessionType
  <2>3. Holds(files'[path'], s.prompts, s.messages)
    BY <2>1, <2>2, <1>4, <1>7 DEF Holds
  <2> QED BY <2>3, <1>1, <1>3, <1>6 DEF Mirrored
<1> QED
  BY <1>1, <1>2, <1>3, <1>5, <1>8, <1>9, EnoughForOne

LEMMA CleanupRotatedLogsKeeps ==
    ASSUME Bounds, IInv, NEW p \in Process, CleanupRotatedLogs(p)
    PROVE  IInv'
<1> DEFINE s == session[p]
           o == op[p]
           extra == IF Len(rotated) > MaxRotatedFiles THEN Len(rotated) - MaxRotatedFiles ELSE 0
<1>1. /\ o.pc = "cleanup" /\ Finish(p) /\ Acknowledge(p)
      /\ rotated' = SubSeq(rotated, extra + 1, Len(rotated))
      /\ UNCHANGED <<files, path, session, next, saves, crashes, trouble, cut>>
  BY DEF CleanupRotatedLogs
<1>2. /\ TypeInv /\ s \in SessionType /\ o \in OpType /\ s.open
      /\ s.messages \in Seq(Message) /\ s.prompts \in Seq(Prompt)
      /\ "shared" \notin trouble => Safe /\ Legible /\ UnderWay(p)
      /\ trouble = {} => Mirrored(p)
  BY <1>1, AtWork
<1>3. /\ acked' \subseteq Message \cup Prompt
      /\ \A record \in acked' : record.id \in 1..(next - 1)
      /\ "shared" \notin trouble => acked' \subseteq Known(s)
  BY <1>1, AcknowledgeKeeps
<1>4. /\ op' \in [Process -> OpType] /\ op'[p] = Idle /\ Idle.pc = "idle"
      /\ Idle.record = Meta /\ \A q \in Process : q # p => op'[q] = op[q]
  BY <1>1, <1>2, FinishIs DEF TypeInv
<1>5. rotated' \in Seq(1..Len(files))
  <2>1. rotated \in Seq(1..Len(files)) /\ Len(rotated) \in Nat
    BY <1>2 DEF TypeInv
  <2>2. extra \in Nat
    BY <2>1 DEF Bounds
  <2> HIDE DEF extra
  <2>3. \A i \in (extra + 1)..Len(rotated) : rotated[i] \in 1..Len(files)
    BY <2>1, <2>2
  <2> QED BY <2>1, <2>2, <2>3, <1>1, SubSeqProperties
<1>6. TypeInv'
  <2>1. \A q \in Process : /\ op'[q].record # Meta => op'[q].record.id \in 1..(next - 1)
                           /\ op'[q].pc = "newline" => op'[q].inode \in 1..Len(files)
    BY <1>2, <1>4 DEF TypeInv
  <2> QED BY <2>1, <1>1, <1>2, <1>3, <1>4, <1>5 DEF TypeInv
<1>7. ASSUME "shared" \notin trouble PROVE Safe' /\ Legible' /\ UnderWay(p)'
  <2>1. Safe /\ Legible /\ UnderWay(p) /\ OneOpen
    BY <1>2, <1>7 DEF IInv
  <2>2. path # 0 /\ files[path] = Snapshot(s)
    BY <2>1, <1>1 DEF UnderWay
  <2>3. acked' \subseteq Range(files[path])
    BY <2>2, <1>2, <1>3, <1>7, SnapshotIs
  <2>4. \A q \in Process : session[q].open => acked' \subseteq Known(session[q])
    BY <2>1, <1>2, <1>3, <1>7 DEF OneOpen
  <2>5. Safe'
    BY <2>2, <2>3, <2>4, <1>1 DEF Safe
  <2>6. (\A q \in Process : op'[q].pc # "newline") => \A q \in Process : op[q].pc # "newline"
    BY <1>1, <1>4
  <2>7. Legible' /\ UnderWay(p)'
    BY <2>1, <2>6, <1>1, <1>4 DEF Legible, UnderWay
  <2> QED BY <2>5, <2>7
<1>8. ASSUME trouble = {} PROVE Mirrored(p)'
  <2>1. UnderWay(p) /\ Mirrored(p)
    BY <1>2, <1>8
  <2> QED BY <2>1, <1>1, <1>2, <1>4 DEF Mirrored, UnderWay
<1> QED
  BY <1>1, <1>2, <1>4, <1>6, <1>7, <1>8, EnoughForOne

\* What a cut-off write leaves of a file: all of it, perhaps with a torn line.
LEMMA CutOffIs ==
    ASSUME NEW p \in Process, TypeInv,
           IF op[p].pc = "body" /\ path # 0
           THEN \E part \in {<< >>, <<Torn>>} : Written(path, part)
           ELSE UNCHANGED files
    PROVE  /\ files' \in Seq(Seq(Chunk)) /\ Len(files') = Len(files)
           /\ \A j \in 1..Len(files) : Range(files[j]) \subseteq Range(files'[j])
           /\ op[p].pc # "body" => files' = files
<1>1. CASE op[p].pc = "body" /\ path # 0
  <2>1. PICK part \in {<< >>, <<Torn>>} : Written(path, part)
    BY <1>1
  <2>2. part \in Seq(Chunk) /\ path \in 1..Len(files) /\ files \in Seq(Seq(Chunk))
    <3>1. << >> \in Seq(Chunk) /\ <<Torn>> \in Seq(Chunk)
      BY RecordsAreChunks
    <3>2. files \in Seq(Seq(Chunk)) /\ path \in 1..Len(files)
      BY <1>1 DEF TypeInv
    <3> QED BY <3>1, <3>2
  <2>3. /\ files' \in Seq(Seq(Chunk)) /\ Len(files') = Len(files)
        /\ files[path] \in Seq(Chunk) /\ files'[path] = files[path] \o part
        /\ \A j \in 1..Len(files) : j # path => files'[j] = files[j]
    BY <2>1, <2>2, Writes
  <2>4. Range(files[path] \o part) = Range(files[path]) \cup Range(part)
    BY <2>2, <2>3, RangeConcatenation
  <2>5. \A j \in 1..Len(files) : Range(files[j]) \subseteq Range(files'[j])
    BY <2>3, <2>4
  <2> QED BY <2>3, <2>5, <1>1
<1>2. CASE ~(op[p].pc = "body" /\ path # 0)
  BY <1>2 DEF TypeInv
<1> QED
  BY <1>1, <1>2

LEMMA IoFailsKeeps ==
    ASSUME IInv, NEW p \in Process, IoFails(p)
    PROVE  IInv'
<1>1. /\ op[p].pc # "idle" /\ Fail(p)
      /\ IF op[p].pc = "body" /\ path # 0
         THEN \E part \in {<< >>, <<Torn>>} : Written(path, part)
         ELSE UNCHANGED files
      /\ cut' = (cut \/ op[p].pc \in {"body", "newline"})
      /\ trouble' = trouble \cup {"io"}
      /\ UNCHANGED <<path, rotated, next, saves, crashes, acked>>
  BY DEF IoFails
<1>2. /\ TypeInv /\ op[p] \in OpType /\ session[p].open
      /\ "shared" \notin trouble => Safe /\ Legible /\ UnderWay(p)
  BY <1>1, AtWork
<1>3. /\ op' \in [Process -> OpType] /\ op'[p] = Idle /\ Idle.pc = "idle"
      /\ Idle.record = Meta
      /\ session' \in [Process -> SessionType] /\ session'[p].open
      /\ \A q \in Process : q # p => op'[q] = op[q] /\ session'[q] = session[q]
      /\ "shared" \notin trouble => acked \subseteq Known(session'[p])
  BY <1>1, FailIs
<1>4. /\ files' \in Seq(Seq(Chunk)) /\ Len(files') = Len(files)
      /\ \A j \in 1..Len(files) : Range(files[j]) \subseteq Range(files'[j])
      /\ op[p].pc # "body" => files' = files
  BY <1>1, <1>2, CutOffIs
<1>5. TypeInv'
  <2>1. \A q \in Process : /\ op'[q].record # Meta => op'[q].record.id \in 1..(next - 1)
                           /\ op'[q].pc = "newline" => op'[q].inode \in 1..Len(files)
    BY <1>2, <1>3 DEF TypeInv
  <2>2. cut' \in BOOLEAN /\ trouble' \subseteq {"io", "shared"}
    BY <1>1, <1>2 DEF TypeInv
  <2> QED BY <2>1, <2>2, <1>1, <1>2, <1>3, <1>4 DEF TypeInv
<1>6. ASSUME "shared" \notin trouble' PROVE Safe' /\ Legible' /\ UnderWay(p)'
  <2>1. "shared" \notin trouble /\ Safe /\ Legible /\ UnderWay(p)
    BY <1>1, <1>2, <1>6
  <2>2. Safe'
    <3>1. \A q \in Process : session'[q].open => acked \subseteq Known(session'[q])
      BY <1>3, <2>1 DEF Safe
    <3>a. path # 0 => path \in 1..Len(files)
      BY <1>2 DEF TypeInv
    <3>2. path # 0 => acked \subseteq Range(files'[path])
      BY <3>a, <1>4, <2>1 DEF Safe
    <3>3. ASSUME path = 0, acked # {}
          PROVE  rotated # << >> /\ acked \subseteq Range(files'[Last(rotated)])
      <4>1. rotated # << >> /\ acked \subseteq Range(files[Last(rotated)])
        BY <2>1, <3>3 DEF Safe
      <4>2. Last(rotated) \in 1..Len(files)
        <5> DEFINE S == 1..Len(files)
        <5>1. rotated \in Seq(S)
          BY <1>2 DEF TypeInv
        <5> HIDE DEF S
        <5>2. Last(rotated) \in S
          BY <5>1, <4>1, FrontAndLast
        <5> QED BY <5>2 DEF S
      <4> QED BY <4>1, <4>2, <1>4
    <3> QED BY <3>1, <3>2, <3>3, <1>1 DEF Safe
  <2>3. Legible'
    <3> SUFFICES ASSUME path # 0, ~cut' PROVE Readable(files'[path]) /\ EndsALine(files'[path])
      BY <1>1 DEF Legible
    <3>1. ~cut /\ op[p].pc # "body" /\ op[p].pc # "newline" /\ files' = files
      BY <1>1, <1>4
    <3>2. \A q \in Process : op[q].pc # "newline"
      BY <3>1, <1>2, <1>6, <1>1 DEF IInv, OneOpen, ClosedIsIdle, Idle
    <3> QED BY <3>1, <3>2, <2>1 DEF Legible
  <2>4. UnderWay(p)'
    BY <1>3 DEF UnderWay
  <2> QED BY <2>2, <2>3, <2>4
<1>7. trouble' # {} /\ trouble \subseteq trouble'
  BY <1>1
<1> QED
  BY <1>2, <1>3, <1>5, <1>6, <1>7, EnoughForOne

LEMMA CrashKeeps ==
    ASSUME Bounds, IInv, NEW p \in Process, Crash(p)
    PROVE  IInv'
<1>1. /\ session[p].open /\ crashes < MaxCrashes
      /\ session' = [session EXCEPT ![p] = NoSession] /\ Finish(p)
      /\ IF op[p].pc = "body" /\ path # 0
         THEN \E part \in {<< >>, <<Torn>>} : Written(path, part)
         ELSE UNCHANGED files
      /\ cut' = (cut \/ op[p].pc \in {"body", "newline"})
      /\ crashes' = crashes + 1
      /\ UNCHANGED <<path, rotated, next, saves, trouble, acked>>
  BY DEF Crash
<1>2. /\ TypeInv
      /\ "shared" \notin trouble => Safe /\ Legible
  BY DEF IInv
<1>3. /\ op' \in [Process -> OpType] /\ op'[p] = Idle /\ Idle.pc = "idle"
      /\ Idle.record = Meta /\ \A q \in Process : q # p => op'[q] = op[q]
  BY <1>1, <1>2, FinishIs DEF TypeInv
<1>4. /\ session' \in [Process -> SessionType] /\ ~session'[p].open
      /\ \A q \in Process : q # p => session'[q] = session[q]
  <2>1. NoSession \in SessionType /\ ~NoSession.open
    BY DEF NoSession, SessionType
  <2> QED BY <2>1, <1>1, <1>2 DEF TypeInv
<1>5. /\ files' \in Seq(Seq(Chunk)) /\ Len(files') = Len(files)
      /\ \A j \in 1..Len(files) : Range(files[j]) \subseteq Range(files'[j])
      /\ op[p].pc # "body" => files' = files
  BY <1>1, <1>2, CutOffIs
<1>6. TypeInv'
  <2>1. \A q \in Process : /\ op'[q].record # Meta => op'[q].record.id \in 1..(next - 1)
                           /\ op'[q].pc = "newline" => op'[q].inode \in 1..Len(files)
    BY <1>2, <1>3 DEF TypeInv
  <2>2. cut' \in BOOLEAN /\ crashes' \in 0..MaxCrashes
    BY <1>1, <1>2 DEF TypeInv, Bounds
  <2> QED BY <2>1, <2>2, <1>1, <1>2, <1>3, <1>4, <1>5 DEF TypeInv
<1>7. ASSUME "shared" \notin trouble PROVE Safe' /\ Legible' /\ UnderWay(p)'
  <2>1. Safe /\ Legible
    BY <1>2, <1>7
  <2>2. Safe'
    <3>1. \A q \in Process : session'[q].open => acked \subseteq Known(session'[q])
      BY <1>4, <2>1 DEF Safe
    <3>a. path # 0 => path \in 1..Len(files)
      BY <1>2 DEF TypeInv
    <3>2. path # 0 => acked \subseteq Range(files'[path])
      BY <3>a, <1>5, <2>1 DEF Safe
    <3>3. ASSUME path = 0, acked # {}
          PROVE  rotated # << >> /\ acked \subseteq Range(files'[Last(rotated)])
      <4>1. rotated # << >> /\ acked \subseteq Range(files[Last(rotated)])
        BY <2>1, <3>3 DEF Safe
      <4>2. Last(rotated) \in 1..Len(files)
        <5> DEFINE S == 1..Len(files)
        <5>1. rotated \in Seq(S)
          BY <1>2 DEF TypeInv
        <5> HIDE DEF S
        <5>2. Last(rotated) \in S
          BY <5>1, <4>1, FrontAndLast
        <5> QED BY <5>2 DEF S
      <4> QED BY <4>1, <4>2, <1>5
    <3> QED BY <3>1, <3>2, <3>3, <1>1 DEF Safe
  <2>3. Legible'
    <3> SUFFICES ASSUME path # 0, ~cut' PROVE Readable(files'[path]) /\ EndsALine(files'[path])
      BY <1>1 DEF Legible
    <3>1. ~cut /\ op[p].pc # "body" /\ op[p].pc # "newline" /\ files' = files
      BY <1>1, <1>5
    <3>2. \A q \in Process : op[q].pc # "newline"
      BY <3>1, <1>7, <1>1 DEF IInv, OneOpen, ClosedIsIdle, Idle
    <3> QED BY <3>1, <3>2, <2>1 DEF Legible
  <2>4. UnderWay(p)'
    BY <1>3 DEF UnderWay
  <2> QED BY <2>2, <2>3, <2>4
<1>8. Mirrored(p)'
  BY <1>4 DEF Mirrored
<1> QED
  BY <1>1, <1>2, <1>3, <1>4, <1>6, <1>7, <1>8, EnoughForOne

\* Whoever opens the file knows what it says.
LEMMA LoadFromPathKeeps ==
    ASSUME IInv, NEW p \in Process, LoadFromPath(p)
    PROVE  IInv'
<1> DEFINE new == Parse(files[path])
           content == files[path]
<1>1. /\ ~session[p].open /\ path # 0 /\ session' = [session EXCEPT ![p] = new]
      /\ trouble' = IF \E q \in Process : session[q].open THEN trouble \cup {"shared"} ELSE trouble
      /\ UNCHANGED <<disk, op, next, saves, crashes, cut, acked>>
  BY DEF LoadFromPath
<1>2. /\ TypeInv /\ op[p] = Idle /\ Idle.pc = "idle" /\ content \in Seq(Chunk)
  BY <1>1 DEF IInv, ClosedIsIdle, Idle, TypeInv
<1>3. /\ RecordsOf(content, "message") \in Seq(Message)
      /\ RecordsOf(content, "prompt") \in Seq(Prompt)
      /\ Range(RecordsOf(content, "message")) = {c \in Range(content) : c.kind = "message"}
      /\ Range(RecordsOf(content, "prompt")) = {c \in Range(content) : c.kind = "prompt"}
  BY <1>2, RecordsOfType, RecordsAreChunks
<1>4. /\ new \in SessionType /\ new.open
      /\ new.messages = RecordsOf(content, "message")
      /\ new.prompts = RecordsOf(content, "prompt")
  <2> DEFINE compactions == RecordsOf(content, "compaction")
             count == IF compactions = << >> THEN 0 ELSE Last(compactions).id
  <2>1. compactions \in Seq(OfKind("compaction"))
    BY <1>2, RecordsOfType
  <2> HIDE DEF compactions
  <2>2. compactions # << >> => Last(compactions) \in OfKind("compaction")
    BY <2>1, FrontAndLast
  <2>3. count \in Nat
    BY <2>2 DEF OfKind, Chunk
  <2>4. new = [open |-> TRUE, messages |-> RecordsOf(content, "message"),
               prompts |-> RecordsOf(content, "prompt"), compactions |-> count]
    BY DEF Parse, compactions
  <2> HIDE DEF count, new, content
  <2> QED BY <1>3, <2>3, <2>4 DEF SessionType
<1> HIDE DEF new
<1>5. /\ session' \in [Process -> SessionType] /\ session'[p] = new
      /\ \A q \in Process : q # p => session'[q] = session[q]
  BY <1>1, <1>2, <1>4 DEF TypeInv
<1>6. TypeInv'
  <2>1. trouble' \subseteq {"io", "shared"}
    BY <1>1, <1>2 DEF TypeInv
  <2> QED BY <2>1, <1>1, <1>2, <1>5 DEF TypeInv, disk
<1>7. ASSUME "shared" \notin trouble' PROVE Safe' /\ Legible' /\ UnderWay(p)'
  <2>1. "shared" \notin trouble /\ \A q \in Process : ~session[q].open
    BY <1>1, <1>7
  <2>2. Safe /\ Legible
    BY <2>1 DEF IInv
  <2>3. acked \subseteq Range(content) /\ acked \subseteq Message \cup Prompt
    BY <2>2, <1>1, <1>2 DEF Safe, TypeInv
  <2>4. acked \subseteq Known(new)
    <3>1. \A c \in acked : c \in Range(content) /\ c.kind \in {"message", "prompt"}
      BY <2>3 DEF Message, Prompt
    <3> HIDE DEF content
    <3> QED BY <3>1, <1>3, <1>4 DEF Known
  <2>5. Safe'
    <3>1. \A q \in Process : session'[q].open => acked \subseteq Known(session'[q])
      BY <1>5, <2>1, <2>4
    <3> QED BY <3>1, <2>2, <1>1 DEF Safe, disk
  <2>6. Legible' /\ UnderWay(p)'
    BY <2>2, <1>1, <1>2 DEF Legible, UnderWay, disk
  <2> QED BY <2>5, <2>6
<1>8. Mirrored(p)'
  <2>1. IsSuffix(WithoutSummary(new.messages), new.messages)
    BY <1>3, <1>4, WithoutSummaryIs
  <2>2. Holds(content, new.prompts, new.messages)
    BY <2>1, <1>4 DEF Holds
  <2> QED BY <2>2, <1>1, <1>2, <1>5 DEF Mirrored, disk
<1>9. "shared" \notin trouble' => \A q \in Process : ~session[q].open
  BY <1>1
<1> QED
  BY <1>1, <1>2, <1>5, <1>6, <1>7, <1>8, <1>9, EnoughForOne

----------------------------------------------------------------------------
(* The theorems *)

LEMMA InitHolds ==
    ASSUME Bounds, Init
    PROVE  IInv
<1>1. PICK first \in Process :
          session = [p \in Process |->
                        IF p = first THEN [NoSession EXCEPT !.open = TRUE] ELSE NoSession]
  BY DEF Init
<1> DEFINE new == [NoSession EXCEPT !.open = TRUE]
<1>2. /\ NoSession \in SessionType /\ ~NoSession.open
      /\ new \in SessionType /\ new.open /\ new.messages = << >> /\ new.prompts = << >>
      /\ Snapshot(NoSession) = Snapshot(new)
  <2>1. /\ NoSession \in SessionType /\ ~NoSession.open
        /\ NoSession.messages = << >> /\ NoSession.prompts = << >>
        /\ NoSession.compactions = 0
    BY DEF NoSession, SessionType
  <2>2. /\ new \in SessionType /\ new.open
        /\ new.messages = NoSession.messages /\ new.prompts = NoSession.prompts
        /\ new.compactions = NoSession.compactions
    BY <2>1 DEF SessionType
  <2> HIDE DEF new
  <2>3. Snapshot(NoSession) = Snapshot(new)
    BY <2>2 DEF Snapshot
  <2> QED BY <2>1, <2>2, <2>3
<1> DEFINE content == Snapshot(new)
<1>3. /\ content \in Seq(Chunk) /\ content # << >>
      /\ Readable(content) /\ EndsALine(content)
      /\ RecordsOf(content, "message") = << >>
      /\ RecordsOf(content, "prompt") = << >>
  <2> HIDE DEF new
  <2> QED BY <1>2, SnapshotIs
<1>4. files = <<content>> /\ path = 1 /\ rotated = << >> /\ op = [p \in Process |-> Idle]
      /\ next = 1 /\ saves = 0 /\ crashes = 0 /\ cut = FALSE /\ trouble = {} /\ acked = {}
  BY <1>2 DEF Init
<1> HIDE DEF content, new
<1>5. \A p \in Process : session[p] = IF p = first THEN new ELSE NoSession
  BY <1>1 DEF new
<1>6. Idle \in OpType /\ Idle.pc = "idle" /\ Idle.record = Meta
  BY DEF Idle, OpType
<1>7. files \in Seq(Seq(Chunk)) /\ Len(files) = 1 /\ files[path] = content
  BY <1>3, <1>4
<1>8. TypeInv
  <2>1. session \in [Process -> SessionType]
    BY <1>1, <1>2, <1>5
  <2>2. op \in [Process -> OpType]
    BY <1>4, <1>6
  <2>3. rotated \in Seq(1..Len(files)) /\ path \in 0..Len(files)
    BY <1>4, <1>7
  <2>4. saves \in 0..MaxSaves /\ crashes \in 0..MaxCrashes /\ next \in Nat \ {0}
    BY <1>4 DEF Bounds
  <2> QED BY <2>1, <2>2, <2>3, <2>4, <1>4, <1>6, <1>7 DEF TypeInv
<1>9. ClosedIsIdle
  BY <1>4 DEF ClosedIsIdle
<1>10. OneOpen
  BY <1>2, <1>5 DEF OneOpen
<1>11. Safe
  BY <1>4 DEF Safe
<1>12. Legible
  BY <1>3, <1>7 DEF Legible
<1>13. \A p \in Process : UnderWay(p)
  BY <1>4, <1>6 DEF UnderWay
<1>14. \A p \in Process : Mirrored(p)
  <2>1. IsSuffix(WithoutSummary(<< >>), << >>)
    <3>1. << >> \in Seq(Message)
      OBVIOUS
    <3> QED BY <3>1, WithoutSummaryIs
  <2>2. Holds(content, << >>, << >>)
    BY <2>1, <1>3 DEF Holds
  <2> QED BY <2>2, <1>2, <1>4, <1>5, <1>6, <1>7 DEF Mirrored
<1> QED
  BY <1>8, <1>9, <1>10, <1>11, <1>12, <1>13, <1>14 DEF IInv

LEMMA NextKeeps ==
    ASSUME Bounds, IInv, [Next]_vars
    PROVE  IInv'
<1>1. CASE Next
  <2>1. PICK p \in Process :
            \/ PushMessage(p) \/ PushPromptEntry(p) \/ RecordCompaction(p) \/ SaveToPath(p)
            \/ AppendBody(p) \/ AppendNewline(p) \/ AppendTargetGone(p)
            \/ Rotate(p) \/ WriteAtomic(p) \/ CleanupRotatedLogs(p)
            \/ IoFails(p) \/ Crash(p) \/ LoadFromPath(p)
    BY <1>1 DEF Next
  <2>2. CASE PushMessage(p) BY <2>2, PushMessageKeeps
  <2>3. CASE PushPromptEntry(p) BY <2>3, PushPromptEntryKeeps
  <2>4. CASE RecordCompaction(p) BY <2>4, RecordCompactionKeeps
  <2>5. CASE SaveToPath(p) BY <2>5, SaveToPathKeeps
  <2>6. CASE AppendBody(p) BY <2>6, AppendBodyKeeps
  <2>7. CASE AppendNewline(p) BY <2>7, AppendNewlineKeeps
  <2>8. CASE AppendTargetGone(p) BY <2>8, AppendTargetGoneKeeps
  <2>9. CASE Rotate(p) BY <2>9, RotateKeeps
  <2>10. CASE WriteAtomic(p) BY <2>10, WriteAtomicKeeps
  <2>11. CASE CleanupRotatedLogs(p) BY <2>11, CleanupRotatedLogsKeeps
  <2>12. CASE IoFails(p) BY <2>12, IoFailsKeeps
  <2>13. CASE Crash(p) BY <2>13, CrashKeeps
  <2>14. CASE LoadFromPath(p) BY <2>14, LoadFromPathKeeps
  <2> QED
    BY <2>1, <2>2, <2>3, <2>4, <2>5, <2>6, <2>7, <2>8, <2>9, <2>10, <2>11, <2>12, <2>13, <2>14
<1>2. CASE UNCHANGED vars
  BY <1>2 DEF vars, disk, IInv, TypeInv, ClosedIsIdle, OneOpen, Safe, Legible, UnderWay,
              Mirrored
<1> QED
  BY <1>1, <1>2

\* A push that returned Ok is not lost, whatever fails and whoever dies, as long
\* as one process has had the session.
LEMMA IInvAcknowledged == IInv => AcknowledgedSurvives
<1> SUFFICES ASSUME IInv, "shared" \notin trouble
             PROVE  /\ path # 0 => acked \subseteq Range(files[path])
                                   /\ (cut \/ Readable(files[path]))
                    /\ path = 0 /\ acked # {}
                         => rotated # << >> /\ acked \subseteq Range(files[Last(rotated)])
  BY DEF AcknowledgedSurvives
<1> QED
  BY DEF IInv, Safe, Legible

\* While nothing fails and one process has had the session, the file is what
\* that process remembers, between any two of its operations.
LEMMA IInvMirrors == IInv => FileMirrorsSession
BY DEF IInv, Mirrored, Holds, Ready, FileMirrorsSession

\* Every push that returned Ok survives, for any number of processes, records,
\* saves and crashes and any rotation limits.
THEOREM Survives == Bounds => (Spec => []AcknowledgedSurvives)
<1> SUFFICES ASSUME Bounds PROVE Spec => []AcknowledgedSurvives
  OBVIOUS
<1>1. Init => IInv
  BY InitHolds
<1>2. IInv /\ [Next]_vars => IInv'
  BY NextKeeps
<1> QED
  BY <1>1, <1>2, IInvAcknowledged, PTL DEF Spec

\* The file mirrors the session between two operations.
THEOREM Mirrors == Bounds => (Spec => []FileMirrorsSession)
<1> SUFFICES ASSUME Bounds PROVE Spec => []FileMirrorsSession
  OBVIOUS
<1>1. Init => IInv
  BY InitHolds
<1>2. IInv /\ [Next]_vars => IInv'
  BY NextKeeps
<1> QED
  BY <1>1, <1>2, IInvMirrors, PTL DEF Spec

----------------------------------------------------------------------------
(* The rotated copies *)

\* Those whose save may have made a copy and has not cleaned up yet.
Saving == {p \in Process : op[p].pc \in {"write", "cleanup"}}

LEMMA InitBounded ==
    ASSUME Bounds, IsFiniteSet(Process), Init
    PROVE  RotatedBounded
<1>1. Saving = {}
  BY DEF Init, Idle, Saving
<1>2. rotated = << >> /\ crashes = 0 /\ Len(<< >>) = 0
  BY DEF Init
<1>3. Cardinality(Saving) = 0
  BY <1>1, FS_EmptySet
<1> QED
  BY <1>2, <1>3 DEF Bounds, RotatedBounded, Saving

\* A save that has renamed the file, a clean-up and a death keep the account;
\* every other step leaves it alone.
LEMMA NextBounded ==
    ASSUME Bounds, IsFiniteSet(Process), IInv, RotatedBounded, [Next]_vars
    PROVE  RotatedBounded'
<1> SUFFICES ASSUME "io" \notin trouble'
             PROVE  Len(rotated') <= MaxRotatedFiles + crashes' + Cardinality(Saving')
  BY DEF RotatedBounded, Saving
<1>1. /\ IsFiniteSet(Saving) /\ IsFiniteSet(Saving')
      /\ Cardinality(Saving) \in Nat /\ Cardinality(Saving') \in Nat
  BY FS_Subset, FS_CardinalityType DEF Saving
<1>2. /\ op \in [Process -> OpType] /\ Len(rotated) \in Nat /\ crashes \in Nat
      /\ rotated \in Seq(1..Len(files)) /\ MaxRotatedFiles \in Nat
      /\ \A p \in Process : op[p] \in OpType
  BY DEF IInv, TypeInv, Bounds
<1>3. ASSUME "io" \notin trouble
      PROVE  Len(rotated) <= MaxRotatedFiles + crashes + Cardinality(Saving)
  BY <1>3 DEF RotatedBounded, Saving
<1>4. ASSUME UNCHANGED <<rotated, crashes>>, Saving' = Saving, trouble \subseteq trouble'
      PROVE  Len(rotated') <= MaxRotatedFiles + crashes' + Cardinality(Saving')
  BY <1>3, <1>4
<1>5. ASSUME NEW p \in Process, Rotate(p)
      PROVE  Len(rotated') <= MaxRotatedFiles + crashes' + Cardinality(Saving')
  <2>1. op[p].pc = "rotate" /\ Goto(p, "write") /\ UNCHANGED <<crashes, trouble>>
        /\ \/ rotated' = rotated
           \/ rotated' = Append(rotated, path) /\ path \in 1..Len(files)
    BY <1>5 DEF Rotate, IInv, TypeInv
  <2>2. op'[p].pc = "write" /\ \A q \in Process : q # p => op'[q] = op[q]
    BY <2>1, <1>2, GotoIs
  <2>3. p \notin Saving /\ Saving' = Saving \cup {p}
    BY <2>1, <2>2 DEF Saving
  <2>4. Cardinality(Saving') = Cardinality(Saving) + 1
    BY <2>3, <1>1, FS_AddElement
  <2>5. Len(rotated') <= Len(rotated) + 1
    BY <2>1, <1>2, AppendProperties
  <2>6. Len(rotated') \in Nat
    BY <2>1, <1>2, AppendProperties
  <2> QED BY <1>1, <1>2, <1>3, <2>1, <2>4, <2>5, <2>6
<1>6. ASSUME NEW p \in Process, WriteAtomic(p)
      PROVE  Len(rotated') <= MaxRotatedFiles + crashes' + Cardinality(Saving')
  <2>1. op[p].pc = "write" /\ Goto(p, "cleanup") /\ UNCHANGED <<rotated, crashes, trouble>>
    BY <1>6 DEF WriteAtomic
  <2>2. op'[p].pc = "cleanup" /\ \A q \in Process : q # p => op'[q] = op[q]
    BY <2>1, <1>2, GotoIs
  <2>3. Saving' = Saving
    BY <2>1, <2>2 DEF Saving
  <2> QED BY <2>1, <2>3, <1>4
<1>7. ASSUME NEW p \in Process, CleanupRotatedLogs(p)
      PROVE  Len(rotated') <= MaxRotatedFiles + crashes' + Cardinality(Saving')
  <2> DEFINE extra == IF Len(rotated) > MaxRotatedFiles THEN Len(rotated) - MaxRotatedFiles ELSE 0
             S == 1..Len(files)
  <2>1. rotated' = SubSeq(rotated, extra + 1, Len(rotated)) /\ UNCHANGED crashes
    BY <1>7 DEF CleanupRotatedLogs
  <2>2. extra \in Nat /\ Len(rotated) - extra <= MaxRotatedFiles /\ extra <= Len(rotated)
    BY <1>2
  <2>3. \A i \in (extra + 1)..Len(rotated) : rotated[i] \in S
    BY <1>2, <2>2
  <2> HIDE DEF extra, S
  <2>4. Len(rotated') = IF extra + 1 <= Len(rotated) THEN Len(rotated) - (extra + 1) + 1 ELSE 0
    BY <2>1, <2>2, <2>3, <1>2, SubSeqProperties
  <2> QED BY <2>1, <2>2, <2>4, <1>1, <1>2
<1>8. ASSUME NEW p \in Process, Crash(p)
      PROVE  Len(rotated') <= MaxRotatedFiles + crashes' + Cardinality(Saving')
  <2>1. Finish(p) /\ UNCHANGED <<rotated, trouble>> /\ crashes' = crashes + 1
    BY <1>8 DEF Crash
  <2>2. op'[p].pc = "idle" /\ \A q \in Process : q # p => op'[q] = op[q]
    BY <2>1, <1>2, FinishIs
  <2>3. Saving' = Saving \ {p}
    BY <2>2 DEF Saving
  <2>4. Cardinality(Saving) <= Cardinality(Saving') + 1
    BY <2>3, <1>1, FS_RemoveElement
  <2> QED BY <1>1, <1>2, <1>3, <2>1, <2>4
<1>9. ASSUME NEW p \in Process,
             \/ PushMessage(p) \/ PushPromptEntry(p) \/ RecordCompaction(p) \/ SaveToPath(p)
             \/ AppendBody(p) \/ AppendNewline(p) \/ AppendTargetGone(p) \/ LoadFromPath(p)
      PROVE  Len(rotated') <= MaxRotatedFiles + crashes' + Cardinality(Saving')
  <2>1. UNCHANGED <<rotated, crashes>> /\ trouble \subseteq trouble'
    BY <1>9 DEF PushMessage, PushPromptEntry, StartAppend, RecordCompaction, SaveToPath,
                AppendBody, AppendNewline, AppendTargetGone, LoadFromPath, disk
  <2>2. \A q \in Process : q # p => op'[q] = op[q]
    BY <1>2, <1>9 DEF PushMessage, PushPromptEntry, StartAppend, RecordCompaction, SaveToPath,
                AppendBody, AppendNewline, AppendTargetGone, LoadFromPath, Fail, Finish
  <2>3. op[p].pc \notin {"write", "cleanup"} /\ op'[p].pc \notin {"write", "cleanup"}
    <3>1. CASE PushMessage(p) \/ PushPromptEntry(p) \/ SaveToPath(p)
      BY <1>2, <3>1 DEF PushMessage, PushPromptEntry, StartAppend, SaveToPath, Ready
    <3>2. CASE RecordCompaction(p)
      BY <3>2 DEF RecordCompaction, Ready
    <3>3. CASE LoadFromPath(p)
      BY <3>3 DEF LoadFromPath, IInv, ClosedIsIdle, Idle
    <3>4. CASE AppendBody(p)
      <4> DEFINE mid == [op[p] EXCEPT !.pc = "newline"]
      <4>1. mid.pc = "newline" /\ mid \in OpType
        BY <1>2 DEF OpType
      <4>2. op' = [op EXCEPT ![p] = [mid EXCEPT !.inode = path]] /\ op[p].pc = "body"
        BY <1>2, <3>4 DEF AppendBody
      <4> HIDE DEF mid
      <4>3. op'[p].pc = "newline"
        BY <1>2, <4>1, <4>2 DEF OpType
      <4> QED BY <4>2, <4>3
    <3>5. CASE AppendNewline(p) \/ AppendTargetGone(p)
      BY <1>2, <3>5, FinishIs DEF AppendNewline, AppendTargetGone, Fail
    <3> QED BY <1>9, <3>1, <3>2, <3>3, <3>4, <3>5
  <2>4. Saving' = Saving
    BY <2>2, <2>3 DEF Saving
  <2> QED BY <2>1, <2>4, <1>4
<1>10. ASSUME NEW p \in Process, IoFails(p) PROVE FALSE
  BY <1>10 DEF IoFails
<1>11. CASE UNCHANGED vars
  BY <1>4, <1>11 DEF vars, disk, Saving
<1> QED
  BY <1>5, <1>6, <1>7, <1>8, <1>9, <1>10, <1>11 DEF Next

\* However many processes save one session at once: a rotated copy too many is
\* one that a save still running, or one that died, has not cleaned up, as long
\* as the file system has not failed.
THEOREM RotationsAreBounded ==
    Bounds /\ IsFiniteSet(Process) => (Spec => []RotatedBounded)
<1> SUFFICES ASSUME Bounds, IsFiniteSet(Process) PROVE Spec => []RotatedBounded
  OBVIOUS
<1>1. Init => IInv /\ RotatedBounded
  BY InitHolds, InitBounded
<1>2. IInv /\ RotatedBounded /\ [Next]_vars => (IInv /\ RotatedBounded)'
  BY NextKeeps, NextBounded
<1> QED
  BY <1>1, <1>2, PTL DEF Spec

=============================================================================
