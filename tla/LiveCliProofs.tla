---------------------------- MODULE LiveCliProofs ----------------------------
(***************************************************************************)
(* Theorems about the interactive program, as MCLiveCli puts its parts     *)
(* side by side.                                                           *)
(*                                                                         *)
(*   I    Runtimes, for any enabled plugins in any order and any number of *)
(*        retries.  The invariant says of every runtime that can still be  *)
(*        reached whether its Shutdown commands have run.                  *)
(*   II   LiveCli, for any tools, provider and bounds.  What a compaction  *)
(*        makes of a transcript matters only as far as it is a transcript. *)
(*   III  Interception, for any files and any calls, faults and edits of   *)
(*        the user.  The invariant says what the log is able to undo.      *)
(***************************************************************************)
EXTENDS MCLiveCli, SequenceTheorems, FiniteSetTheorems, WellFoundedInduction, TLAPS

----------------------------------------------------------------------------
(* I. The runtimes                                                          *)

\* As long as no Shutdown command has failed, they have run exactly if the
\* plugins are no longer active.
Good(rt) == ~rt.failed => \A p \in Plugin : rt.stops[p] = IF rt.active THEN 0 ELSE 1

Up(rt) == rt.active /\ rt.servers /\ Good(rt)

Reachable ==
    /\ pc \notin {"start", "exited"} => Up(current)
    /\ pc \in {"turn", "internal", "retrying", "rebuild"} => Good(turn)
    /\ pc \in {"turn", "internal"} => Up(turn)
    /\ pc = "retrying" => Up(retry)
    /\ pc \in {"start", "prompt"} => turn = NoRuntime /\ retry = NoRuntime

IInv == TypeOK /\ PluginsStopOnce /\ Reachable

----------------------------------------------------------------------------
LEMMA BuiltIsUp == Built \in Runtime /\ Up(Built) /\ NoRuntime \in Runtime
<1>1. Built \in Runtime
  BY DEF Built, Runtime
<1>2. NoRuntime \in Runtime
  BY <1>1 DEF NoRuntime, Runtime
<1>3. Up(Built)
  BY DEF Built, Up, Good
<1> QED
  BY <1>1, <1>2, <1>3

\* What Stop leaves, member by member.
LEMMA StopRuns ==
  ASSUME NEW rt \in Runtime, NEW plugins
  PROVE  /\ Stop(rt, plugins) \in Runtime
         /\ Stop(rt, plugins).active = rt.active
         /\ Stop(rt, plugins).servers = rt.servers
         /\ Stop(rt, plugins).failed = rt.failed
         /\ \A p \in Plugin : Stop(rt, plugins).stops[p] =
               IF p \in plugins /\ rt.stops[p] < 2 THEN rt.stops[p] + 1 ELSE rt.stops[p]
<1>1. rt.stops \in [Plugin -> 0..2]
  BY DEF Runtime
<1>2. [p \in Plugin |-> IF p \in plugins /\ rt.stops[p] < 2
                        THEN rt.stops[p] + 1 ELSE rt.stops[p]] \in [Plugin -> 0..2]
  BY <1>1
<1> QED
  BY <1>1, <1>2 DEF Stop, Runtime

\* shutdown_plugins keeps a good runtime good; it clears the flag or fails.
LEMMA ShutdownIsGood ==
  ASSUME NEW rt \in Runtime, Good(rt), NEW after \in ShutdownPlugins(rt)
  PROVE  /\ after \in Runtime /\ Good(after) /\ after.servers = rt.servers
         /\ after.active => after.failed /\ rt.active
<1>1. CASE ~rt.active
  BY <1>1 DEF ShutdownPlugins
<1>2. CASE rt.active
  <2>1. CASE after = [Stop(rt, Plugin) EXCEPT !.active = FALSE]
    <3>1. /\ after \in Runtime /\ after.active = FALSE /\ after.servers = rt.servers
          /\ after.failed = rt.failed /\ after.stops = Stop(rt, Plugin).stops
      BY <2>1, StopRuns DEF Runtime
    <3>2. ASSUME ~after.failed, NEW p \in Plugin PROVE after.stops[p] = 1
      <4>1. rt.stops[p] = 0
        BY <1>2, <3>1, <3>2 DEF Good
      <4> QED
        BY <3>1, <4>1, StopRuns
    <3> QED
      BY <3>1, <3>2 DEF Good
  <2>2. CASE after \in StopsCut(rt)
    <3>1. PICK p \in Plugin : after = [Stop(rt, After[p]) EXCEPT !.failed = TRUE]
      BY <2>2 DEF StopsCut
    <3>2. /\ Stop(rt, After[p]) \in Runtime /\ Stop(rt, After[p]).active = rt.active
          /\ Stop(rt, After[p]).servers = rt.servers
      BY StopRuns
    <3>3. /\ after \in Runtime /\ after.failed = TRUE
          /\ after.active = rt.active /\ after.servers = rt.servers
      BY <3>1, <3>2 DEF Runtime
    <3> QED
      BY <1>2, <3>3 DEF Good
  <2> QED
    BY <1>2, <2>1, <2>2 DEF ShutdownPlugins
<1> QED
  BY <1>1, <1>2 DEF Runtime

StoppedOnce(rt) == ~rt.failed => \A p \in Plugin : rt.stops[p] = 1

\* Dropping a good runtime leaves one that has run each Shutdown command once,
\* unless one of them failed.
LEMMA DropStops ==
  ASSUME NEW rt \in Runtime, Good(rt), NEW gone \in Drop(rt)
  PROVE  gone \in Runtime /\ StoppedOnce(gone)
<1>1. PICK after \in ShutdownPlugins(rt) : gone = [after EXCEPT !.servers = FALSE]
  BY DEF Drop
<1>2. after \in Runtime /\ Good(after) /\ (after.active => after.failed)
  BY ShutdownIsGood
<1>3. /\ gone \in Runtime /\ gone.stops = after.stops /\ gone.failed = after.failed
  BY <1>1, <1>2 DEF Runtime
<1> QED
  BY <1>2, <1>3 DEF Good, StoppedOnce

\* What replace_runtime keeps is up, what it drops is good.
LEMMA ReplaceKeepsOneUp ==
  ASSUME NEW rt \in Runtime, Up(rt), current \in Runtime, Up(current),
         NEW r \in Replace(rt)
  PROVE  r.current \in Runtime /\ Up(r.current) /\ r.dropped \in Runtime /\ Good(r.dropped)
<1>1. PICK after \in ShutdownPlugins(current) :
         r = IF after.active THEN [current |-> after, dropped |-> rt]
             ELSE [current |-> rt, dropped |-> after]
  BY DEF Replace
<1>2. after \in Runtime /\ Good(after) /\ after.servers
  BY ShutdownIsGood DEF Up
<1> QED
  BY <1>1, <1>2 DEF Up

LEMMA Drop1Stops ==
  ASSUME NEW rt \in Runtime, Good(rt), NEW set \in Drop1(rt)
  PROVE  \A gone \in set : gone \in Runtime /\ StoppedOnce(gone)
  BY DropStops DEF Drop1

LEMMA Drop2Stops ==
  ASSUME NEW r1 \in Runtime, Good(r1), NEW r2 \in Runtime, Good(r2),
         NEW set \in Drop2(r1, r2)
  PROVE  \A gone \in set : gone \in Runtime /\ StoppedOnce(gone)
  BY DropStops DEF Drop2

\* A state with one runtime at the prompt.
LEMMA AtThePrompt ==
  ASSUME Return, current' \in Runtime, Up(current'),
         \A gone \in dropped' : gone \in Runtime /\ StoppedOnce(gone)
  PROVE  IInv'
  BY BuiltIsUp DEF Return, IInv, TypeOK, PluginsStopOnce, StoppedOnce, Reachable

----------------------------------------------------------------------------
LEMMA Initially == Init => IInv
  BY BuiltIsUp DEF Init, IInv, TypeOK, PluginsStopOnce, Reachable

LEMMA Inductive == IInv /\ [Next]_vars => IInv'
<1> SUFFICES ASSUME IInv, [Next]_vars PROVE IInv'
  OBVIOUS
<1> USE BuiltIsUp
<1>t. TypeOK /\ Reachable /\ PluginsStopOnce
  BY DEF IInv
<1>r. {current, turn, retry} \subseteq Runtime /\ dropped \subseteq Runtime /\ round \in Nat
  BY <1>t DEF TypeOK
<1>d. \A gone \in dropped : gone \in Runtime /\ StoppedOnce(gone)
  BY <1>t, <1>r DEF PluginsStopOnce, StoppedOnce
<1>1. CASE StartProgram
  <2>1. TypeOK' /\ PluginsStopOnce'
    BY <1>1, <1>r, <1>t DEF StartProgram, NothingDropped, TypeOK, PluginsStopOnce
  <2>2. Reachable'
    BY <1>1, <1>t DEF StartProgram, NothingDropped, Reachable
  <2> QED
    BY <2>1, <2>2 DEF IInv
<1>2. CASE BuildFails
  <2>1. CASE pc = "start"
    BY <1>2, <2>1, <1>r, <1>t DEF BuildFails, IInv, TypeOK, PluginsStopOnce, Reachable
  <2>2. CASE pc # "start"
    <3>1. Return /\ current' = current /\ Up(current)
      BY <1>2, <2>2, <1>t DEF BuildFails, Reachable
    <3>2. \A gone \in dropped' : gone \in Runtime /\ StoppedOnce(gone)
      <4>1. CASE pc = "rebuild"
        <5>1. Good(turn) /\ dropped' \in Drop1(turn)
          BY <1>2, <2>2, <4>1, <1>t DEF BuildFails, Reachable
        <5> QED
          BY <5>1, <1>r, Drop1Stops
      <4>2. CASE pc # "rebuild"
        BY <1>2, <2>2, <4>2 DEF BuildFails
      <4> QED
        BY <4>1, <4>2
    <3> QED
      BY <3>1, <3>2, <1>r, AtThePrompt
  <2> QED
    BY <2>1, <2>2
<1>3. CASE SwitchRuntime
  <2>1. PICK r \in Replace(Built) : current' = r.current /\ dropped' \in Drop1(r.dropped)
    BY <1>3 DEF SwitchRuntime
  <2>2. /\ r.current \in Runtime /\ Up(r.current)
        /\ r.dropped \in Runtime /\ Good(r.dropped)
    BY <1>3, <1>r, <1>t, ReplaceKeepsOneUp DEF SwitchRuntime, Reachable
  <2>3. \A gone \in dropped' : gone \in Runtime /\ StoppedOnce(gone)
    BY <2>1, <2>2, Drop1Stops
  <2> QED
    BY <1>3, <2>1, <2>2, <2>3, <1>r, <1>t
       DEF SwitchRuntime, IInv, TypeOK, PluginsStopOnce, StoppedOnce, Reachable
<1>4. CASE BeginTurn
  BY <1>4, <1>r, <1>t DEF BeginTurn, NothingDropped, IInv, TypeOK, PluginsStopOnce,
                          Reachable, Up
<1>5. CASE TurnSucceeds
  <2>1. PICK r \in Replace(turn) : current' = r.current /\ dropped' \in Drop1(r.dropped)
    BY <1>5 DEF TurnSucceeds
  <2>2. /\ r.current \in Runtime /\ Up(r.current)
        /\ r.dropped \in Runtime /\ Good(r.dropped)
    BY <1>5, <1>r, <1>t, ReplaceKeepsOneUp DEF TurnSucceeds, Reachable
  <2>3. \A gone \in dropped' : gone \in Runtime /\ StoppedOnce(gone)
    BY <2>1, <2>2, Drop1Stops
  <2> QED
    BY <1>5, <2>1, <2>2, <2>3, AtThePrompt DEF TurnSucceeds
<1>6. CASE TurnFails
  <2>0. Up(current) /\ Good(turn) /\ current' = current
    BY <1>6, <1>t DEF TurnFails, Reachable
  <2>1. PICK after \in ShutdownPlugins(turn) :
          \/ Return /\ dropped' \in Drop1(after)
          \/ /\ ~after.active
             /\ turn' = after /\ pc' = "rebuild" /\ dropped' = {}
             /\ UNCHANGED <<retry, round>>
    BY <1>6 DEF TurnFails
  <2>2. after \in Runtime /\ Good(after)
    BY <2>0, <1>r, ShutdownIsGood
  <2>3. CASE Return /\ dropped' \in Drop1(after)
    BY <2>0, <2>2, <2>3, <1>r, Drop1Stops, AtThePrompt
  <2>4. CASE /\ turn' = after /\ pc' = "rebuild" /\ dropped' = {}
             /\ UNCHANGED <<retry, round>>
    BY <2>0, <2>2, <2>4, <1>r DEF IInv, TypeOK, PluginsStopOnce, Reachable
  <2> QED
    BY <2>1, <2>3, <2>4
<1>7. CASE GiveUp
  <2>1. Up(current) /\ current' = current /\ Good(turn) /\ dropped' \in Drop1(turn) /\ Return
    BY <1>7, <1>t DEF GiveUp, Reachable
  <2> QED
    BY <2>1, <1>r, Drop1Stops, AtThePrompt
<1>8. CASE BuildRetry
  BY <1>8, <1>r, <1>t DEF BuildRetry, NothingDropped, IInv, TypeOK, PluginsStopOnce,
                          Reachable
<1>9. CASE RetrySucceeds
  <2>1. PICK r \in Replace(retry) :
          current' = r.current /\ dropped' \in Drop2(r.dropped, turn)
    BY <1>9 DEF RetrySucceeds
  <2>2. Up(retry) /\ Up(current) /\ Good(turn) /\ Return
    BY <1>9, <1>t DEF RetrySucceeds, Reachable
  <2>3. /\ r.current \in Runtime /\ Up(r.current)
        /\ r.dropped \in Runtime /\ Good(r.dropped)
    BY <2>2, <1>r, ReplaceKeepsOneUp
  <2>4. \A gone \in dropped' : gone \in Runtime /\ StoppedOnce(gone)
    BY <2>1, <2>2, <2>3, <1>r, Drop2Stops
  <2> QED
    BY <2>1, <2>2, <2>3, <2>4, AtThePrompt
<1>10. CASE RetryFails
  <2>1. /\ Up(current) /\ current' = current /\ Good(turn) /\ Good(retry)
        /\ dropped' \in Drop2(retry, turn) /\ Return
    BY <1>10, <1>t DEF RetryFails, Reachable, Up
  <2> QED
    BY <2>1, <1>r, Drop2Stops, AtThePrompt
<1>11. CASE RetryAgain
  <2>0. Up(current) /\ Good(turn) /\ Up(retry) /\ Good(retry) /\ current' = current
    BY <1>11, <1>t DEF RetryAgain, Reachable, Up
  <2>1. PICK after \in ShutdownPlugins(turn) :
          IF after.active
          THEN Return /\ dropped' \in Drop2(retry, after)
          ELSE /\ dropped' \in Drop1(after)
               /\ turn' = retry /\ retry' = NoRuntime /\ pc' = "rebuild"
               /\ UNCHANGED round
    BY <1>11 DEF RetryAgain
  <2>2. after \in Runtime /\ Good(after)
    BY <2>0, <1>r, ShutdownIsGood
  <2>3. CASE after.active
    BY <2>0, <2>1, <2>2, <2>3, <1>r, Drop2Stops, AtThePrompt
  <2>4. CASE ~after.active
    <3>1. \A gone \in dropped' : gone \in Runtime /\ StoppedOnce(gone)
      BY <2>1, <2>2, <2>4, Drop1Stops
    <3> QED
      BY <2>0, <2>1, <2>4, <3>1, <1>r
         DEF IInv, TypeOK, PluginsStopOnce, StoppedOnce, Reachable
  <2> QED
    BY <2>3, <2>4
<1>12. CASE BeginInternal
  BY <1>12, <1>r, <1>t DEF BeginInternal, NothingDropped, IInv, TypeOK, PluginsStopOnce,
                           Reachable, Up
<1>13. CASE EndInternal
  <2>1. Up(current) /\ current' = current /\ Good(turn) /\ Return
    BY <1>13, <1>t DEF EndInternal, Reachable
  <2>2. PICK after \in {turn} \cup ShutdownPlugins(turn) : dropped' \in Drop1(after)
    BY <1>13 DEF EndInternal
  <2>3. after \in Runtime /\ Good(after)
    BY <2>1, <2>2, <1>r, ShutdownIsGood
  <2> QED
    BY <2>1, <2>2, <2>3, <1>r, Drop1Stops, AtThePrompt
<1>14. CASE Exit
  <2>1. Good(current) /\ dropped' \in Drop1(current)
    BY <1>14, <1>t DEF Exit, Reachable, Up
  <2>2. \A gone \in dropped' : gone \in Runtime /\ StoppedOnce(gone)
    BY <2>1, <1>r, Drop1Stops
  <2> QED
    BY <1>14, <2>2, <1>r DEF Exit, IInv, TypeOK, PluginsStopOnce, StoppedOnce, Reachable
<1>15. CASE UNCHANGED vars
  BY <1>15, <1>t, <1>r DEF vars, runtimeVars, IInv, TypeOK, PluginsStopOnce, Reachable,
                           Up, Good, NoRuntime
<1> QED
  BY <1>1, <1>2, <1>3, <1>4, <1>5, <1>6, <1>7, <1>8, <1>9, <1>10, <1>11, <1>12, <1>13,
     <1>14, <1>15 DEF Next

LEMMA Invariant == Spec => []IInv
<1> QED
  BY Initially, Inductive, PTL DEF Spec

----------------------------------------------------------------------------
\* Every reachable state of the runtimes is well typed.
THEOREM TypeCorrect == Spec => []TypeOK
<1>1. IInv => TypeOK
  BY DEF IInv
<1> QED
  BY <1>1, Invariant, PTL

\* However turns, retries and replacements end, and whichever Shutdown commands
\* fail: a runtime that goes away has run each of them once, unless one failed.
THEOREM ShutdownsRunOnce == Spec => []PluginsStopOnce
<1>1. IInv => PluginsStopOnce
  BY DEF IInv
<1> QED
  BY <1>1, Invariant, PTL

\* At the prompt there is one runtime, and it is up.
THEOREM OneIsUp == Spec => []OneRuntimeAtThePrompt
<1>1. IInv => OneRuntimeAtThePrompt
  BY DEF IInv, Reachable, Up, Good, OneRuntimeAtThePrompt
<1> QED
  BY <1>1, Invariant, PTL

----------------------------------------------------------------------------
(* II. The session and its file                                             *)

\* A transcript, whatever its messages.
IsSeq(s) == \E S : s \in Seq(S)

LEMMA EmptyIsSeq == IsSeq(<< >>)
<1>1. << >> \in Seq({})
  OBVIOUS
<1> QED
  BY <1>1 DEF IsSeq

LEMMA AppendIsSeq ==
    ASSUME NEW s, IsSeq(s), NEW e
    PROVE  /\ IsSeq(Append(s, e)) /\ Len(s) \in Nat /\ Len(Append(s, e)) = Len(s) + 1
           /\ SubSeq(Append(s, e), 1, Len(s)) = s
<1>1. PICK S : s \in Seq(S)
  BY DEF IsSeq
<1>2. s \in Seq(S \cup {e})
  BY <1>1
<1>3. Append(s, e) \in Seq(S \cup {e})
  BY <1>2
<1>4. Len(s) \in Nat /\ Len(Append(s, e)) = Len(s) + 1
  BY <1>2
<1>5. SubSeq(Append(s, e), 1, Len(s)) = s
  BY <1>2, AppendProperties
<1> QED
  BY <1>3, <1>4, <1>5 DEF IsSeq

LEMMA WholeIsItself ==
    ASSUME NEW s, IsSeq(s)
    PROVE  SubSeq(s, 1, Len(s)) = s
  BY DEF IsSeq

LEMMA TableIsSeq ==
    ASSUME NEW n \in Nat, NEW t, t = [k \in 1..n |-> t[k]]
    PROVE  IsSeq(t)
<1> DEFINE S == {t[k] : k \in 1..n}
<1>1. t \in [1..n -> S]
  OBVIOUS
<1>2. t \in Seq(S)
  BY <1>1, IsASeq
<1> QED
  BY <1>2 DEF IsSeq

\* A set of naturals that is not empty and has a bound has a greatest member.
LEMMA GreatestNatural ==
    ASSUME NEW n \in Nat, NEW T \in SUBSET (0..n), T # {}
    PROVE  \E k \in T : \A j \in T : j <= k
<1> DEFINE D == {n - k : k \in T}
           Less == OpToRel(<, Nat)
<1>1. D \in SUBSET Nat /\ D # {}
  <2>1. \A k \in T : k \in Nat /\ n - k \in Nat
    OBVIOUS
  <2> QED
    BY <2>1
<1>2. IsWellFoundedOn(Less, Nat)
  BY NatLessThanWellFounded
<1>3. \A y, x \in Nat : y < x => <<y, x>> \in Less
  BY DEF OpToRel
<1> HIDE DEF Less, D
<1>4. PICK x \in D : \A y \in D : ~ (<<y, x>> \in Less)
  BY <1>1, <1>2, WFMin
<1>5. \A y \in D : ~ (y < x)
  BY <1>1, <1>3, <1>4, Zenon
<1>6. PICK k \in T : x = n - k
  BY <1>4 DEF D
<1>7. \A j \in T : n - j \in D
  BY DEF D
<1> QED
  BY <1>5, <1>6, <1>7

\* compact_session makes a transcript of a transcript.
LEMMA CompactIsSeq ==
    ASSUME NEW s, IsSeq(s), NEW preserve \in Nat, NEW limit
    PROVE  IsSeq(Session!CompactSession(s, preserve, limit).messages)
<1> DEFINE raw == Session!RawKeepFrom(s, preserve)
           T == {k \in 0..raw : Session!SafeCut(s, k)}
           keep == Session!KeepFrom(s, preserve)
           summary == Session!SystemText(TRUE, 1)
<1>1. PICK S : s \in Seq(S)
  BY DEF IsSeq
<1>2. Len(s) \in Nat /\ raw \in Nat
  BY <1>1 DEF Session!RawKeepFrom
<1>3. Session!SafeCut(s, 0)
  BY DEF Session!SafeCut, Session!PrefixLen
<1>4. \E k \in T : \A j \in T : j <= k
  <2>1. T \in SUBSET (0..raw) /\ T # {}
    BY <1>2, <1>3
  <2> HIDE DEF T, raw
  <2> QED
    BY <1>2, <2>1, GreatestNatural
<1>5. \E k \in 0..raw : Session!SafeCut(s, k) /\ \A j \in (k + 1)..raw : ~Session!SafeCut(s, j)
  <2>1. PICK k \in T : \A j \in T : j <= k
    BY <1>4
  <2>2. \A j \in (k + 1)..raw : j \notin T
    BY <1>2, <2>1
  <2> HIDE DEF raw
  <2>3. \A j \in (k + 1)..raw : j \in 0..raw
    BY <1>2, <2>1
  <2> QED
    BY <2>1, <2>2, <2>3
<1>6. keep \in 0..raw
  <2> HIDE DEF raw
  <2>1. keep = CHOOSE k \in 0..raw : /\ Session!SafeCut(s, k)
                                     /\ \A j \in (k + 1)..raw : ~Session!SafeCut(s, j)
    BY DEF Session!KeepFrom, raw
  <2> QED
    BY <1>5, <2>1
<1>7. SubSeq(s, keep + 1, Len(s)) \in Seq(S)
  <2>1. keep \in Nat
    BY <1>2, <1>6
  <2> HIDE DEF keep
  <2>2. \A i \in (keep + 1)..Len(s) : s[i] \in S
    BY <1>1, <2>1
  <2> QED
    BY <1>1, <1>2, <2>1, <2>2, SubSeqProperties
<1>8. <<summary>> \o SubSeq(s, keep + 1, Len(s)) \in Seq(S \cup {summary})
  <2> HIDE DEF summary, keep
  <2>1. <<summary>> \in Seq(S \cup {summary}) /\ SubSeq(s, keep + 1, Len(s)) \in Seq(S \cup {summary})
    BY <1>7
  <2> QED
    BY <2>1
<1>9. Session!CompactSession(s, preserve, limit).messages
        \in {s, <<summary>> \o SubSeq(s, keep + 1, Len(s))}
  BY DEF Session!CompactSession
<1> QED
  BY <1>8, <1>9 DEF IsSeq

\* The instance counts as this module does.
LEMMA CountsAlike == \A S : Session!Cardinality(S) = Cardinality(S)
  BY DEF Session!Cardinality, Cardinality, Session!IsFiniteSet, IsFiniteSet

\* The three stages make a transcript of anything with a length.
LEMMA StagesAreSeq ==
    ASSUME NEW s, IsSeq(s)
    PROVE  IsSeq(Session!Stages(s).messages)
<1>1. ASSUME NEW t, NEW n \in Nat, DOMAIN t = 1..n, NEW positions
      PROVE  IsSeq(Session!Pick(t, positions))
  <2> DEFINE there == positions \cap DOMAIN t
  <2>1. Cardinality(there) \in Nat
    <3>1. IsFiniteSet(1..n)
      BY <1>1, FS_Interval
    <3>2. IsFiniteSet(there)
      BY <1>1, <3>1, FS_Subset
    <3> QED
      BY <3>2, FS_CardinalityType
  <2> DEFINE order == Session!InOrder(t, positions)
             picked == Session!Pick(t, positions)
  <2>2. Len(order) = Cardinality(there)
    <3> DEFINE nth(k) == CHOOSE i \in there : Session!Cardinality({j \in there : j <= i}) = k
    <3>1. order = [k \in 1..Session!Cardinality(there) |-> nth(k)]
      BY DEF Session!InOrder
    <3>2. Session!Cardinality(there) = Cardinality(there)
      BY CountsAlike
    <3> HIDE DEF nth, order, there
    <3> QED
      BY <2>1, <3>1, <3>2
  <2>3. picked = [k \in 1..Len(order) |-> t[order[k]]]
    BY DEF Session!Pick
  <2> HIDE DEF there, order, picked
  <2>4. IsSeq(picked)
    BY <2>1, <2>2, <2>3, TableIsSeq
  <2> QED
    BY <2>4 DEF picked
<1>2. ASSUME NEW t, IsSeq(t), NEW positions
      PROVE  IsSeq(Session!Pick(t, positions))
  <2>1. Len(t) \in Nat /\ DOMAIN t = 1..Len(t)
    BY <1>2 DEF IsSeq
  <2> QED
    BY <1>1, <2>1
<1>3. ASSUME NEW t, IsSeq(t), NEW positions, NEW marked
      PROVE  IsSeq(Session!PickMarked(t, positions, marked))
  <2> DEFINE u == [i \in DOMAIN t |-> IF i \in marked THEN Session!Marker ELSE t[i]]
  <2>1. Len(t) \in Nat /\ DOMAIN t = 1..Len(t)
    BY <1>3 DEF IsSeq
  <2>2. DOMAIN u = 1..Len(t)
    BY <2>1
  <2> HIDE DEF u
  <2>3. IsSeq(Session!Pick(u, positions))
    BY <1>1, <2>1, <2>2
  <2> QED
    BY <2>3 DEF Session!PickMarked, u
<1> DEFINE first == Session!Supersede(s).messages
           second == Session!Collapse(first).messages
<1>4. IsSeq(first)
  BY <1>2 DEF Session!Supersede
<1> HIDE DEF first
<1>5. IsSeq(second)
  BY <1>3, <1>4 DEF Session!Collapse
<1> HIDE DEF second
<1>6. IsSeq(Session!Cluster(second).messages)
  BY <1>3, <1>5 DEF Session!Cluster
<1> QED
  BY <1>6 DEF Session!Stages, first, second

LEMMA TridentIsSeq ==
    ASSUME NEW s, IsSeq(s), NEW preserve \in Nat, NEW limit
    PROVE  IsSeq(Session!TridentCompact(s, preserve, limit).messages)
  BY StagesAreSeq, CompactIsSeq DEF Session!TridentCompact

\* All four transcripts are transcripts, there are only so many retries, and at
\* the prompt the file holds the session.
SessionInv ==
    /\ IsSeq(main) /\ IsSeq(working) /\ IsSeq(file) /\ IsSeq(shrunk.messages)
    /\ tries \in 0..4
    /\ phase = "too_long" => tries < 4
    /\ FileHoldsTheSession

LEMMA SessionStarts == Session!Init => SessionInv
  BY EmptyIsSeq
     DEF Session!Init, SessionInv, Session!NotShrunk, FileHoldsTheSession,
         Session!FileHoldsTheSession

\* Where an error leaves the session.
LEMMA ExitKeeps ==
    ASSUME SessionInv, Session!Exit, file' \in {file, main}, tries' = tries
    PROVE  SessionInv'
  BY EmptyIsSeq DEF SessionInv, Session!Exit, Session!NotShrunk, FileHoldsTheSession,
                    Session!FileHoldsTheSession

\* A turn that begins, and what it begins with.
LEMMA BeginKeeps ==
    ASSUME SessionInv, NEW messages, IsSeq(messages), Session!Begin(messages),
           IsSeq(main'), IsSeq(shrunk.messages)', tries' \in 0..4
    PROVE  SessionInv'
  BY AppendIsSeq DEF SessionInv, Session!Begin, FileHoldsTheSession,
                     Session!FileHoldsTheSession

LEMMA CompactedOrNot ==
    ASSUME NEW messages, IsSeq(messages), NEW after \in Session!MayBeCompacted(messages)
    PROVE  IsSeq(after)
<1>1. Session!PreserveRecent \in Nat
  BY DEF Session!PreserveRecent
<1> QED
  BY <1>1, CompactIsSeq DEF Session!MayBeCompacted

LEMMA ProviderKeeps ==
    ASSUME SessionInv, Session!Provider
    PROVE  SessionInv'
<1>1. CASE Session!UseTool
  <2>1. PICK asked : /\ working' \in Session!MayBeCompacted(Append(working, asked))
                     /\ file' = Append(file, asked)
    BY <1>1 DEF Session!UseTool
  <2>2. IsSeq(working') /\ IsSeq(file')
    BY <2>1, AppendIsSeq, CompactedOrNot DEF SessionInv
  <2> QED
    BY <1>1, <2>2 DEF Session!UseTool, Session!Asking, SessionInv, FileHoldsTheSession,
                      Session!FileHoldsTheSession
<1>2. CASE Session!ToolAnswers
  <2>1. PICK answered : working' = Append(working, answered) /\ file' = Append(file, answered)
    BY <1>2 DEF Session!ToolAnswers
  <2>2. IsSeq(working') /\ IsSeq(file')
    BY <2>1, AppendIsSeq DEF SessionInv
  <2> QED
    BY <1>2, <2>2 DEF Session!ToolAnswers, SessionInv, FileHoldsTheSession,
                      Session!FileHoldsTheSession
<1>3. CASE Session!Answer
  <2>1. PICK said : main' \in Session!MayBeCompacted(Append(working, said))
    BY <1>3 DEF Session!Answer
  <2>2. IsSeq(main') /\ IsSeq(<< >>)
    BY <2>1, AppendIsSeq, CompactedOrNot, EmptyIsSeq DEF SessionInv
  <2> QED
    BY <1>3, <2>2 DEF Session!Answer, SessionInv, FileHoldsTheSession,
                      Session!FileHoldsTheSession
<1>4. CASE Session!Fails
  BY <1>4, ExitKeeps DEF Session!Fails, Session!ExitInError
<1>5. CASE Session!TooLong
  <2>1. Len(Session!PreserveSchedule) = 4
    BY DEF Session!PreserveSchedule
  <2>2. CASE tries = 4
    BY <1>5, <2>1, <2>2, ExitKeeps DEF Session!TooLong, Session!ExitInError
  <2>3. CASE tries # 4
    <3>1. shrunk' = Session!Shrink(working, tries + 1) /\ UNCHANGED <<main, working, file, tries>>
          /\ phase' = "too_long"
      BY <1>5, <2>1, <2>3 DEF Session!TooLong
    <3>2. tries + 1 \in 1..4
      BY <2>3 DEF SessionInv
    <3>3. Session!PreserveSchedule[tries + 1] \in Nat
      BY <3>2 DEF Session!PreserveSchedule
    <3>4. IsSeq(shrunk.messages)'
      BY <3>1, <3>3, TridentIsSeq DEF Session!Shrink, SessionInv
    <3> QED
      BY <3>1, <3>2, <3>4 DEF SessionInv, FileHoldsTheSession, Session!FileHoldsTheSession
  <2> QED
    BY <2>2, <2>3
<1> QED
  BY <1>1, <1>2, <1>3, <1>4, <1>5 DEF Session!Provider

LEMMA CommandKeeps ==
    ASSUME SessionInv, Session!Compact \/ Session!Leave \/ Session!Resume \/ Session!ResumeAndCompact
    PROVE  SessionInv'
<1>0. Session!PreserveRecent \in Nat
  BY DEF Session!PreserveRecent
<1>1. CASE Session!Compact
  <2>1. IsSeq(main') /\ file' = main'
    BY <1>0, <1>1, CompactIsSeq DEF Session!Compact, SessionInv
  <2> QED
    BY <1>1, <2>1 DEF Session!Compact, SessionInv, FileHoldsTheSession,
                      Session!FileHoldsTheSession
<1>2. CASE Session!Leave
  BY <1>2, ExitKeeps DEF Session!Leave
<1>3. CASE Session!Resume
  BY <1>3 DEF Session!Resume, SessionInv, FileHoldsTheSession, Session!FileHoldsTheSession
<1>4. CASE Session!ResumeAndCompact
  <2>1. IsSeq(file')
    BY <1>0, <1>4, TridentIsSeq DEF Session!ResumeAndCompact, SessionInv
  <2> QED
    BY <1>4, <2>1 DEF Session!ResumeAndCompact, SessionInv, FileHoldsTheSession,
                      Session!FileHoldsTheSession
<1> QED
  BY <1>1, <1>2, <1>3, <1>4

LEMMA SessionKeeps ==
    ASSUME SessionInv, [Session!Next]_sessionVars
    PROVE  SessionInv'
<1>1. CASE Session!Submit
  BY <1>1, BeginKeeps DEF Session!Submit, SessionInv
<1>2. CASE Session!Provider
  BY <1>2, ProviderKeeps
<1>3. CASE Session!Retry
  <2>1. tries + 1 \in 0..4
    BY <1>3 DEF Session!Retry, SessionInv
  <2>2. IsSeq(main') /\ IsSeq(shrunk.messages)'
    BY <1>3, EmptyIsSeq DEF Session!Retry, SessionInv, Session!NotShrunk
  <2> QED
    BY <1>3, <2>1, <2>2, BeginKeeps DEF Session!Retry
<1>4. CASE Session!GiveUp
  BY <1>4, ExitKeeps DEF Session!GiveUp, Session!ExitInError
<1>5. CASE Session!Compact \/ Session!Leave \/ Session!Resume \/ Session!ResumeAndCompact
  BY <1>5, CommandKeeps
<1>6. CASE UNCHANGED sessionVars
  BY <1>6 DEF sessionVars, SessionInv, FileHoldsTheSession, Session!FileHoldsTheSession
<1> QED
  BY <1>1, <1>2, <1>3, <1>4, <1>5, <1>6 DEF Session!Next

LEMMA SessionAlong == EachInit /\ [][EachNext]_eachVars => []SessionInv
<1>1. EachInit => SessionInv
  BY SessionStarts DEF EachInit
<1>2. SessionInv /\ [EachNext]_eachVars => SessionInv'
  BY SessionKeeps DEF EachNext, eachVars
<1> QED
  BY <1>1, <1>2, PTL

\* LiveCli: at the prompt the file holds the session, whatever retries,
\* compactions and failed turns came before, and whatever a compaction does.
THEOREM FileIsTheSession == EachSpec => []FileHoldsTheSession
<1>1. SessionInv => FileHoldsTheSession
  BY DEF SessionInv
<1> QED
  BY <1>1, SessionAlong, PTL DEF EachSpec

\* The step property of UnansweredTurnsOnlyAppend.
OnlyAppends ==
    Len(file') < Len(file) \/ SubSeq(file', 1, Len(file)) # file
      => \/ phase \in {"idle", "exited"} \/ phase' = "idle"
         \/ phase' = "exited" /\ file' = main

LEMMA SessionAppends ==
    ASSUME SessionInv, [Session!Next]_sessionVars
    PROVE  OnlyAppends
<1>1. IsSeq(file) /\ Len(file) \in Nat
  BY DEF SessionInv, IsSeq
<1>2. ASSUME file' = file PROVE OnlyAppends
  BY <1>1, <1>2, WholeIsItself DEF OnlyAppends
<1>3. ASSUME NEW m, file' = Append(file, m) PROVE OnlyAppends
  <2>1. Len(file') = Len(file) + 1 /\ SubSeq(file', 1, Len(file)) = file
    BY <1>1, <1>3, AppendIsSeq
  <2> QED
    BY <1>1, <2>1 DEF OnlyAppends
<1>4. CASE Session!Submit \/ Session!Compact \/ Session!Resume \/ Session!ResumeAndCompact
  BY <1>4 DEF OnlyAppends, Session!Submit, Session!Compact, Session!Resume,
              Session!ResumeAndCompact
<1>5. CASE Session!Leave \/ UNCHANGED sessionVars
  BY <1>2, <1>5 DEF Session!Leave, sessionVars
<1>6. CASE Session!Retry \/ Session!UseTool \/ Session!ToolAnswers
  BY <1>3, <1>6 DEF Session!Retry, Session!Begin, Session!UseTool, Session!ToolAnswers
<1>7. CASE Session!Answer
  BY <1>7 DEF OnlyAppends, Session!Answer
<1>8. ASSUME Session!ExitInError PROVE OnlyAppends
  BY <1>2, <1>8 DEF OnlyAppends, Session!ExitInError, Session!Exit
<1>9. CASE Session!Fails \/ Session!GiveUp \/ Session!TooLong
  BY <1>2, <1>8, <1>9 DEF Session!Fails, Session!GiveUp, Session!TooLong
<1> QED
  BY <1>4, <1>5, <1>6, <1>7, <1>9 DEF Session!Next, Session!Provider

\* LiveCli: a turn that has no answer takes nothing from the file, on however
\* many transcripts it is tried.
THEOREM UnansweredOnlyAppend == EachSpec => UnansweredTurnsOnlyAppend
<1> DEFINE mvars == Session!vars
<1>1. SessionInv /\ [EachNext]_eachVars => [OnlyAppends]_mvars
  BY SessionAppends DEF EachNext, eachVars, sessionVars, Session!vars
<1>2. EachSpec => [][OnlyAppends]_mvars
  BY <1>1, SessionAlong, PTL DEF EachSpec
<1> QED
  BY <1>2 DEF UnansweredTurnsOnlyAppend, Session!UnansweredTurnsOnlyAppend, OnlyAppends

----------------------------------------------------------------------------
(* III. What /revert gives back                                             *)

\* A record of the log that can be undone, and what that makes of its file.
Undoable(record) ==
    \/ record.kind = "created"
    \/ record.kind = "backup" /\ record.backup \in DOMAIN backups

Restored(record) == IF record.kind = "created" THEN Evil!Absent ELSE backups[record.backup]

\* The i-th record undoes something of f, and is the first of some that do.
Undoes(i, f) == Undoable(journal[i]) /\ journal[i].file = f

FirstFor(f, i, s) == i \in s /\ Undoes(i, f) /\ \A j \in s : j < i => ~Undoes(j, f)

Records == 1..Len(journal)

\* The log can be read, and numbers of backups are not used again.
LogIsSound ==
    /\ IsSeq(journal) /\ counter \in Nat
    /\ \A i \in Records :
          /\ journal[i].kind \in {"none", "created", "backup", "commit"}
          /\ journal[i].kind \in {"created", "backup"} => journal[i].file \in File
          /\ journal[i].kind = "backup" => journal[i].backup \in 1..counter
    /\ DOMAIN backups \subseteq 1..counter

----------------------------------------------------------------------------
(* What the records make of the files together: the first one of each file  *)
(* has the last word, as the log is undone from its end.                    *)

Undone(s) ==
    [f \in File |-> IF \E i \in s : FirstFor(f, i, s)
                    THEN Restored(journal[CHOOSE i \in s : FirstFor(f, i, s)])
                    ELSE files[f]]

Least(s) == CHOOSE i \in s : \A j \in s : i <= j

\* A set of indices that is not empty has a least one.
LEMMA LeastIsLeast ==
    ASSUME NEW n \in Nat, NEW s \in SUBSET (1..n), s # {}
    PROVE  Least(s) \in s /\ \A j \in s : Least(s) <= j
<1> DEFINE T == {n - k : k \in s}
<1>1. \A k \in s : k \in Nat /\ n - k \in 0..n
  OBVIOUS
<1>2. T \in SUBSET (0..n) /\ T # {}
  BY <1>1
<1> HIDE DEF T
<1>3. PICK m \in T : \A j \in T : j <= m
  BY <1>2, GreatestNatural
<1>4. PICK i \in s : m = n - i
  BY DEF T
<1>5. \A j \in s : n - j \in T
  BY DEF T
<1>6. \A j \in s : i <= j
  BY <1>1, <1>3, <1>4, <1>5
<1> QED
  BY <1>4, <1>6 DEF Least

\* The first record that undoes something of f decides what becomes of f.
LEMMA FirstIsOne ==
    ASSUME LogIsSound, NEW s \in SUBSET Records, NEW f \in File, NEW i, FirstFor(f, i, s)
    PROVE  Undone(s)[f] = Restored(journal[i])
<1>1. Len(journal) \in Nat
  BY DEF LogIsSound, IsSeq
<1>2. \A j : FirstFor(f, j, s) => j = i
  BY <1>1 DEF FirstFor, Records
<1>3. i \in s
  BY DEF FirstFor
<1>4. (CHOOSE j \in s : FirstFor(f, j, s)) = i
  BY <1>2, <1>3
<1> QED
  BY <1>3, <1>4 DEF Undone

\* What a record does not undo, the others decide.
LEMMA OthersDecide ==
    ASSUME LogIsSound, NEW s \in SUBSET Records, NEW m \in s, \A j \in s : m <= j,
           NEW f \in File, ~Undoes(m, f)
    PROVE  Undone(s)[f] = Undone(s \ {m})[f]
<1>1. \A i : FirstFor(f, i, s) <=> FirstFor(f, i, s \ {m})
  BY DEF FirstFor
<1>2. CASE \E i : FirstFor(f, i, s)
  <2>1. PICK i : FirstFor(f, i, s)
    BY <1>2
  <2>2. Undone(s)[f] = Restored(journal[i])
    BY <2>1, FirstIsOne
  <2>3. Undone(s \ {m})[f] = Restored(journal[i])
    BY <1>1, <2>1, FirstIsOne
  <2> QED
    BY <2>2, <2>3
<1>3. CASE ~ \E i : FirstFor(f, i, s)
  BY <1>1, <1>3 DEF Undone
<1> QED
  BY <1>2, <1>3

\* Undoing the first of some records after the others.
LEMMA UndoneStepwise ==
    ASSUME LogIsSound, NEW s \in SUBSET Records, s # {}
    PROVE  Undone(s) = Evil!Undo(journal[Least(s)], Undone(s \ {Least(s)}))
<1> DEFINE m == Least(s)
           rest == Undone(s \ {m})
<1>0. Len(journal) \in Nat /\ s \in SUBSET (1..Len(journal)) /\ s \in SUBSET Nat
  BY DEF LogIsSound, IsSeq, Records
<1>1. m \in s /\ \A j \in s : m <= j
  BY <1>0, LeastIsLeast
<1>2. DOMAIN rest = File /\ rest = [f \in File |-> rest[f]] /\ Undone(s) = [f \in File |-> Undone(s)[f]]
  BY DEF Undone
<1>3. \A f \in File : ~Undoes(m, f) => Undone(s)[f] = rest[f]
  BY <1>1, OthersDecide
<1>4. \A f \in File : Undoes(m, f) => Undone(s)[f] = Restored(journal[m])
  <2> SUFFICES ASSUME NEW f \in File, Undoes(m, f)
               PROVE  Undone(s)[f] = Restored(journal[m])
    OBVIOUS
  <2>1. FirstFor(f, m, s)
    <3> HIDE DEF m
    <3>1. \A j \in s : ~(j < m)
      BY <1>0, <1>1
    <3> QED
      BY <1>1, <3>1 DEF FirstFor
  <2> QED
    BY <2>1, FirstIsOne
<1> HIDE DEF m, rest
<1>5. CASE Undoable(journal[m])
  <2> DEFINE f0 == journal[m].file
  <2>1. Evil!Undo(journal[m], rest) = [rest EXCEPT ![f0] = Restored(journal[m])]
    BY <1>5 DEF Evil!Undo, Undoable, Restored
  <2>2. \A f : Undoes(m, f) <=> f = f0
    BY <1>5 DEF Undoes
  <2>3. Undone(s) = [rest EXCEPT ![f0] = Restored(journal[m])]
    <3> HIDE DEF f0
    <3>1. \A f \in File : Undone(s)[f] = [rest EXCEPT ![f0] = Restored(journal[m])][f]
      BY <1>2, <1>3, <1>4, <2>2
    <3> QED
      BY <1>2, <3>1
  <2> QED
    BY <2>1, <2>3 DEF m, rest
<1>6. CASE ~Undoable(journal[m])
  <2>1. Evil!Undo(journal[m], rest) = rest
    BY <1>6 DEF Evil!Undo, Undoable
  <2>2. \A f \in File : Undone(s)[f] = rest[f]
    BY <1>3, <1>6 DEF Undoes
  <2> QED
    BY <1>2, <2>1, <2>2 DEF m, rest
<1> QED
  BY <1>5, <1>6

\* The fold goes through the subsets of the records, and there is one function
\* that does: what the records make of the files.
UndoneBy(g, s) ==
    IF s = {} THEN files ELSE Evil!Undo(journal[Least(s)], g[s \ {Least(s)}])

IsUndoing(g) == g = [s \in SUBSET DOMAIN journal |-> UndoneBy(g, s)]

\* /revert is the fold.
LEMMA RevertIsFold ==
    Evil!Revert => files' = (CHOOSE g : IsUndoing(g))[DOMAIN journal]
  BY DEF Evil!Revert, Evil!FoldRight, Evil!MapThenFoldSet, Evil!Min, Least, IsUndoing, UndoneBy

\* Induction, as a fact about a set of naturals.
LEMMA AllNaturals ==
    ASSUME NEW S \in SUBSET Nat, 0 \in S, \A n \in S : n + 1 \in S
    PROVE  S = Nat
<1> DEFINE T == Nat \ S
           Less == OpToRel(<, Nat)
<1>1. IsWellFoundedOn(Less, Nat)
  BY NatLessThanWellFounded
<1>2. \A y, x \in Nat : y < x => <<y, x>> \in Less
  BY DEF OpToRel
<1> HIDE DEF Less
<1> SUFFICES ASSUME T # {} PROVE FALSE
  OBVIOUS
<1>3. PICK x \in T : \A y \in T : ~ (<<y, x>> \in Less)
  BY <1>1, WFMin
<1>4. x - 1 \in Nat /\ x - 1 < x /\ x = (x - 1) + 1
  OBVIOUS
<1>5. x - 1 \notin T
  BY <1>2, <1>3, <1>4, Zenon
<1> QED
  BY <1>4, <1>5

\* /revert does to the files what the closed form says, by induction over the
\* number of records.
LEMMA RevertUndoesTheRecords ==
    ASSUME LogIsSound, files = [f \in File |-> files[f]], Evil!Revert
    PROVE  files' = Undone(Records)
<1> DEFINE g == CHOOSE g : IsUndoing(g)
           h == [s \in SUBSET Records |-> Undone(s)]
<1>1. DOMAIN journal = Records /\ Len(journal) \in Nat
  BY DEF LogIsSound, IsSeq, Records
<1>2. Undone({}) = files
  <2>1. \A f \in File : ~ \E i \in {} : FirstFor(f, i, {})
    OBVIOUS
  <2>2. Undone({}) = [f \in File |-> files[f]]
    BY <2>1 DEF Undone
  <2> QED
    BY <2>2
<1>3. \A s \in SUBSET Records : UndoneBy(h, s) = Undone(s)
  <2> TAKE s \in SUBSET Records
  <2>1. CASE s = {}
    BY <1>2, <2>1 DEF UndoneBy
  <2>2. CASE s # {}
    <3>1. h[s \ {Least(s)}] = Undone(s \ {Least(s)})
      OBVIOUS
    <3> HIDE DEF h
    <3> QED
      BY <2>2, <3>1, UndoneStepwise DEF UndoneBy
  <2> QED
    BY <2>1, <2>2
<1>4. IsUndoing(h)
  <2>1. h = [s \in SUBSET Records |-> UndoneBy(h, s)]
    <3>1. \A s \in SUBSET Records : h[s] = UndoneBy(h, s)
      BY <1>3
    <3>2. h = [s \in SUBSET Records |-> h[s]]
      OBVIOUS
    <3> HIDE DEF h
    <3> QED
      BY <3>1, <3>2
  <2> QED
    BY <1>1, <2>1 DEF IsUndoing
<1> HIDE DEF h
<1>5. IsUndoing(g)
  BY <1>4
<1> HIDE DEF g
<1>6. \A s \in SUBSET Records : g[s] = UndoneBy(g, s)
  BY <1>1, <1>5 DEF IsUndoing
<1> DEFINE T == {n \in Nat : \A s \in SUBSET Records : Cardinality(s) = n => g[s] = Undone(s)}
<1>7. IsFiniteSet(Records)
  BY <1>1, FS_Interval DEF Records
<1>8. 0 \in T
  <2>1. ASSUME NEW s \in SUBSET Records, Cardinality(s) = 0 PROVE g[s] = Undone(s)
    <3>1. s = {}
      BY <1>7, <2>1, FS_Subset, FS_EmptySet
    <3> QED
      BY <1>2, <1>6, <3>1 DEF UndoneBy
  <2> QED
    BY <2>1
<1>9. ASSUME NEW n \in T PROVE n + 1 \in T
  <2>1. n \in Nat /\ \A s \in SUBSET Records : Cardinality(s) = n => g[s] = Undone(s)
    OBVIOUS
  <2>2. ASSUME NEW s \in SUBSET Records, Cardinality(s) = n + 1 PROVE g[s] = Undone(s)
    <3>1. IsFiniteSet(s) /\ s # {}
      BY <1>7, <2>1, <2>2, FS_Subset, FS_EmptySet
    <3>2. Least(s) \in s
      BY <1>1, <3>1, LeastIsLeast DEF Records
    <3>3. Cardinality(s \ {Least(s)}) = n
      <4> DEFINE x == Least(s)
      <4>1. x \in s
        BY <3>2
      <4> HIDE DEF x
      <4>2. Cardinality(s \ {x}) = Cardinality(s) - 1
        BY <3>1, <4>1, FS_RemoveElement
      <4>3. Cardinality(s \ {x}) = n
        BY <2>1, <2>2, <4>2
      <4> QED
        BY <4>3 DEF x
    <3>4. g[s \ {Least(s)}] = Undone(s \ {Least(s)})
      BY <2>1, <3>3
    <3> QED
      BY <1>6, <3>1, <3>4, UndoneStepwise DEF UndoneBy
  <2> QED
    BY <2>1, <2>2
<1>10. T = Nat
  <2> HIDE DEF T
  <2> QED
    BY <1>8, <1>9, AllNaturals DEF T
<1>11. g[Records] = Undone(Records)
  BY <1>7, <1>10, FS_CardinalityType
<1> QED
  BY <1>1, <1>11, RevertIsFold DEF g

----------------------------------------------------------------------------
(* The invariant: what the log undoes is what the ghost promises.           *)

\* A file that is not there has no version.
IsContent(c) == c.there \in BOOLEAN /\ (~c.there => c.version = 0)

FilesAreSound ==
    /\ files = [f \in File |-> files[f]] /\ \A f \in File : IsContent(files[f])
    /\ \A n \in DOMAIN backups : IsContent(backups[n])
    /\ calls \in Nat

\* For every file with a promise, the first record that undoes something of it
\* keeps the promise ...
Promised == \A f \in DOMAIN before :
    /\ f \in File
    /\ \E i \in Records : FirstFor(f, i, Records) /\ Evil!Same(Restored(journal[i]), before[f])

\* ... and there is one for every record that undoes something.
Covered == \A i \in Records : Undoable(journal[i]) => journal[i].file \in DOMAIN before

EvilInv == LogIsSound /\ FilesAreSound /\ Promised /\ Covered

\* The log is emptied, and nothing is promised any more.
LEMMA EmptiedLogKeeps ==
    ASSUME EvilInv, journal' = << >>, before' = << >>, UNCHANGED <<backups, counter, calls>>,
           files' = [f \in File |-> files'[f]], \A f \in File : IsContent(files'[f])
    PROVE  EvilInv'
<1>1. IsSeq(journal') /\ Records' = {} /\ DOMAIN before' = {}
  BY EmptyIsSeq DEF Records
<1>2. LogIsSound'
  BY <1>1 DEF EvilInv, LogIsSound
<1>3. FilesAreSound'
  BY DEF EvilInv, FilesAreSound
<1> QED
  BY <1>1, <1>2, <1>3 DEF EvilInv, Promised, Covered

\* The log and its promises stay.
LEMMA LogStays ==
    ASSUME EvilInv, UNCHANGED <<journal, before, backups, counter>>, calls' \in Nat,
           files' = [f \in File |-> files'[f]], \A f \in File : IsContent(files'[f])
    PROVE  EvilInv'
<1>1. Records' = Records /\ \A r : (Undoable(r)' <=> Undoable(r)) /\ Restored(r)' = Restored(r)
  BY DEF Records, Undoable, Restored
<1>2. LogIsSound'
  BY <1>1 DEF EvilInv, LogIsSound
<1>3. FilesAreSound'
  BY DEF EvilInv, FilesAreSound
<1>4. \A f, i : FirstFor(f, i, Records)' <=> FirstFor(f, i, Records)
  BY <1>1 DEF FirstFor, Undoes, Undoable
<1>5. Promised'
  BY <1>1, <1>4 DEF EvilInv, Promised, Restored
<1>6. Covered'
  BY <1>1 DEF EvilInv, Covered, Undoable
<1> QED
  BY <1>2, <1>3, <1>5, <1>6 DEF EvilInv

\* A record goes to the end of the log, and maybe a backup with it.
BackupsGrow ==
    /\ counter' \in Nat /\ counter <= counter' /\ DOMAIN backups' \subseteq 1..counter'
    /\ \A n \in DOMAIN backups : n \in DOMAIN backups' /\ backups'[n] = backups[n]
    /\ \A n \in DOMAIN backups' \ DOMAIN backups : n > counter /\ IsContent(backups'[n])

LEMMA OlderRecordsStay ==
    ASSUME EvilInv, NEW r, journal' = Append(journal, r), BackupsGrow
    PROVE  /\ IsSeq(journal') /\ Len(journal) \in Nat
           /\ Records' = Records \cup {Len(journal) + 1}
           /\ journal'[Len(journal) + 1] = r
           /\ \A i \in Records : /\ journal'[i] = journal[i]
                                 /\ Undoable(journal[i])' <=> Undoable(journal[i])
                                 /\ Undoable(journal[i]) => Restored(journal[i])' = Restored(journal[i])
<1>1. PICK S : journal \in Seq(S)
  BY DEF EvilInv, LogIsSound, IsSeq
<1>2. journal \in Seq(S \cup {r})
  BY <1>1
<1>3. IsSeq(journal') /\ Len(journal) \in Nat /\ Len(journal') = Len(journal) + 1
  BY <1>2, AppendIsSeq DEF IsSeq
<1>4. journal'[Len(journal) + 1] = r /\ \A i \in 1..Len(journal) : journal'[i] = journal[i]
  BY <1>2
<1>5. Records' = Records \cup {Len(journal) + 1}
  BY <1>3 DEF Records
<1>6. ASSUME NEW i \in Records
      PROVE  /\ Undoable(journal[i])' <=> Undoable(journal[i])
             /\ Undoable(journal[i]) => Restored(journal[i])' = Restored(journal[i])
  <2>1. journal'[i] = journal[i]
    BY <1>4 DEF Records
  <2>2. journal[i].kind = "backup" => journal[i].backup \in 1..counter
    BY DEF EvilInv, LogIsSound
  <2>3. counter \in Nat
    BY DEF EvilInv, LogIsSound
  <2>4. journal[i].kind = "backup"
           => (journal[i].backup \in DOMAIN backups' <=> journal[i].backup \in DOMAIN backups)
    BY <2>2, <2>3 DEF BackupsGrow
  <2>5. Undoable(journal[i])' <=> Undoable(journal[i])
    BY <2>1, <2>4 DEF Undoable
  <2>6. Undoable(journal[i]) => Restored(journal[i])' = Restored(journal[i])
    BY <2>1 DEF Undoable, Restored, BackupsGrow
  <2> QED
    BY <2>5, <2>6
<1> QED
  BY <1>3, <1>4, <1>5, <1>6 DEF Records

\* The record undoes nothing, or it is remembered what it undoes.
LEMMA RecordKeeps ==
    ASSUME EvilInv, NEW r, journal' = Append(journal, r), BackupsGrow,
           r.kind \in {"none", "created", "backup", "commit"},
           r.kind \in {"created", "backup"} => r.file \in File,
           r.kind = "backup" => r.backup \in 1..counter',
           files' = files, calls' \in Nat,
           \/ ~Undoable(r)' /\ before' = before
           \/ /\ Undoable(r)' /\ r.file \in File /\ Evil!Remember(r.file)
              /\ Evil!Same(Restored(r)', files[r.file])
    PROVE  EvilInv'
<1>0. PICK n : n = Len(journal) + 1
  OBVIOUS
<1>1. /\ IsSeq(journal') /\ n \in Nat /\ n \notin Records
      /\ Records' = Records \cup {n} /\ journal'[n] = r
      /\ \A i \in Records : /\ i < n /\ journal'[i] = journal[i]
                            /\ Undoable(journal[i])' <=> Undoable(journal[i])
                            /\ Undoable(journal[i]) => Restored(journal[i])' = Restored(journal[i])
  BY <1>0, OlderRecordsStay DEF Records
<1>2. LogIsSound'
  <2>1. counter \in Nat /\ counter' \in Nat /\ counter <= counter' /\ DOMAIN backups' \subseteq 1..counter'
    BY DEF EvilInv, LogIsSound, BackupsGrow
  <2>2. ASSUME NEW i \in Records'
        PROVE  /\ journal'[i].kind \in {"none", "created", "backup", "commit"}
               /\ journal'[i].kind \in {"created", "backup"} => journal'[i].file \in File
               /\ journal'[i].kind = "backup" => journal'[i].backup \in 1..counter'
    <3>1. CASE i = n
      BY <1>1, <3>1
    <3>2. CASE i \in Records
      <4>1. journal'[i] = journal[i]
        BY <1>1, <3>2
      <4>2. 1..counter \subseteq 1..counter'
        BY <2>1
      <4> QED
        BY <3>2, <4>1, <4>2 DEF EvilInv, LogIsSound
    <3> QED
      BY <1>1, <3>1, <3>2
  <2> QED
    BY <1>1, <2>1, <2>2 DEF LogIsSound
<1>3. FilesAreSound'
  BY DEF EvilInv, FilesAreSound, BackupsGrow
<1>4. ASSUME NEW f, NEW i \in Records, FirstFor(f, i, Records)
      PROVE  FirstFor(f, i, Records)'
  <2>1. ASSUME NEW j \in Records', j < i PROVE ~Undoes(j, f)'
    <3>1. j \in Records
      BY <1>1, <2>1 DEF Records
    <3>2. ~Undoes(j, f)
      BY <1>4, <2>1, <3>1 DEF FirstFor
    <3> QED
      BY <1>1, <3>1, <3>2 DEF Undoes
  <2>2. Undoes(i, f)'
    BY <1>1, <1>4 DEF FirstFor, Undoes
  <2> QED
    BY <1>1, <2>1, <2>2 DEF FirstFor
<1>5. ASSUME NEW f \in DOMAIN before, before'[f] = before[f]
      PROVE  f \in File /\ \E i \in Records' : FirstFor(f, i, Records)'
                                                /\ Evil!Same(Restored(journal[i])', before'[f])
  <2>1. PICK i \in Records : FirstFor(f, i, Records) /\ Evil!Same(Restored(journal[i]), before[f])
    BY DEF EvilInv, Promised
  <2>2. Undoable(journal[i])
    BY <2>1 DEF FirstFor, Undoes
  <2>3. Restored(journal[i])' = Restored(journal[i])
    BY <1>1, <2>2
  <2>4. FirstFor(f, i, Records)'
    BY <1>4, <2>1
  <2>5. Evil!Same(Restored(journal[i])', before'[f])
    BY <1>5, <2>1, <2>3 DEF Evil!Same
  <2> QED
    BY <1>1, <2>4, <2>5 DEF EvilInv, Promised
<1>6. CASE ~Undoable(r)' /\ before' = before
  <2>1. Promised'
    BY <1>5, <1>6 DEF Promised
  <2>2. Covered'
    BY <1>1, <1>6 DEF EvilInv, Covered
  <2> QED
    BY <1>2, <1>3, <2>1, <2>2 DEF EvilInv
<1>7. CASE /\ Undoable(r)' /\ r.file \in File /\ Evil!Remember(r.file)
           /\ Evil!Same(Restored(r)', files[r.file])
  <2> DEFINE f0 == r.file
  <2>1. /\ DOMAIN before' = DOMAIN before \cup {f0}
        /\ \A f \in DOMAIN before : before'[f] = before[f]
        /\ f0 \notin DOMAIN before => before'[f0] = files[f0]
    BY <1>7 DEF Evil!Remember
  <2>2. ASSUME f0 \notin DOMAIN before
        PROVE  FirstFor(f0, n, Records)' /\ Evil!Same(Restored(journal[n])', before'[f0])
    <3>1. \A j \in Records : ~Undoes(j, f0)
      BY <2>2 DEF EvilInv, Covered, Undoes
    <3>2. \A j \in Records : ~Undoes(j, f0)'
      BY <1>1, <3>1 DEF Undoes
    <3>3. n \in Records' /\ \A j \in Records' : j < n => j \in Records
      BY <1>1
    <3>4. Undoes(n, f0)'
      BY <1>1, <1>7 DEF Undoes
    <3>5. FirstFor(f0, n, Records)'
      BY <3>2, <3>3, <3>4 DEF FirstFor
    <3>6. Evil!Same(Restored(journal[n])', before'[f0])
      <4>1. journal'[n] = r /\ before'[f0] = files[f0]
        BY <1>1, <2>1, <2>2
      <4> QED
        BY <1>7, <4>1
    <3> QED
      BY <3>5, <3>6
  <2> HIDE DEF f0
  <2>3. f0 \in File
    BY <1>7 DEF f0
  <2>4. Promised'
    <3> SUFFICES ASSUME NEW f \in DOMAIN before'
                 PROVE  f \in File /\ \E i \in Records' : FirstFor(f, i, Records)'
                                                /\ Evil!Same(Restored(journal[i])', before'[f])
      BY DEF Promised
    <3>1. CASE f \in DOMAIN before
      BY <1>5, <2>1, <3>1
    <3>2. CASE f \notin DOMAIN before
      <4>1. f = f0
        BY <2>1, <3>2
      <4> QED
        BY <1>1, <2>2, <2>3, <3>2, <4>1
    <3> QED
      BY <3>1, <3>2
  <2>5. Covered'
    <3> SUFFICES ASSUME NEW i \in Records', Undoable(journal[i])'
                 PROVE  journal'[i].file \in DOMAIN before'
      BY DEF Covered
    <3>1. CASE i = n
      BY <1>1, <2>1, <3>1 DEF f0
    <3>2. CASE i \in Records
      BY <1>1, <2>1, <3>2 DEF EvilInv, Covered
    <3> QED
      BY <1>1, <3>1, <3>2
  <2> QED
    BY <1>2, <1>3, <2>4, <2>5 DEF EvilInv
<1> QED
  BY <1>6, <1>7

----------------------------------------------------------------------------
(* The steps of evil mode                                                   *)

\* The invariant holds at the start, where the log is empty.
LEMMA EvilStarts == Evil!Init => EvilInv
<1> SUFFICES ASSUME Evil!Init PROVE EvilInv
  OBVIOUS
<1>1. journal = << >> /\ backups = << >> /\ before = << >> /\ counter = 0 /\ calls = 0
  BY DEF Evil!Init
<1>2. Records = {} /\ DOMAIN backups = {} /\ DOMAIN before = {} /\ IsSeq(journal)
  BY <1>1, EmptyIsSeq DEF Records
<1>3. files \in [File -> {Evil!Absent, Evil!Written(0, FALSE)}]
  BY DEF Evil!Init
<1>4. IsContent(Evil!Absent) /\ IsContent(Evil!Written(0, FALSE))
  BY DEF IsContent, Evil!Absent, Evil!Written
<1>5. \A f \in File : IsContent(files[f])
  BY <1>3, <1>4
<1> QED
  BY <1>1, <1>2, <1>3, <1>5 DEF EvilInv, LogIsSound, FilesAreSound, Promised, Covered

\* A record that undoes nothing.
LEMMA NoteKeeps ==
    ASSUME EvilInv, NEW r, r.kind \in {"none", "commit"}, journal' = Append(journal, r),
           counter' \in {counter, counter + 1}, UNCHANGED <<backups, before, files>>,
           calls' \in Nat
    PROVE  EvilInv'
<1>1. counter \in Nat /\ DOMAIN backups \subseteq 1..counter
  BY DEF EvilInv, LogIsSound
<1>2. BackupsGrow
  BY <1>1 DEF BackupsGrow
<1>3. ~Undoable(r)'
  BY DEF Undoable
<1> QED
  BY <1>2, <1>3, RecordKeeps

\* A snapshot: f was not there, or is backed up, or the backup fails.
LEMMA SnapshotKeeps ==
    ASSUME EvilInv, NEW f \in File, Evil!Snapshot(f), UNCHANGED files, calls' \in Nat
    PROVE  EvilInv'
<1>1. counter \in Nat /\ DOMAIN backups \subseteq 1..counter
  BY DEF EvilInv, LogIsSound
<1>2. IsContent(files[f])
  BY DEF EvilInv, FilesAreSound
<1>3. CASE ~files[f].there
  <2> DEFINE r == Evil!FileCreated(f)
  <2>1. journal' = Append(journal, r) /\ Evil!Remember(f) /\ UNCHANGED <<backups, counter>>
    BY <1>3 DEF Evil!Snapshot
  <2>2. r.kind = "created" /\ r.file = f
    BY DEF Evil!FileCreated
  <2> HIDE DEF r
  <2>3. BackupsGrow
    BY <1>1, <2>1 DEF BackupsGrow
  <2>4. Undoable(r)' /\ Restored(r)' = Evil!Absent
    BY <2>2 DEF Undoable, Restored
  <2>5. Evil!Same(Evil!Absent, files[f])
    BY <1>2, <1>3 DEF IsContent, Evil!Same, Evil!Absent
  <2> QED
    BY <2>1, <2>2, <2>3, <2>4, <2>5, RecordKeeps
<1>4. CASE files[f].there
  <2> PICK n : n = counter + 1
    OBVIOUS
  <2> DEFINE r == Evil!FileBackup(f, n)
  <2>1. counter' = n /\ n \in Nat /\ n > counter /\ n \notin DOMAIN backups
    BY <1>1, <1>4 DEF Evil!Snapshot
  <2>2. CASE /\ backups' = [k \in DOMAIN backups \cup {counter'} |->
                              IF k = counter' THEN files[f] ELSE backups[k]]
             /\ journal' = Append(journal, r) /\ Evil!Remember(f)
    <3>1. DOMAIN backups' = DOMAIN backups \cup {n} /\ backups'[n] = files[f]
      BY <2>1, <2>2
    <3>2. \A k \in DOMAIN backups : backups'[k] = backups[k]
      BY <2>1, <2>2
    <3>3. BackupsGrow
      BY <1>1, <1>2, <2>1, <3>1, <3>2 DEF BackupsGrow
    <3>4. r.kind = "backup" /\ r.file = f /\ r.backup = n
      BY DEF Evil!FileBackup
    <3>5. journal' = Append(journal, r) /\ Evil!Remember(f)
      BY <2>2
    <3> HIDE DEF r
    <3>6. Undoable(r)' /\ Restored(r)' = files[f]
      BY <3>1, <3>4 DEF Undoable, Restored
    <3>7. n \in 1..counter'
      BY <1>1, <2>1
    <3> QED
      BY <3>3, <3>4, <3>5, <3>6, <3>7, RecordKeeps DEF Evil!Same
  <2>3. CASE journal' = Append(journal, Evil!NothingToUndo) /\ UNCHANGED <<backups, before>>
    <3>1. Evil!NothingToUndo.kind = "none"
      BY DEF Evil!NothingToUndo
    <3> QED
      BY <2>1, <2>3, <3>1, NoteKeeps
  <2> QED
    BY <1>4, <2>1, <2>2, <2>3 DEF Evil!Snapshot
<1> QED
  BY <1>3, <1>4

\* A call of a tool, as the interceptor leaves it.
LEMMA CallKeeps ==
    ASSUME EvilInv, Evil!CallsFileTool \/ Evil!CallsCommit \/ Evil!CallsOther
    PROVE  EvilInv'
<1>1. calls' \in Nat /\ files' = files
  BY DEF EvilInv, FilesAreSound, Evil!CallsFileTool, Evil!CallsCommit, Evil!CallsOther
<1>2. files = [f \in File |-> files[f]] /\ \A f \in File : IsContent(files[f])
  BY DEF EvilInv, FilesAreSound
<1>3. ASSUME journal' = Append(journal, Evil!NothingToUndo), UNCHANGED <<backups, counter, before>>
      PROVE  EvilInv'
  <2>1. Evil!NothingToUndo.kind = "none"
    BY DEF Evil!NothingToUndo
  <2> QED
    BY <1>1, <1>3, <2>1, NoteKeeps
<1>4. ASSUME UNCHANGED <<journal, backups, counter, before>> PROVE EvilInv'
  BY <1>1, <1>2, <1>4, LogStays
<1>5. CASE Evil!CallsFileTool
  <2>1. PICK f \in File, tool \in {"write", "edit"}, flips \in BOOLEAN :
            LET does == IF active THEN Evil!Mutation(tool, f, flips) ELSE "pass" IN
            CASE does = "block" ->
                    /\ journal' = Append(journal, Evil!NothingToUndo) /\ call' = Evil!NoCall
                    /\ UNCHANGED <<backups, counter, faults, before>>
              [] does = "pass" ->
                    /\ call' = [does |-> tool, file |-> f]
                    /\ UNCHANGED <<journal, backups, counter, faults, before>>
              [] OTHER -> Evil!Snapshot(f) /\ call' = [does |-> does, file |-> f]
    BY <1>5 DEF Evil!CallsFileTool
  <2> DEFINE does == IF active THEN Evil!Mutation(tool, f, flips) ELSE "pass"
  <2>2. \/ journal' = Append(journal, Evil!NothingToUndo) /\ UNCHANGED <<backups, counter, before>>
        \/ UNCHANGED <<journal, backups, counter, before>>
        \/ Evil!Snapshot(f)
    <3> HIDE DEF does
    <3> QED
      BY <2>1 DEF does
  <2> QED
    BY <1>1, <1>3, <1>4, <2>2, SnapshotKeeps
<1>6. CASE Evil!CallsCommit
  <2> PICK r : r = Evil!CommitAmend(calls')
    OBVIOUS
  <2>1. r.kind = "commit"
    BY DEF Evil!CommitAmend
  <2>2. journal' = Append(journal, r) \/ journal' = journal
    BY <1>6 DEF Evil!CallsCommit
  <2>3. UNCHANGED <<backups, counter, before>>
    BY <1>6 DEF Evil!CallsCommit
  <2>4. CASE journal' = Append(journal, r)
    BY <1>1, <2>1, <2>3, <2>4, NoteKeeps
  <2> QED
    BY <1>4, <2>2, <2>3, <2>4
<1>7. CASE Evil!CallsOther
  BY <1>3, <1>7 DEF Evil!CallsOther
<1> QED
  BY <1>5, <1>6, <1>7

\* The call is run, or the user changes a file: the log does not see it.
LEMMA WriteKeeps ==
    ASSUME EvilInv, Evil!Run \/ Evil!UserEdits
    PROVE  EvilInv'
<1>1. files = [f \in File |-> files[f]] /\ (\A f \in File : IsContent(files[f])) /\ calls \in Nat
  BY DEF EvilInv, FilesAreSound
<1>2. UNCHANGED <<journal, before, backups, counter>> /\ calls' \in Nat
  <2>1. CASE Evil!Run
    <3>1. UNCHANGED <<active, journal, backups, counter, stage, turns, calls, faults, before>>
      BY <2>1 DEF Evil!Run
    <3> QED
      BY <1>1, <3>1
  <2>2. CASE Evil!UserEdits
    BY <1>1, <2>2 DEF Evil!UserEdits
  <2> QED
    BY <2>1, <2>2
<1>3. ASSUME NEW f, NEW c, IsContent(c), files' = [files EXCEPT ![f] = c]
      PROVE  EvilInv'
  <2>1. files' = [g \in File |-> files'[g]] /\ \A g \in File : IsContent(files'[g])
    BY <1>1, <1>3
  <2> QED
    BY <1>2, <2>1, LogStays
<1>4. CASE files' = files
  BY <1>1, <1>2, <1>4, LogStays
<1>5. /\ IsContent(Evil!Absent) /\ IsContent([Evil!Absent EXCEPT !.evil = TRUE])
      /\ \A n, evil : IsContent(Evil!Written(n, evil))
  BY DEF IsContent, Evil!Absent, Evil!Written
<1>6. CASE Evil!Run
  <2>1. \/ files' = files
        \/ \E c : files' = [files EXCEPT ![call.file] = c] /\ IsContent(c)
    BY <1>5, <1>6 DEF Evil!Run
  <2> QED
    BY <1>3, <1>4, <2>1
<1>7. CASE Evil!UserEdits
  <2>1. \E f, c : files' = [files EXCEPT ![f] = c] /\ IsContent(c)
    BY <1>5, <1>7 DEF Evil!UserEdits
  <2> QED
    BY <1>3, <2>1
<1> QED
  BY <1>6, <1>7

\* What is left without the backups: the records of files that were created.
LEMMA LossKeeps ==
    ASSUME EvilInv, Evil!LoseBackups
    PROVE  EvilInv'
<1>1. /\ UNCHANGED <<journal, counter, files, calls>> /\ backups' = << >>
      /\ before' = [f \in Evil!Created |-> Evil!Absent]
  BY DEF Evil!LoseBackups
<1>2. Records' = Records /\ DOMAIN backups' = {}
  BY <1>1 DEF Records
<1>3. LogIsSound'
  BY <1>1, <1>2 DEF EvilInv, LogIsSound
<1>4. FilesAreSound'
  BY <1>1, <1>2 DEF EvilInv, FilesAreSound
<1>5. \A i : Undoable(journal[i])' <=> journal[i].kind = "created"
  BY <1>1, <1>2 DEF Undoable
<1>6. DOMAIN journal = Records /\ Len(journal) \in Nat
  BY DEF EvilInv, LogIsSound, IsSeq, Records
<1>7. \A f : f \in Evil!Created <=> \E i \in Records : journal[i].kind = "created" /\ journal[i].file = f
  BY <1>6 DEF Evil!Created, Evil!Range
<1>8. Promised'
  <2> SUFFICES ASSUME NEW f \in Evil!Created
               PROVE  /\ f \in File
                      /\ \E i \in Records' : FirstFor(f, i, Records)'
                                    /\ Evil!Same(Restored(journal[i])', before'[f])
    BY <1>1 DEF Promised
  <2> DEFINE s == {i \in Records : journal[i].kind = "created" /\ journal[i].file = f}
             m == Least(s)
  <2>1. s # {} /\ s \in SUBSET (1..Len(journal))
    BY <1>7 DEF Records
  <2> HIDE DEF s
  <2>2. m \in s /\ \A j \in s : m <= j
    BY <1>6, <2>1, LeastIsLeast
  <2> HIDE DEF m
  <2> PICK i : i = m
    OBVIOUS
  <2>3. /\ i \in Records /\ journal[i].kind = "created" /\ journal[i].file = f
        /\ \A j \in Records : journal[j].kind = "created" /\ journal[j].file = f => i <= j
    BY <2>2 DEF s
  <2>4. f \in File
    BY <2>3 DEF EvilInv, LogIsSound
  <2>5. \A j \in Records : j < i => ~(journal[j].kind = "created" /\ journal[j].file = f)
    BY <1>6, <2>3 DEF Records
  <2>6. FirstFor(f, i, Records)'
    BY <1>1, <1>2, <1>5, <2>3, <2>5 DEF FirstFor, Undoes
  <2>7. Restored(journal[i])' = Evil!Absent
    BY <1>1, <2>3 DEF Restored
  <2>8. Evil!Same(Restored(journal[i])', before'[f])
    BY <1>1, <2>7 DEF Evil!Same
  <2> QED
    BY <1>2, <2>3, <2>4, <2>6, <2>8
<1>9. Covered'
  BY <1>1, <1>2, <1>5, <1>7 DEF Covered
<1> QED
  BY <1>3, <1>4, <1>8, <1>9 DEF EvilInv

\* /revert leaves files that are contents, and an empty log.
LEMMA RevertKeeps ==
    ASSUME EvilInv, Evil!Revert
    PROVE  EvilInv'
<1>1. /\ journal' = << >> /\ before' = << >> /\ UNCHANGED <<backups, counter, calls>>
  BY DEF Evil!Revert
<1>2. LogIsSound /\ files = [f \in File |-> files[f]]
  BY DEF EvilInv, FilesAreSound
<1>3. files' = Undone(Records)
  BY <1>2, RevertUndoesTheRecords
<1>4. files' = [f \in File |-> files'[f]]
  BY <1>3 DEF Undone
<1>5. ASSUME NEW f \in File PROVE IsContent(files'[f])
  <2>1. CASE \E i : FirstFor(f, i, Records)
    <3>1. PICK i : FirstFor(f, i, Records)
      BY <2>1
    <3>2. files'[f] = Restored(journal[i])
      BY <1>2, <1>3, <3>1, FirstIsOne
    <3>3. Undoable(journal[i])
      BY <3>1 DEF FirstFor, Undoes
    <3>4. IsContent(Restored(journal[i]))
      BY <3>3 DEF EvilInv, FilesAreSound, Restored, Undoable, IsContent, Evil!Absent
    <3> QED
      BY <3>2, <3>4
  <2>2. CASE ~ \E i : FirstFor(f, i, Records)
    <3>1. files'[f] = files[f]
      BY <1>3, <2>2 DEF Undone
    <3> QED
      BY <3>1 DEF EvilInv, FilesAreSound
  <2> QED
    BY <2>1, <2>2
<1> QED
  BY <1>1, <1>4, <1>5, EmptiedLogKeeps

\* Every step of evil mode keeps the invariant, and so do the others' steps.
LEMMA EvilKeeps ==
    ASSUME EvilInv, Evil!Next \/ UNCHANGED evilVars
    PROVE  EvilInv'
<1>1. files = [f \in File |-> files[f]] /\ (\A f \in File : IsContent(files[f])) /\ calls \in Nat
  BY DEF EvilInv, FilesAreSound
<1>2. ASSUME UNCHANGED <<journal, before, backups, counter, files, calls>> PROVE EvilInv'
  BY <1>1, <1>2, LogStays
<1>3. ASSUME journal' = << >>, before' = << >>, UNCHANGED <<backups, counter, files, calls>>
      PROVE  EvilInv'
  BY <1>1, <1>3, EmptiedLogKeeps
<1>4. CASE Evil!Turn
  BY <1>2, <1>3, <1>4 DEF Evil!Turn, Evil!BeginTurn, Evil!RetryTurn, Evil!EndTurn, Evil!FailTurn
<1>5. CASE Evil!ToolStep
  BY <1>5, CallKeeps, WriteKeeps DEF Evil!ToolStep
<1>6. CASE Evil!Repent
  BY <1>3, <1>6 DEF Evil!Repent
<1>7. CASE UNCHANGED evilVars
  BY <1>2, <1>7 DEF evilVars
<1> QED
  BY <1>4, <1>5, <1>6, <1>7, WriteKeeps, LossKeeps, RevertKeeps DEF Evil!Next

\* The invariant holds along every behaviour.
LEMMA EvilAlong == EachInit /\ [][EachNext]_eachVars => []EvilInv
<1>1. EachInit => EvilInv
  BY EvilStarts DEF EachInit
<1>2. EvilInv /\ [EachNext]_eachVars => EvilInv'
  BY EvilKeeps DEF EachNext, eachVars
<1> QED
  BY <1>1, <1>2, PTL

\* What /revert makes of the files keeps the promises.
GivesBack == Evil!Revert => \A f \in DOMAIN before : Evil!Same(files'[f], before[f])

LEMMA PromisesAreKept ==
    ASSUME EvilInv
    PROVE  GivesBack
<1> SUFFICES ASSUME Evil!Revert, NEW f \in DOMAIN before
             PROVE  Evil!Same(files'[f], before[f])
  BY DEF GivesBack
<1>1. PICK i \in Records : FirstFor(f, i, Records) /\ Evil!Same(Restored(journal[i]), before[f])
  BY DEF EvilInv, Promised
<1>2. f \in File /\ LogIsSound /\ files = [g \in File |-> files[g]]
  BY DEF EvilInv, Promised, FilesAreSound
<1>3. files'[f] = Restored(journal[i])
  BY <1>1, <1>2, RevertUndoesTheRecords, FirstIsOne
<1> QED
  BY <1>1, <1>3

\* Interception: /revert gives every file in the log back what it was before
\* the first of its changes that the log can undo, for any files, calls, edits
\* of the user, backups that fail and backups that get lost.
THEOREM RevertGivesAllBack == EachSpec => RevertGivesBack
<1> DEFINE mvars == Evil!vars
<1>1. EvilInv => [GivesBack]_mvars
  BY PromisesAreKept
<1>2. EachSpec => [][GivesBack]_mvars
  BY <1>1, EvilAlong, PTL DEF EachSpec
<1> QED
  BY <1>2 DEF RevertGivesBack, Evil!RevertGivesBack, GivesBack

==============================================================================
