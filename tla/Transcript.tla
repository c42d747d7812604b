----------------------------- MODULE Transcript -----------------------------
(***************************************************************************)
(* What a conversation promises, whoever drives it: the messages form one  *)
(* append-only log, and the model is shown either all of it or a summary   *)
(* followed by an uncut suffix.  The part behind the summary only grows,   *)
(* and a suffix never begins with a tool result, whose tool use would then *)
(* be hidden by the summary.                                               *)
(***************************************************************************)
EXTENDS Naturals, Sequences

CONSTANTS Entry,         \* log entries
          IsResult(_),   \* the entries that answer an earlier one
          Summary        \* the entry that stands for a hidden prefix

VARIABLES log,      \* every message so far
          hidden,   \* how many of them are behind the summary
          view      \* what the model is sent

View(l, h) ==
    (IF h = 0 THEN << >> ELSE <<Summary>>) \o SubSeq(l, h + 1, Len(l))

Front(l) == SubSeq(l, 1, Len(l) - 1)
Last(l) == l[Len(l)]

Boundary(l, h) == h < Len(l) => ~IsResult(l[h + 1])

Init == log = << >> /\ hidden = 0 /\ view = << >>

\* A message is appended; at the same time more of the log may be hidden.
Extend ==
    /\ log' # << >> /\ Front(log') = log /\ Last(log') \in Entry
    /\ \/ hidden' = hidden
       \/ /\ hidden' \in (hidden + 1)..Len(log')
          /\ Boundary(log', hidden')
    /\ view' = View(log', hidden')

Next == Extend

Spec == Init /\ [][Next]_<<log, hidden, view>>

=============================================================================
