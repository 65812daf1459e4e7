------------------------------- MODULE Playout -------------------------------
(***************************************************************************)
(* What the scheduler's wall is promised to show, with no builder, no      *)
(* running order and no invalidation: one thing at a time is on, it stays  *)
(* what it is until the next one takes over ("indices already built stay   *)
(* pinned to what they were"), and if an entry has been asked for it is    *)
(* that one that comes next.                                               *)
(***************************************************************************)
EXTENDS Integers

CONSTANTS
  Entries,   \* what can be asked for
  Things,    \* what can be on, records with the entry they are of
  NULL       \* nothing has been asked for

VARIABLES
  count,     \* how many have been on before
  playing,   \* what is on
  wanted     \* the entry asked for, until it comes

Init ==
  /\ count = 0
  /\ playing \in Things
  /\ wanted = NULL

\* Somebody asks for an entry to come next, or no longer does.
Ask ==
  /\ wanted' \in Entries \union {NULL}
  /\ UNCHANGED <<count, playing>>

TakeOver ==
  /\ count' = count + 1
  /\ playing' \in Things
  /\ wanted # NULL => playing'.entry = wanted
  /\ wanted' = NULL

Next == Ask \/ TakeOver

Spec == Init /\ [][Next]_<<count, playing, wanted>>

=============================================================================
