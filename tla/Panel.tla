-------------------------------- MODULE Panel --------------------------------
(***************************************************************************)
(* What a display with its own presenting thread promises its writers:     *)
(* the panel only ever shows whole frames that were sent, a frame that     *)
(* comes too fast is overtaken by the next one, and none is shown after a  *)
(* later one (docs/WriterPathDecoupling.md, "Commit 2").                   *)
(***************************************************************************)
CONSTANTS
  Frames,   \* everything that can be on the panel
  Dark      \* the frame the display starts with

VARIABLES
  latest,   \* the frame last sent
  taken,    \* the frame being presented
  shown     \* the frame on the panel

Init ==
  /\ latest = Dark
  /\ taken = Dark
  /\ shown = Dark

Publish ==
  /\ latest' \in Frames
  /\ UNCHANGED <<taken, shown>>

\* Only once the last frame taken is on the panel.
Take ==
  /\ shown = taken
  /\ taken' = latest
  /\ UNCHANGED <<latest, shown>>

Show ==
  /\ shown' = taken
  /\ UNCHANGED <<latest, taken>>

Next == Publish \/ Take \/ Show

Spec == Init /\ [][Next]_<<latest, taken, shown>>

=============================================================================
