----------------------------- MODULE MCScheduler -----------------------------
(***************************************************************************)
(* Two demos, one of which may fail to build, and an external program.     *)
(***************************************************************************)
EXTENDS Scheduler

CONSTANTS Boing, Water, Pacman

MCOrder     == <<Boing, Water, Pacman>>
MCSeconds   == [e \in Entries |-> 2]
MCStarts    == {Entries, Entries \ {Water}}
MCInstalled == [e \in Entries |-> "installed"]
=============================================================================
