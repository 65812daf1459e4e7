--------------------------- MODULE MCControlBridge ---------------------------
(* Two threads that serve requests, and brightness of one and three digits.  *)
EXTENDS ControlBridge, TLC

MCLevels   == {5, 100}
MCSymmetry == Permutations(Threads)

=============================================================================
