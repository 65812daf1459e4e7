--------------------------- MODULE MCDisplayPusher ---------------------------
(***************************************************************************)
(* A panel two wide and two high and two writers.  One critical section    *)
(* draws nothing, a pixel, or a pixel and a position off the panel; two    *)
(* that coalesce before the pusher looks leave a dirty rectangle that      *)
(* covers the whole panel, extended in every direction.                    *)
(***************************************************************************)
EXTENDS DisplayPusher

MCAreas == {{}, {<<1, 0>>}, {<<0, 1>>, <<2, 0>>}}
=============================================================================
