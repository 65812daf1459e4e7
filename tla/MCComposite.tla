----------------------------- MODULE MCComposite -----------------------------
(***************************************************************************)
(* Three layers over a two-pixel panel.  Datagrams cover one pixel, both,  *)
(* or hang over the edge, and name layers in range and out of it.  The     *)
(* clock starts on a value long past, in the future, or Never.             *)
(***************************************************************************)
EXTENDS Composite

MCLayerArgs  == -1 .. NLayers
MCRects      == {{1}, {1, 2}, {2, 3}}
MCRectsOne   == {{1}}
MCStartTimes == {-9, 0, Never}
=============================================================================
