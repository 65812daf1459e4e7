------------------------------ MODULE MCPreview ------------------------------
(* Two rows, a canvas that hangs over the edge, and sizes that let one row   *)
(* into a datagram, set in three ways among sizes that are refused.           *)
EXTENDS Preview, TLC

CONSTANT red

MCPictures == {0 :> red @@ 1 :> red, 0 :> Black @@ 1 :> red}

MCPlaces   == {[y |-> 0, z |-> 1], [y |-> -1, z |-> -1]}
MCSizes    == {[param |-> 65507, sndbuf |-> 212992, env |-> 71],
               [param |-> 65507, sndbuf |-> 71,     env |-> 65508],
               [param |-> 71,    sndbuf |-> 0,      env |-> 69]}

=============================================================================
