--------------------------- MODULE MCDisruptorRing --------------------------
(* Small instances of DisruptorRing. *)
EXTENDS DisruptorRing

CONSTANTS p1, p2, p3
=============================================================================
