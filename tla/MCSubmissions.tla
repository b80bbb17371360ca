--------------------------- MODULE MCSubmissions ---------------------------
(* A small instance of Submissions. *)
EXTENDS Submissions, TLC

CONSTANTS s1, s2, r1, r2

MCSubOf == (r1 :> s1) @@ (r2 :> s1)
=============================================================================
