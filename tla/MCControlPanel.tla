--------------------------- MODULE MCControlPanel ---------------------------
(***************************************************************************)
(* ControlPanel with cancel requests that meet over a run.                 *)
(***************************************************************************)
EXTENDS ControlPanel
=============================================================================
