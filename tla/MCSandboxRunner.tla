-------------------------- MODULE MCSandboxRunner ---------------------------
(* A small instance of SandboxRunner. *)
EXTENDS SandboxRunner
=============================================================================
