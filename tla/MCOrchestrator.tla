--------------------------- MODULE MCOrchestrator ---------------------------
(* Small instances of Orchestrator: two runs, the second one created later. *)
EXTENDS Orchestrator, TLC

CONSTANTS r1, r2, s1, s2, c1, c2

TwoCreatedAt == r1 :> 1 @@ r2 :> 2
OneCreatedAt == r1 :> 1

SlotSymmetry == Permutations(Slots)
=============================================================================
