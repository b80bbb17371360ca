-------------------------- MODULE MCLeaderboardAPI --------------------------
(* A small instance of LeaderboardAPI. *)
EXTENDS LeaderboardAPI, TLC

CONSTANTS r1, r2, u1, u2, w1, t1, t2, p1

\* A run of one team and a post for another.
MCTeamOf  == p1 :> t1 @@ u1 :> t2
MCScoreOf == p1 :> 2 @@ u1 :> 3
=============================================================================
