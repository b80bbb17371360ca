--------------------------- MODULE LeaderboardAPI ---------------------------
(***************************************************************************)
(* services/leaderboard-api: main.go puts the file board or the redis board *)
(* behind the same handlers.  The variables of Leaderboard are those of the *)
(* file board; the board that was not chosen stays as it was.               *)
(***************************************************************************)
EXTENDS Leaderboard

CONSTANTS
  Teams, Publishers, Posters, TeamOf, ScoreOf, Poller, RedisFaults

VARIABLES
  backend,  \* LEADERBOARD_BACKEND
  zset, card, best, last, pc, prev, rpc, ranked, read, todo, rtargets, rpayload,
  rsubscribers, cpc, rseed, rbuffer, rshown, outage

redisv == <<zset, card, best, last, pc, prev, rpc, ranked, read, todo, rtargets,
            rpayload, rsubscribers, cpc, rseed, rbuffer, rshown, outage>>
apiv   == <<backend, vars, redisv>>

Redis == INSTANCE RedisBoard WITH
  Faults <- RedisFaults, targets <- rtargets, payload <- rpayload,
  subscribers <- rsubscribers, seed <- rseed, buffer <- rbuffer, shown <- rshown

ASSUME TeamOfAssumption == TeamOf \in [Publishers \cup Posters -> Teams]
ASSUME ScoreOfAssumption == ScoreOf \in [Publishers \cup Posters -> Nat \ {0}]
ASSUME PollerAssumption == Poller \notin Publishers \cup Posters
ASSUME RedisFaultsAssumption == RedisFaults \subseteq {"redis"}

APIInit == backend \in {"file", "redis"} /\ Init /\ Redis!Init

APINext ==
  \/ backend = "file" /\ Next /\ UNCHANGED <<backend, redisv>>
  \/ backend = "redis" /\ Redis!Next /\ UNCHANGED <<backend, vars>>

\* Processes and goroutines run, the ticker of the redis board ticks, its pages
\* read, outages of redis end.  Pages of the file board may never read.
APIFairness ==
  /\ \A u \in Upserters : WF_vars(backend = "file" /\ UpsertStep(u))
  /\ \A c \in Conns : WF_vars(backend = "file" /\ SeedSubscriber(c))
  /\ \A p \in Publishers : WF_redisv(backend = "redis" /\ Redis!PublisherStep(p))
  /\ \A r \in Posters \cup {Poller} :
       WF_redisv(backend = "redis" /\ Redis!RefreshStep(r))
  /\ \A c \in Conns :
       /\ WF_redisv(backend = "redis" /\ Redis!SeedSubscriber(c))
       /\ WF_redisv(backend = "redis" /\ Redis!Deliver(c))
  /\ WF_redisv(backend = "redis" /\ Redis!OutageEnds)

APISpec == APIInit /\ [][APINext]_apiv /\ APIFairness

-----------------------------------------------------------------------------
\* Once the writers and an outage are over, the redis board comes to serve what
\* redis holds, and every open page to show it, for good.
ViewsConverge == Redis!BoardConverges /\ Redis!PagesConverge
=============================================================================
