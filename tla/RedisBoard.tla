----------------------------- MODULE RedisBoard -----------------------------
(***************************************************************************)
(* The live leaderboard.  Score-engine processes publish a run's score to  *)
(* redis in several commands (live.rs); leaderboard-api posts an entry in  *)
(* one transaction and, in a poller and after every post, reads ranking    *)
(* and scorecards back, installs the snapshot and broadcasts it after the  *)
(* unlock (redisboard.go).                                                 *)
(*                                                                         *)
(* A score is a positive number; 0 stands for a key that does not exist.   *)
(***************************************************************************)
EXTENDS Naturals, Sequences

CONSTANTS
  Teams,
  Publishers,  \* score-engine processes, one for each scored run
  Posters,     \* POST /leaderboard/runs requests
  TeamOf,      \* the team and
  ScoreOf,     \* the score that each of these writes
  Poller,      \* the background refresh
  Conns,       \* WebSocket connections
  Cap,         \* buffer of a subscriber's channel, 8 in the code
  Faults       \* subset of {"redis"}: commands may fail, until an outage ends

Writers    == Publishers \cup Posters
Refreshers == Posters \cup {Poller}
Scores     == {ScoreOf[w] : w \in Writers} \cup {0}

VARIABLES
  zset, card,  \* leaderboard:global, and the score field of team:*:scorecard
  best, last,  \* team:*:best_score, and the score of submission:*:last_run
  pc,          \* control point of each publisher and poster
  prev,        \* the best score a publisher has read
  rpc,         \* control point of each refresh,
  ranked, read, todo, \* the ranking and scorecards it has, and has yet to read,
  targets,     \* and the subscribers it has yet to serve
  payload,     \* b.snapshot and b.lastPayload
  subscribers, cpc, seed, buffer, shown, \* WebSocket connections
  outage       \* redis may fail to execute a command

redisv   == <<zset, card, best, last>>
writerv  == <<pc, prev>>
refreshv == <<rpc, ranked, read, todo, targets, payload>>
connv    == <<subscribers, cpc, seed, buffer, shown>>
vars     == <<redisv, writerv, refreshv, connv, outage>>

\* A snapshot gives each team the score it is ranked by and the one it shows.
View     == [Teams -> Scores \X Scores]
NoRanks  == [t \in Teams |-> <<0, 0>>]
NoScores == [t \in Teams |-> 0]

TypeOK ==
  /\ zset \in [Teams -> Scores] /\ card \in [Teams -> Scores]
  /\ best \in [Teams -> Scores] /\ last \in [Teams -> Scores]
  /\ pc \in [Writers -> {"zadd", "get", "set", "last", "hset", "post",
                         "refresh", "done"}]
  /\ prev \in [Publishers -> Scores]
  /\ rpc \in [Refreshers -> {"idle", "cards", "send"}]
  /\ ranked \in [Refreshers -> [Teams -> Scores]]
  /\ read \in [Refreshers -> [Teams -> Scores]]
  /\ todo \in [Refreshers -> SUBSET Teams]
  /\ targets \in [Refreshers -> SUBSET Conns]
  /\ payload \in View
  /\ subscribers \in SUBSET Conns
  /\ cpc \in [Conns -> {"new", "seed", "open", "closed"}]
  /\ seed \in [Conns -> View]
  /\ buffer \in [Conns -> Seq(View)]
  /\ \A c \in Conns : Len(buffer[c]) <= Cap
  /\ shown \in [Conns -> View]
  /\ outage \in BOOLEAN

Init ==
  /\ zset = NoScores /\ card = zset /\ best = zset /\ last = zset
  /\ pc = [w \in Writers |-> IF w \in Publishers THEN "zadd" ELSE "post"]
  /\ prev = [p \in Publishers |-> 0]
  /\ rpc = [r \in Refreshers |-> "idle"]
  /\ ranked = [r \in Refreshers |-> zset] /\ read = ranked
  /\ todo = [r \in Refreshers |-> {}]
  /\ targets = [r \in Refreshers |-> {}]
  /\ payload = NoRanks
  /\ subscribers = {}
  /\ cpc = [c \in Conns |-> "new"]
  /\ seed = [c \in Conns |-> NoRanks]
  /\ buffer = [c \in Conns |-> <<>>]
  /\ shown = [c \in Conns |-> NoRanks]
  /\ outage = ("redis" \in Faults)

-----------------------------------------------------------------------------
(* publish_leaderboard of the score engine: one command after the other *)

Put(f, w) == [f EXCEPT ![TeamOf[w]] = ScoreOf[w]]

Step(w, from, to) == pc[w] = from /\ pc' = [pc EXCEPT ![w] = to]

ZAdd(p) ==
  /\ Step(p, "zadd", "get")
  /\ zset' = Put(zset, p)
  /\ UNCHANGED <<card, best, last, prev, refreshv, connv, outage>>

\* A failed read passes for a key that does not exist.
GetBest(p) ==
  /\ Step(p, "get", "set")
  /\ \/ prev' = [prev EXCEPT ![p] = best[TeamOf[p]]]
     \/ outage /\ prev' = [prev EXCEPT ![p] = 0]
  /\ UNCHANGED <<redisv, refreshv, connv, outage>>

SetBest(p) ==
  /\ Step(p, "set", "last")
  /\ best' = IF ScoreOf[p] > prev[p] THEN Put(best, p) ELSE best
  /\ prev' = [prev EXCEPT ![p] = 0]
  /\ UNCHANGED <<zset, card, last, refreshv, connv, outage>>

SetLastRun(p) ==
  /\ Step(p, "last", "hset")
  /\ last' = Put(last, p)
  /\ UNCHANGED <<zset, card, best, prev, refreshv, connv, outage>>

\* The error of the last command is ignored.
HSet(p) ==
  /\ Step(p, "hset", "done")
  /\ card' = Put(card, p) \/ (outage /\ UNCHANGED card)
  /\ UNCHANGED <<zset, best, last, prev, refreshv, connv, outage>>

\* A command fails, or its answer is lost after it was executed, and the function
\* returns.
Abort(p) ==
  /\ outage
  /\ \/ /\ Step(p, "zadd", "done") /\ zset' \in {zset, Put(zset, p)}
        /\ UNCHANGED <<card, best, last>>
     \/ /\ Step(p, "set", "done") /\ ScoreOf[p] > prev[p]
        /\ best' \in {best, Put(best, p)} /\ UNCHANGED <<zset, card, last>>
     \/ /\ Step(p, "last", "done") /\ last' \in {last, Put(last, p)}
        /\ UNCHANGED <<zset, card, best>>
  /\ UNCHANGED <<prev, refreshv, connv, outage>>

\* Upsert of leaderboard-api: a transaction, then a refresh unless it failed or its
\* answer was lost.
Post(u) ==
  /\ \/ Step(u, "post", "refresh") /\ zset' = Put(zset, u) /\ card' = Put(card, u)
     \/ /\ outage /\ Step(u, "post", "done")
        /\ \/ UNCHANGED <<zset, card>>
           \/ zset' = Put(zset, u) /\ card' = Put(card, u)
  /\ UNCHANGED <<best, last, prev, refreshv, connv, outage>>

-----------------------------------------------------------------------------
(* refresh *)

\* The refresh of a poster is part of its request.
Returned(r) ==
  pc' = IF r \in Posters THEN [pc EXCEPT ![r] = "done"] ELSE pc

\* ZRevRangeWithScores
ReadRanking(r) ==
  /\ rpc[r] = "idle" /\ (r \in Posters => pc[r] = "refresh")
  /\ ranked' = [ranked EXCEPT ![r] = zset]
  /\ read' = [read EXCEPT ![r] = NoScores]
  /\ todo' = [todo EXCEPT ![r] = {t \in Teams : zset[t] # 0}]
  /\ rpc' = [rpc EXCEPT ![r] = "cards"]
  /\ UNCHANGED <<redisv, writerv, targets, payload, connv, outage>>

\* ... which fails, and the snapshot stays.
RankingFails(r) ==
  /\ outage /\ rpc[r] = "idle" /\ (r \in Posters => pc[r] = "refresh")
  /\ Returned(r)
  /\ UNCHANGED <<redisv, prev, refreshv, connv, outage>>

\* The pipelined HGetAll commands, in the order of the ranking; a failed one is
\* as good as an empty scorecard.
ReadCard(r, t) ==
  /\ rpc[r] = "cards" /\ t \in todo[r]
  /\ \A q \in todo[r] : ranked[r][q] <= ranked[r][t]
  /\ \/ read' = [read EXCEPT ![r][t] = card[t]]
     \/ outage /\ UNCHANGED read
  /\ todo' = [todo EXCEPT ![r] = @ \ {t}]
  /\ UNCHANGED <<redisv, writerv, rpc, ranked, targets, payload, connv, outage>>

\* applyScorecard, for a scorecard that exists.
ShownScore(rank, fromCard) == IF fromCard = 0 THEN rank ELSE fromCard

\* The entries: ranked by the ranking's score, shown with the scorecard's.
Entries(ranks, cards) ==
  [t \in Teams |->
     IF ranks[t] = 0 THEN <<0, 0>> ELSE <<ranks[t], ShownScore(ranks[t], cards[t])>>]

\* Mutant: the comparison that the comments describe.
RankingDiffers(new) == new # payload

\* bytesEqual compares payloads that carry the time of the refresh, since
\* applyScorecard leaves UpdatedAt alone: only empty boards compare equal.
Changed(new) == new # NoRanks \/ new # payload

\* The snapshot that List and Subscribe give out from now on.
Served(new) == new

\* The critical section of refresh.
Install(r) ==
  /\ rpc[r] = "cards" /\ todo[r] = {}
  /\ LET new == Entries(ranked[r], read[r]) IN
     /\ payload' = Served(new)
     /\ targets' = [targets EXCEPT ![r] =
                      IF Changed(new) THEN subscribers ELSE {}]
     /\ ranked' = [ranked EXCEPT ![r] = [t \in Teams |-> new[t][1]]]
     /\ read' = [read EXCEPT ![r] = [t \in Teams |-> new[t][2]]]
  /\ rpc' = [rpc EXCEPT ![r] = "send"]
  /\ UNCHANGED <<redisv, writerv, todo, connv, outage>>

\* A send in a select with a default branch.
Send(c, view) ==
  buffer' = [buffer EXCEPT ![c] = IF Len(@) < Cap THEN Append(@, view) ELSE @]

Broadcast(r, c) ==
  /\ rpc[r] = "send" /\ c \in targets[r]
  /\ Send(c, Entries(ranked[r], read[r]))
  /\ targets' = [targets EXCEPT ![r] = @ \ {c}]
  /\ UNCHANGED <<redisv, writerv, rpc, ranked, read, todo, payload,
                 subscribers, cpc, seed, shown, outage>>

\* The refresh returns, and forgets what it has read.
Finish(r) ==
  /\ rpc[r] = "send" /\ targets[r] = {}
  /\ rpc' = [rpc EXCEPT ![r] = "idle"]
  /\ ranked' = [ranked EXCEPT ![r] = NoScores]
  /\ read' = [read EXCEPT ![r] = NoScores]
  /\ Returned(r)
  /\ UNCHANGED <<redisv, prev, todo, targets, payload, connv, outage>>

-----------------------------------------------------------------------------
(* WebSocket connections *)

Subscribe(c) ==
  /\ cpc[c] = "new"
  /\ subscribers' = subscribers \cup {c}
  /\ seed' = [seed EXCEPT ![c] = payload]
  /\ cpc' = [cpc EXCEPT ![c] = "seed"]
  /\ UNCHANGED <<redisv, writerv, refreshv, buffer, shown, outage>>

SeedSubscriber(c) ==
  /\ cpc[c] = "seed"
  /\ Send(c, seed[c])
  /\ seed' = [seed EXCEPT ![c] = NoRanks]
  /\ cpc' = [cpc EXCEPT ![c] = "open"]
  /\ UNCHANGED <<redisv, writerv, refreshv, subscribers, shown, outage>>

Deliver(c) ==
  /\ cpc[c] = "open" /\ buffer[c] # <<>>
  /\ shown' = [shown EXCEPT ![c] = Head(buffer[c])]
  /\ buffer' = [buffer EXCEPT ![c] = Tail(@)]
  /\ UNCHANGED <<redisv, writerv, refreshv, subscribers, cpc, seed, outage>>

Close(c) ==
  /\ cpc[c] = "open"
  /\ cpc' = [cpc EXCEPT ![c] = "closed"]
  /\ subscribers' = subscribers \ {c}
  /\ shown' = [shown EXCEPT ![c] = NoRanks]
  /\ buffer' = [buffer EXCEPT ![c] = <<>>]
  /\ UNCHANGED <<redisv, writerv, refreshv, seed, outage>>

-----------------------------------------------------------------------------

OutageEnds ==
  /\ outage /\ outage' = FALSE
  /\ UNCHANGED <<redisv, writerv, refreshv, connv>>

PublisherStep(p) ==
  ZAdd(p) \/ GetBest(p) \/ SetBest(p) \/ SetLastRun(p) \/ HSet(p) \/ Abort(p)

RefreshStep(r) ==
  \/ ReadRanking(r) \/ RankingFails(r) \/ Install(r) \/ Finish(r)
  \/ \E t \in Teams : ReadCard(r, t)
  \/ \E c \in Conns : Broadcast(r, c)

Next ==
  \/ \E p \in Publishers : PublisherStep(p)
  \/ \E u \in Posters : Post(u)
  \/ \E r \in Refreshers : RefreshStep(r)
  \/ \E c \in Conns : \/ Subscribe(c) \/ SeedSubscriber(c) \/ Deliver(c)
                      \/ Close(c)
  \/ OutageEnds

Spec == Init /\ [][Next]_vars

-----------------------------------------------------------------------------
(* Properties *)

Written == \A w \in Writers : pc[w] = "done"

\* Once the writers and an outage are over, the board comes to serve what redis holds, and an
\* open page to show it, for good: a refresh that read before the last write
\* and installs after it, a seed that comes after a newer broadcast and a send
\* that is dropped are all made up for by the next poll.  What an outage left
\* half written in redis is served as it is.
BoardConverges ==
  Written ~> [](payload = Entries(zset, card))

\* The same for the pages.
PagesConverge ==
  \A c \in Conns :
    Written /\ cpc[c] = "open"
      ~> [](cpc[c] = "open" => shown[c] = Entries(zset, card))

\* live.rs: the scorecard is "Keyed by team so the latest run wins", and the
\* ranking always reflects "the latest run's score": when no run is being
\* published, ranking and scorecard are of the same run.
LatestRunWins ==
  (\A p \in Publishers : pc[p] \in {"zadd", "done"}) => zset = card

\* live.rs: the team's best score is kept "so a regression run doesn't demote
\* them".
BestNeverFalls == [][\A t \in Teams : best'[t] >= best[t]]_vars

\* redisboard.go: refresh "broadcasts if it changed".
BroadcastOnlyOnChange ==
  [][\A r \in Refreshers : targets[r] = {} /\ targets'[r] # {}
       => payload' # payload]_vars
=============================================================================
