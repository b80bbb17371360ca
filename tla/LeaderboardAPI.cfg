\* Either board.  File: two upserts at a time, three in all, two runs.  Redis: a
\* run and a post of two teams.  One connection, every fault.
SPECIFICATION APISpec
CONSTANTS
  r1 = r1
  r2 = r2
  u1 = u1
  u2 = u2
  w1 = w1
  t1 = t1
  t2 = t2
  p1 = p1
  Runs = {r1, r2}
  Upserters = {u1, u2}
  Conns = {w1}
  Cap = 1
  MaxUpserts = 3
  Faults = {"disk", "crash"}
  Teams = {t1, t2}
  Publishers = {p1}
  Posters = {u1}
  TeamOf <- MCTeamOf
  ScoreOf <- MCScoreOf
  Poller = Poller
  RedisFaults = {"redis"}
INVARIANTS
  AcknowledgedIsDurable
  NeverBehindSubscription
PROPERTIES
  NothingWaitsForAPage
  ViewsConverge
CHECK_DEADLOCK FALSE
