-------------------------- MODULE LeaderboardProofs -------------------------
(***************************************************************************)
(* Proofs about the leaderboard service, for any number of runs, teams,    *)
(* requests and connections, any buffer size and every set of faults:      *)
(* first the file board by itself, then the service in front of it, then   *)
(* the redis board.                                                        *)
(***************************************************************************)
EXTENDS LeaderboardAPI, SequenceTheorems, TLAPS

USE RunsAssumption, CapAssumption, MaxUpsertsAssumption

\* What a non-blocking send leaves in the channel: the snapshot at its end, or
\* what was there.
LEMMA SendEffect ==
  ASSUME TypeOK, NEW c \in Conns, NEW v \in Snapshot, Send(c, v)
  PROVE  /\ buffer' \in [Conns -> Seq(Snapshot)]
         /\ \A d \in Conns : Len(buffer'[d]) <= Cap
         /\ \A d \in Conns \ {c} : buffer'[d] = buffer[d]
         /\ \A i \in DOMAIN buffer'[c] :
              buffer'[c][i] = v \/ (i \in DOMAIN buffer[c] /\ buffer'[c][i] = buffer[c][i])
         /\ buffer'[c] # <<>>
<1> USE DEF TypeOK, Send, Snapshot
<1>1. buffer[c] \in Seq(Snapshot) /\ Append(buffer[c], v) \in Seq(Snapshot)
  OBVIOUS
<1>2. CASE Len(buffer[c]) < Cap
  <2>1. buffer' = [buffer EXCEPT ![c] = Append(buffer[c], v)]
    BY <1>2
  <2>2. Len(Append(buffer[c], v)) = Len(buffer[c]) + 1
    BY <1>1
  <2>3. \A i \in 1..(Len(buffer[c]) + 1) :
          Append(buffer[c], v)[i] = v \/
          (i \in DOMAIN buffer[c] /\ Append(buffer[c], v)[i] = buffer[c][i])
    BY <1>1
  <2>4. Append(buffer[c], v) # <<>>
    <3>1. Len(buffer[c]) \in Nat
      BY <1>1
    <3>2. Len(Append(buffer[c], v)) # 0 /\ Len(<<>>) = 0
      BY <2>2, <3>1
    <3> QED
      BY <3>2
  <2>5. /\ buffer'[c] = Append(buffer[c], v)
        /\ \A d \in Conns \ {c} : buffer'[d] = buffer[d]
        /\ buffer' \in [Conns -> Seq(Snapshot)]
    BY <1>1, <2>1
  <2>6. DOMAIN Append(buffer[c], v) = 1..(Len(buffer[c]) + 1)
    BY <1>1
  <2>7. Len(Append(buffer[c], v)) <= Cap
    BY <1>1, <1>2, <2>2
  <2>8. \A d \in Conns : Len(buffer'[d]) <= Cap
    BY <2>5, <2>7
  <2> QED
    BY <2>3, <2>4, <2>5, <2>6, <2>8
<1>3. CASE ~(Len(buffer[c]) < Cap)
  <2>1. buffer' = buffer
    BY <1>3
  <2>2. Len(buffer[c]) # 0
    BY <1>1, <1>3
  <2>3. buffer[c] # <<>>
    BY <2>2
  <2> QED
    BY <1>1, <2>1, <2>3
<1> QED
  BY <1>2, <1>3

\* Every step of the board keeps the types, and every buffer its limit.
LEMMA TypeStep == TypeOK /\ [Next]_vars => TypeOK'
<1> SUFFICES ASSUME TypeOK, [Next]_vars PROVE TypeOK'
  OBVIOUS
<1> USE DEF TypeOK, boardv, upsertv, connv, Snapshot
<1>1. ASSUME NEW u \in Upserters, NEW r \in Runs, Upsert(u, r) PROVE TypeOK'
  <2>1. version \in Nat /\ version + 1 \in Snapshot /\ MaxUpserts \in Nat
    BY <1>1 DEF Upsert
  <2>2. /\ version' \in Snapshot
        /\ entries' \in [Runs -> Snapshot]
        /\ payload' \in [Upserters -> Snapshot]
    BY <1>1, <2>1 DEF Upsert
  <2>3. file' \in [Runs -> Snapshot] /\ saved' \in [Upserters -> BOOLEAN]
    BY <1>1, <2>2 DEF Upsert, WriteLocked
  <2>4. /\ upc' \in [Upserters -> {"idle", "send"}]
        /\ urun' \in [Upserters -> Runs]
        /\ targets' \in [Upserters -> SUBSET Conns]
    BY <1>1 DEF Upsert
  <2> QED
    BY <1>1, <2>2, <2>3, <2>4 DEF Upsert
<1>2. ASSUME NEW u \in Upserters, NEW c \in Conns, Broadcast(u, c) PROVE TypeOK'
  BY <1>2, SendEffect DEF Broadcast
<1>3. ASSUME NEW u \in Upserters, Return(u) PROVE TypeOK'
  BY <1>3 DEF Return
<1>4. ASSUME NEW c \in Conns, Subscribe(c) \/ Close(c) PROVE TypeOK'
  BY <1>4 DEF Subscribe, Close
<1>5. ASSUME NEW c \in Conns, SeedSubscriber(c) PROVE TypeOK'
  BY <1>5, SendEffect DEF SeedSubscriber
<1>6. ASSUME NEW c \in Conns, Deliver(c) PROVE TypeOK'
  <2>1. /\ Head(buffer[c]) \in Snapshot /\ Tail(buffer[c]) \in Seq(Snapshot)
        /\ Len(Tail(buffer[c])) <= Cap
    BY <1>6 DEF Deliver
  <2> QED
    BY <1>6, <2>1 DEF Deliver, Replace
<1>7. CASE Restart
  BY <1>7 DEF Restart
<1>8. CASE UNCHANGED vars
  BY <1>8 DEF vars
<1> QED
  BY <1>1, <1>2, <1>3, <1>4, <1>5, <1>6, <1>7, <1>8 DEF Next, UpsertStep

\* The board's variables keep their types, and no buffer outgrows its limit.
THEOREM TypeCorrect == Spec => []TypeOK
<1>1. Init => TypeOK
  <2> SUFFICES ASSUME Init PROVE TypeOK
    OBVIOUS
  <2>1. (CHOOSE r \in Runs : TRUE) \in Runs
    OBVIOUS
  <2>2. 0 \in Snapshot /\ <<>> \in Seq(Snapshot) /\ Len(<<>>) <= Cap
    BY DEF Snapshot
  <2> QED
    BY <2>1, <2>2 DEF Init, TypeOK
<1> QED
  BY <1>1, TypeStep, PTL DEF Spec

-----------------------------------------------------------------------------

\* The file never runs ahead of the counter, and a request whose write
\* succeeded finds its entry, or a later one, in the file until it answers.
SavedIsInFile ==
  /\ \A r \in Runs : file[r] <= version
  /\ \A u \in Upserters : upc[u] = "send" /\ saved[u] => file[urun[u]] >= payload[u]
  /\ \A r \in Runs : file[r] <= entries[r] /\ entries[r] <= version

\* The invariant behind durability.
DurableInv == AcknowledgedIsDurable /\ SavedIsInFile

\* Acknowledged upserts are durable under disk errors and crashes: a write that
\* fails leaves an older file, but only of requests that are answered with an
\* error, and the next write that succeeds contains all entries.
THEOREM AcknowledgedDurable == Spec => []AcknowledgedIsDurable
<1> USE DEF DurableInv, AcknowledgedIsDurable, SavedIsInFile
<1>1. Init => DurableInv
  BY DEF Init
<1>2. TypeOK /\ DurableInv /\ [Next]_vars => DurableInv'
  <2> SUFFICES ASSUME TypeOK, DurableInv, [Next]_vars PROVE DurableInv'
    OBVIOUS
  <2>0. /\ version \in Nat /\ entries \in [Runs -> Nat] /\ file \in [Runs -> Nat]
        /\ acked \in [Runs -> Nat] /\ payload \in [Upserters -> Nat]
        /\ urun \in [Upserters -> Runs] /\ saved \in [Upserters -> BOOLEAN]
        /\ upc \in [Upserters -> {"idle", "send"}]
    BY DEF TypeOK, Snapshot
  <2> USE DEF boardv, upsertv, connv
  <2>1. ASSUME NEW u \in Upserters, NEW r \in Runs, Upsert(u, r)
        PROVE  DurableInv'
    <3>1. /\ version' = version + 1
          /\ entries' = [entries EXCEPT ![r] = version + 1]
          /\ acked' = acked
          /\ payload' = [payload EXCEPT ![u] = version + 1]
          /\ urun' = [urun EXCEPT ![u] = r]
          /\ upc' = [upc EXCEPT ![u] = "send"]
          /\ \/ file' = entries' /\ saved' = [saved EXCEPT ![u] = TRUE]
             \/ file' = file /\ saved' = [saved EXCEPT ![u] = FALSE]
      BY <2>1 DEF Upsert, WriteLocked
    <3>2. \A q \in Runs : entries'[q] >= entries[q] /\ entries'[q] <= version'
      BY <2>0, <3>1
    <3>3. \A q \in Runs : file'[q] >= file[q] /\ file'[q] <= entries'[q]
                          /\ file'[q] \in Nat /\ entries'[q] \in Nat
      BY <2>0, <3>1, <3>2
    <3>4. \A w \in Upserters : upc'[w] = "send" /\ saved'[w]
            => file'[urun'[w]] >= payload'[w]
      <4> SUFFICES ASSUME NEW w \in Upserters, upc'[w] = "send", saved'[w]
                   PROVE  file'[urun'[w]] >= payload'[w]
        OBVIOUS
      <4>1. CASE w = u
        BY <2>0, <3>1, <4>1
      <4>2. CASE w # u
        BY <2>0, <3>1, <3>3, <4>2
      <4> QED
        BY <4>1, <4>2
    <3>5. \A q \in Runs : file'[q] >= acked'[q]
      BY <2>0, <3>1, <3>3
    <3>6. \A q \in Runs : file'[q] <= version'
      BY <2>0, <3>1, <3>2, <3>3
    <3> QED
      BY <3>2, <3>3, <3>4, <3>5, <3>6
  <2>2. ASSUME NEW u \in Upserters, NEW c \in Conns, Broadcast(u, c)
        PROVE  DurableInv'
    BY <2>0, <2>2 DEF Broadcast
  <2>3. ASSUME NEW u \in Upserters, Return(u) PROVE DurableInv'
    BY <2>0, <2>3 DEF Return
  <2>4. ASSUME NEW c \in Conns,
               Subscribe(c) \/ SeedSubscriber(c) \/ Deliver(c) \/ Close(c)
        PROVE  DurableInv'
    BY <2>4 DEF Subscribe, SeedSubscriber, Deliver, Close
  <2>5. CASE Restart
    BY <2>0, <2>5 DEF Restart
  <2>6. CASE UNCHANGED vars
    BY <2>6 DEF vars
  <2> QED
    BY <2>1, <2>2, <2>3, <2>4, <2>5, <2>6 DEF Next, UpsertStep
<1> QED
  BY <1>1, <1>2, TypeCorrect, PTL DEF Spec

-----------------------------------------------------------------------------

\* A connection that has not been seeded was never sent anything older than its
\* seed, because its channel was registered in the critical section that took
\* the seed: a request that has it among its targets is numbered later.
LaterThanSeed ==
  /\ \A c \in Conns : seed[c] <= version
  /\ \A c \in Conns : wpc[c] = "new" =>
       /\ seed[c] = 0 /\ buffer[c] = <<>> /\ c \notin subscribers
       /\ \A u \in Upserters : c \notin targets[u]
  /\ \A u \in Upserters, c \in Conns :
       upc[u] = "send" /\ c \in targets[u] => payload[u] >= seed[c]
  /\ \A u \in Upserters : payload[u] <= version

\* The invariant of the subscriptions.
SubscriptionInv == NeverBehindSubscription /\ LaterThanSeed

\* No channel ever carries a snapshot older than the board its subscriber
\* registered with, and no open connection is left without one.
THEOREM NeverBehind == Spec => []NeverBehindSubscription
<1> USE DEF SubscriptionInv, NeverBehindSubscription, LaterThanSeed
<1>1. Init => SubscriptionInv
  BY DEF Init
<1>2. TypeOK /\ SubscriptionInv /\ [Next]_vars => SubscriptionInv'
  <2> SUFFICES ASSUME TypeOK, SubscriptionInv, [Next]_vars PROVE SubscriptionInv'
    OBVIOUS
  <2>0. /\ version \in Nat /\ payload \in [Upserters -> Nat]
        /\ upc \in [Upserters -> {"idle", "send"}]
        /\ targets \in [Upserters -> SUBSET Conns]
        /\ seed \in [Conns -> Nat] /\ shown \in [Conns -> Nat]
        /\ wpc \in [Conns -> {"new", "seed", "open", "closed"}]
        /\ buffer \in [Conns -> Seq(Nat)]
    <3>1. Snapshot \subseteq Nat
      BY DEF Snapshot
    <3>2. \A q \in Seq(Snapshot) : q \in Seq(Nat)
      BY <3>1, SeqMonotonic
    <3> QED
      BY <3>1, <3>2 DEF TypeOK
  <2> USE DEF boardv, upsertv, connv
  <2>1. ASSUME NEW u \in Upserters, NEW r \in Runs, Upsert(u, r)
        PROVE  SubscriptionInv'
    <3>1. /\ version' = version + 1
          /\ payload' = [payload EXCEPT ![u] = version + 1]
          /\ targets' = [targets EXCEPT ![u] = subscribers]
          /\ upc' = [upc EXCEPT ![u] = "send"]
          /\ UNCHANGED <<subscribers, wpc, seed, buffer, shown>>
      BY <2>1 DEF Upsert
    <3> QED
      BY <2>0, <3>1
  <2>2. ASSUME NEW u \in Upserters, NEW c \in Conns, Broadcast(u, c)
        PROVE  SubscriptionInv'
    <3>1. /\ payload[u] \in Snapshot /\ payload[u] >= seed[c] /\ wpc[c] # "new"
          /\ upc[u] = "send" /\ c \in targets[u] /\ Send(c, payload[u])
          /\ targets' = [targets EXCEPT ![u] = @ \ {c}]
          /\ UNCHANGED <<version, payload, upc, subscribers, wpc, seed, shown>>
      BY <2>2 DEF Broadcast, TypeOK
    <3>2. /\ \A d \in Conns \ {c} : buffer'[d] = buffer[d]
          /\ \A i \in DOMAIN buffer'[c] :
               buffer'[c][i] = payload[u] \/ (i \in DOMAIN buffer[c] /\ buffer'[c][i] = buffer[c][i])
          /\ buffer'[c] # <<>>
      BY <3>1, SendEffect
    <3>3. NeverBehindSubscription'
      BY <2>0, <3>1, <3>2
    <3>4. LaterThanSeed'
      BY <2>0, <3>1, <3>2
    <3> QED
      BY <3>3, <3>4
  <2>3. ASSUME NEW u \in Upserters, Return(u) PROVE SubscriptionInv'
    BY <2>0, <2>3 DEF Return
  <2>4. ASSUME NEW c \in Conns, Subscribe(c) PROVE SubscriptionInv'
    <3>1. /\ wpc[c] = "new"
          /\ subscribers' = subscribers \cup {c}
          /\ seed' = [seed EXCEPT ![c] = version]
          /\ wpc' = [wpc EXCEPT ![c] = "seed"]
          /\ UNCHANGED <<version, payload, upc, targets, buffer, shown>>
      BY <2>4 DEF Subscribe
    <3>2. NeverBehindSubscription'
      BY <2>0, <3>1
    <3>3. LaterThanSeed'
      BY <2>0, <3>1
    <3> QED
      BY <3>2, <3>3
  <2>5. ASSUME NEW c \in Conns, SeedSubscriber(c) PROVE SubscriptionInv'
    <3>1. /\ wpc[c] = "seed" /\ seed[c] \in Snapshot /\ Send(c, seed[c])
          /\ wpc' = [wpc EXCEPT ![c] = "open"]
          /\ UNCHANGED <<version, payload, upc, targets, subscribers, seed, shown>>
      BY <2>5 DEF SeedSubscriber, TypeOK
    <3>2. /\ \A d \in Conns \ {c} : buffer'[d] = buffer[d]
          /\ \A i \in DOMAIN buffer'[c] :
               buffer'[c][i] = seed[c] \/ (i \in DOMAIN buffer[c] /\ buffer'[c][i] = buffer[c][i])
          /\ buffer'[c] # <<>>
      BY <3>1, SendEffect
    <3>3. NeverBehindSubscription'
      <4>1. \A d \in Conns : \A i \in DOMAIN buffer'[d] :
              buffer'[d][i] >= seed[d]
        <5> SUFFICES ASSUME NEW d \in Conns, NEW i \in DOMAIN buffer'[d]
                     PROVE  buffer'[d][i] >= seed[d]
          OBVIOUS
        <5>1. seed[d] \in Nat /\ seed[d] >= seed[d]
          BY <2>0
        <5>2. CASE d = c
          BY <3>2, <5>1, <5>2
        <5>3. CASE d # c
          BY <3>2, <5>3
        <5> QED
          BY <5>2, <5>3
      <4>2. \A d \in Conns :
              wpc'[d] = "open" /\ buffer'[d] = <<>> => shown[d] >= seed[d]
        BY <2>0, <3>1, <3>2
      <4> QED
        BY <3>1, <4>1, <4>2
    <3>4. LaterThanSeed'
      BY <2>0, <3>1, <3>2
    <3> QED
      BY <3>3, <3>4
  <2>6. ASSUME NEW c \in Conns, Deliver(c) PROVE SubscriptionInv'
    <3>1. /\ wpc[c] = "open" /\ buffer[c] \in Seq(Nat) /\ buffer[c] # <<>>
          /\ shown' = [shown EXCEPT ![c] = Head(buffer[c])]
          /\ buffer' = [buffer EXCEPT ![c] = Tail(buffer[c])]
          /\ UNCHANGED <<version, payload, upc, targets, subscribers, wpc, seed>>
      BY <2>0, <2>6 DEF Deliver, Replace
    <3>2. /\ Head(buffer[c]) = buffer[c][1] /\ 1 \in DOMAIN buffer[c]
          /\ \A i \in DOMAIN Tail(buffer[c]) :
               i + 1 \in DOMAIN buffer[c] /\ Tail(buffer[c])[i] = buffer[c][i + 1]
      BY <3>1, HeadTailProperties
    <3>3. NeverBehindSubscription'
      BY <2>0, <3>1, <3>2
    <3>4. LaterThanSeed'
      BY <2>0, <3>1
    <3> QED
      BY <3>3, <3>4
  <2>7. ASSUME NEW c \in Conns, Close(c) PROVE SubscriptionInv'
    BY <2>0, <2>7 DEF Close
  <2>8. CASE Restart
    BY <2>0, <2>8 DEF Restart
  <2>9. CASE UNCHANGED vars
    BY <2>9 DEF vars
  <2> QED
    BY <2>1, <2>2, <2>3, <2>4, <2>5, <2>6, <2>7, <2>8, <2>9 DEF Next, UpsertStep
<1> QED
  BY <1>1, <1>2, TypeCorrect, PTL DEF Spec
-----------------------------------------------------------------------------
(* The service, which serves one of the two boards *)

\* Whichever board is configured, the variables of the file board behave as
\* Leaderboard says: the redis board leaves them alone.
THEOREM ServesTheFileBoard == APISpec => Spec
<1>1. APIInit => Init
  BY DEF APIInit
<1>2. [APINext]_apiv => [Next]_vars
  BY DEF APINext, apiv
<1> QED
  BY <1>1, <1>2, PTL DEF APISpec, Spec

\* What the service, when it serves the file board, answers without an error is
\* durable.
THEOREM ServiceIsDurable == APISpec => []AcknowledgedIsDurable
BY ServesTheFileBoard, AcknowledgedDurable, PTL

\* No subscriber of the service, when it serves the file board, is sent a board
\* older than the one it subscribed to.
THEOREM ServiceNeverBehind == APISpec => []NeverBehindSubscription
BY ServesTheFileBoard, NeverBehind, PTL

-----------------------------------------------------------------------------
(* The redis board *)

\* What a non-blocking send of the redis board leaves in the channel.
LEMMA RedisSendEffect ==
  ASSUME Redis!TypeOK, NEW c \in Conns, NEW v \in Redis!View, Redis!Send(c, v)
  PROVE  /\ rbuffer' \in [Conns -> Seq(Redis!View)]
         /\ \A d \in Conns : Len(rbuffer'[d]) <= Cap
         /\ \A d \in Conns \ {c} : rbuffer'[d] = rbuffer[d]
         /\ \A i \in DOMAIN rbuffer'[c] :
              rbuffer'[c][i] = v \/ (i \in DOMAIN rbuffer[c] /\ rbuffer'[c][i] = rbuffer[c][i])
<1> DEFINE V == Redis!View
<1>0. /\ rbuffer \in [Conns -> Seq(V)] /\ v \in V
      /\ \A d \in Conns : Len(rbuffer[d]) <= Cap
      /\ rbuffer' = [rbuffer EXCEPT ![c] =
                       IF Len(rbuffer[c]) < Cap THEN Append(rbuffer[c], v) ELSE rbuffer[c]]
  BY DEF Redis!TypeOK, Redis!Send
<1> HIDE DEF V
<1>1. rbuffer[c] \in Seq(V) /\ Append(rbuffer[c], v) \in Seq(V)
  BY <1>0
<1>2. CASE Len(rbuffer[c]) < Cap
  <2>1. rbuffer' = [rbuffer EXCEPT ![c] = Append(rbuffer[c], v)]
    BY <1>0, <1>2
  <2>2. Len(Append(rbuffer[c], v)) = Len(rbuffer[c]) + 1
    BY <1>1
  <2>3. \A i \in 1..(Len(rbuffer[c]) + 1) :
          Append(rbuffer[c], v)[i] = v \/
          (i \in DOMAIN rbuffer[c] /\ Append(rbuffer[c], v)[i] = rbuffer[c][i])
    BY <1>1
  <2>4. /\ rbuffer'[c] = Append(rbuffer[c], v)
        /\ \A d \in Conns \ {c} : rbuffer'[d] = rbuffer[d]
        /\ rbuffer' \in [Conns -> Seq(V)]
    BY <1>0, <1>1, <2>1
  <2>5. DOMAIN Append(rbuffer[c], v) = 1..(Len(rbuffer[c]) + 1)
    BY <1>1
  <2>6. Len(Append(rbuffer[c], v)) <= Cap
    BY <1>1, <1>2, <2>2
  <2>7. \A d \in Conns : Len(rbuffer'[d]) <= Cap
    BY <1>0, <2>4, <2>6
  <2> QED
    BY <2>3, <2>4, <2>5, <2>7 DEF V
<1>3. CASE ~(Len(rbuffer[c]) < Cap)
  <2>1. rbuffer' = rbuffer
    BY <1>0, <1>3
  <2> QED
    BY <1>0, <1>1, <2>1 DEF V
<1> QED
  BY <1>2, <1>3

\* The ranking and the scorecards make a snapshot.
LEMMA EntriesType ==
  ASSUME NEW ranks \in [Teams -> Redis!Scores], NEW cards \in [Teams -> Redis!Scores]
  PROVE  Redis!Entries(ranks, cards) \in Redis!View
<1>1. 0 \in Redis!Scores
  BY DEF Redis!Scores
<1> QED
  BY <1>1 DEF Redis!Entries, Redis!ShownScore, Redis!View

\* A writer writes its score, for its team.
LEMMA PutType ==
  ASSUME NEW w \in Redis!Writers, NEW f \in [Teams -> Redis!Scores]
  PROVE  Redis!Put(f, w) \in [Teams -> Redis!Scores]
BY TeamOfAssumption DEF Redis!Put, Redis!Scores, Redis!Writers

\* Every step of the redis board keeps the types, and every buffer its limit.
LEMMA RedisTypeStep == Redis!TypeOK /\ [Redis!Next]_(Redis!vars) => Redis!TypeOK'
<1> SUFFICES ASSUME Redis!TypeOK, [Redis!Next]_(Redis!vars) PROVE Redis!TypeOK'
  OBVIOUS
<1> DEFINE S == Redis!Scores
           W == Redis!Writers
           R == Redis!Refreshers
           V == Redis!View
<1>0. 0 \in S /\ Redis!NoScores \in [Teams -> S] /\ Redis!NoRanks \in V
  BY DEF Redis!Scores, Redis!NoScores, Redis!NoRanks, Redis!View
<1>a. Publishers \subseteq W /\ Posters \subseteq W /\ Posters \subseteq R
  BY DEF Redis!Writers, Redis!Refreshers
<1> USE DEF Redis!redisv, Redis!writerv, Redis!refreshv, Redis!connv
<1>1. ASSUME NEW p \in Publishers, Redis!PublisherStep(p) PROVE Redis!TypeOK'
  <2>1. ASSUME NEW f \in [Teams -> S] PROVE Redis!Put(f, p) \in [Teams -> S]
    BY <1>a, PutType
  <2> HIDE DEF S, W, R, V
  <2>2. CASE Redis!ZAdd(p)
    BY <2>2, <2>1, <1>a DEF Redis!ZAdd, Redis!Step, Redis!TypeOK, S, W
  <2>3. CASE Redis!GetBest(p)
    BY <2>3, <1>0, <1>a, TeamOfAssumption DEF Redis!GetBest, Redis!Step, Redis!TypeOK, S, W
  <2>4. CASE Redis!SetBest(p)
    BY <2>4, <2>1, <1>0, <1>a DEF Redis!SetBest, Redis!Step, Redis!TypeOK, S, W
  <2>5. CASE Redis!SetLastRun(p)
    BY <2>5, <2>1, <1>a DEF Redis!SetLastRun, Redis!Step, Redis!TypeOK, S, W
  <2>6. CASE Redis!HSet(p)
    BY <2>6, <2>1, <1>a DEF Redis!HSet, Redis!Step, Redis!TypeOK, S, W
  <2>7. CASE Redis!Abort(p)
    BY <2>7, <2>1, <1>a DEF Redis!Abort, Redis!Step, Redis!TypeOK, S, W
  <2> QED
    BY <1>1, <2>2, <2>3, <2>4, <2>5, <2>6, <2>7 DEF Redis!PublisherStep
<1>2. ASSUME NEW u \in Posters, Redis!Post(u) PROVE Redis!TypeOK'
  <2>1. ASSUME NEW f \in [Teams -> S] PROVE Redis!Put(f, u) \in [Teams -> S]
    BY <1>a, PutType
  <2> HIDE DEF S, W, R, V
  <2> QED
    BY <1>2, <2>1, <1>a DEF Redis!Post, Redis!Step, Redis!TypeOK, S, W
<1>3. ASSUME NEW r \in R, Redis!RefreshStep(r) PROVE Redis!TypeOK'
  <2>0. /\ ranked[r] \in [Teams -> S] /\ read[r] \in [Teams -> S]
        /\ Redis!Entries(ranked[r], read[r]) \in V
    BY EntriesType DEF Redis!TypeOK
  <2> HIDE DEF S, W, R, V
  <2>1. CASE Redis!ReadRanking(r)
    BY <2>1, <1>0 DEF Redis!ReadRanking, Redis!TypeOK, S, R
  <2>2. CASE Redis!RankingFails(r)
    BY <2>2, <1>a DEF Redis!RankingFails, Redis!Returned, Redis!TypeOK, W
  <2>3. CASE Redis!Install(r)
    <3> DEFINE new == Redis!Entries(ranked[r], read[r])
    <3>1. /\ new \in V
          /\ rpayload' = new
          /\ rtargets' = [rtargets EXCEPT ![r] =
                            IF Redis!Changed(new) THEN rsubscribers ELSE {}]
          /\ ranked' = [ranked EXCEPT ![r] = [t \in Teams |-> new[t][1]]]
          /\ read' = [read EXCEPT ![r] = [t \in Teams |-> new[t][2]]]
          /\ rpc' = [rpc EXCEPT ![r] = "send"]
          /\ UNCHANGED <<Redis!redisv, Redis!writerv, todo, Redis!connv, outage>>
      BY <2>3, <2>0 DEF Redis!Install, Redis!Served
    <3> HIDE DEF new
    <3>2. [t \in Teams |-> new[t][1]] \in [Teams -> S] /\ [t \in Teams |-> new[t][2]] \in [Teams -> S]
      BY <3>1 DEF V, S, Redis!View
    <3> QED
      BY <3>1, <3>2 DEF Redis!TypeOK, S, R, V
  <2>4. CASE Redis!Finish(r)
    BY <2>4, <1>0, <1>a DEF Redis!Finish, Redis!Returned, Redis!TypeOK, S, W, R
  <2>5. ASSUME NEW t \in Teams, Redis!ReadCard(r, t) PROVE Redis!TypeOK'
    <3>1. read \in [R -> [Teams -> S]] /\ card[t] \in S
      BY DEF Redis!TypeOK, R, S
    <3>2. [read[r] EXCEPT ![t] = card[t]] \in [Teams -> S]
      BY <2>0, <3>1
    <3>3. \/ read' = [read EXCEPT ![r] = [read[r] EXCEPT ![t] = card[t]]]
          \/ read' = read
      BY <2>5 DEF Redis!ReadCard
    <3>4. read' \in [R -> [Teams -> S]]
      BY <3>1, <3>2, <3>3
    <3> QED
      BY <2>5, <3>4 DEF Redis!ReadCard, Redis!TypeOK, S, R
  <2>6. ASSUME NEW c \in Conns, Redis!Broadcast(r, c) PROVE Redis!TypeOK'
    <3>1. Redis!Send(c, Redis!Entries(ranked[r], read[r]))
      BY <2>6 DEF Redis!Broadcast
    <3>2. /\ rbuffer' \in [Conns -> Seq(Redis!View)]
          /\ \A d \in Conns : Len(rbuffer'[d]) <= Cap
      BY <3>1, <2>0, RedisSendEffect DEF V
    <3> QED
      BY <2>6, <3>2 DEF Redis!Broadcast, Redis!TypeOK, R
  <2> QED
    BY <1>3, <2>1, <2>2, <2>3, <2>4, <2>5, <2>6 DEF Redis!RefreshStep
<1>4. ASSUME NEW c \in Conns, Redis!Subscribe(c) PROVE Redis!TypeOK'
  BY <1>4 DEF Redis!Subscribe, Redis!TypeOK
<1>5. ASSUME NEW c \in Conns, Redis!SeedSubscriber(c) PROVE Redis!TypeOK'
  <2>1. rseed[c] \in Redis!View /\ Redis!Send(c, rseed[c])
    BY <1>5 DEF Redis!SeedSubscriber, Redis!TypeOK
  <2>2. /\ rbuffer' \in [Conns -> Seq(Redis!View)]
        /\ \A d \in Conns : Len(rbuffer'[d]) <= Cap
    BY <2>1, RedisSendEffect
  <2> QED
    BY <1>5, <1>0, <2>2 DEF Redis!SeedSubscriber, Redis!TypeOK
<1>6. ASSUME NEW c \in Conns, Redis!Deliver(c) PROVE Redis!TypeOK'
  <2> HIDE DEF S, W, R, V
  <2>1. rbuffer[c] \in Seq(V) /\ rbuffer[c] # <<>> /\ Len(rbuffer[c]) <= Cap
    BY <1>6 DEF Redis!Deliver, Redis!TypeOK, V
  <2>2. /\ Head(rbuffer[c]) \in V /\ Tail(rbuffer[c]) \in Seq(V)
        /\ Len(Tail(rbuffer[c])) <= Cap
    BY <2>1
  <2> QED
    BY <1>6, <2>2 DEF Redis!Deliver, Redis!TypeOK, V
<1>7. ASSUME NEW c \in Conns, Redis!Close(c) PROVE Redis!TypeOK'
  <2>1. <<>> \in Seq(V) /\ Len(<<>>) <= Cap
    OBVIOUS
  <2> QED
    BY <1>7, <1>0, <2>1 DEF Redis!Close, Redis!TypeOK
<1>8. CASE Redis!OutageEnds
  BY <1>8 DEF Redis!OutageEnds, Redis!TypeOK
<1>9. CASE UNCHANGED Redis!vars
  BY <1>9 DEF Redis!vars, Redis!TypeOK
<1> QED
  BY <1>1, <1>2, <1>3, <1>4, <1>5, <1>6, <1>7, <1>8, <1>9 DEF Redis!Next

\* The writers that have begun: their first command, or the transaction of a post,
\* has been tried.
Started == {w \in Redis!Writers : pc[w] \notin {"zadd", "post"}}

\* The scores that redis can hold of a team by now; 0 for none.
Known(t) == {0} \cup {ScoreOf[w] : w \in {v \in Started : TeamOf[v] = t}}

\* A snapshot in which every score is one that was written for its team, and exactly
\* the ranked teams have a score to show.
Sound(view) ==
  \A t \in Teams : /\ view[t][1] \in Known(t) /\ view[t][2] \in Known(t)
                   /\ (view[t][1] = 0 <=> view[t][2] = 0)

\* What GET /leaderboard serves and the pages show comes from a writer, and not
\* before it wrote: no mix of a ranking and scorecards that were read at different
\* times, under failures or not, makes a score up or gives it to another team.
ServedIsSound == Sound(rpayload) /\ \A c \in Conns : Sound(rshown[c])

\* The same of all that is on its way to a page: in redis,
StoredIsSound ==
  /\ \A t \in Teams : /\ zset[t] \in Known(t) /\ card[t] \in Known(t)
                      /\ best[t] \in Known(t) /\ last[t] \in Known(t)
  /\ \A p \in Publishers : prev[p] \in Known(TeamOf[p])

\* in a refresh,
ReadIsSound ==
  \A r \in Redis!Refreshers, t \in Teams :
    ranked[r][t] \in Known(t) /\ read[r][t] \in Known(t)

\* and in the channels of the connections.
SentIsSound ==
  \A c \in Conns :
    Sound(rseed[c]) /\ \A i \in DOMAIN rbuffer[c] : Sound(rbuffer[c][i])

\* The invariant of the redis board.
RedisInv == ServedIsSound /\ StoredIsSound /\ ReadIsSound /\ SentIsSound

\* The entries of a refresh are sound when what it read is.
LEMMA EntriesSound ==
  ASSUME NEW ranks, NEW cards,
         \A t \in Teams : ranks[t] \in Known(t) /\ cards[t] \in Known(t)
  PROVE  Sound(Redis!Entries(ranks, cards))
<1> SUFFICES ASSUME NEW t \in Teams
             PROVE  LET e == Redis!Entries(ranks, cards) IN
                      /\ e[t][1] \in Known(t) /\ e[t][2] \in Known(t)
                      /\ (e[t][1] = 0 <=> e[t][2] = 0)
  BY DEF Sound
<1>1. 0 \in Known(t)
  BY DEF Known
<1> HIDE DEF Known
<1>2. Redis!Entries(ranks, cards)[t] =
        IF ranks[t] = 0 THEN <<0, 0>>
        ELSE <<ranks[t], IF cards[t] = 0 THEN ranks[t] ELSE cards[t]>>
  BY DEF Redis!Entries, Redis!ShownScore
<1> QED
  BY <1>1, <1>2

\* What a step does to the control points of the writers.
LEMMA WriterMoves ==
  ASSUME Redis!TypeOK, [Redis!Next]_(Redis!vars)
  PROVE  \/ pc' = pc
         \/ \E w \in Redis!Writers, to \in {"get", "set", "last", "hset", "refresh", "done"} :
              pc' = [pc EXCEPT ![w] = to]
<1> USE DEF Redis!writerv, Redis!Step
<1>1. ASSUME NEW p \in Publishers, Redis!PublisherStep(p)
      PROVE  \E to \in {"get", "set", "last", "hset", "refresh", "done"} :
               pc' = [pc EXCEPT ![p] = to]
  BY <1>1 DEF Redis!PublisherStep, Redis!ZAdd, Redis!GetBest, Redis!SetBest,
              Redis!SetLastRun, Redis!HSet, Redis!Abort
<1>2. ASSUME NEW u \in Posters, Redis!Post(u)
      PROVE  \E to \in {"get", "set", "last", "hset", "refresh", "done"} :
               pc' = [pc EXCEPT ![u] = to]
  BY <1>2 DEF Redis!Post
<1>3. ASSUME NEW r \in Redis!Refreshers, Redis!RefreshStep(r)
      PROVE  pc' = pc \/ (r \in Posters /\ pc' = [pc EXCEPT ![r] = "done"])
  BY <1>3 DEF Redis!RefreshStep, Redis!ReadRanking, Redis!RankingFails, Redis!Install,
              Redis!Finish, Redis!ReadCard, Redis!Broadcast, Redis!Returned
<1>4. ASSUME NEW c \in Conns, \/ Redis!Subscribe(c) \/ Redis!SeedSubscriber(c)
                              \/ Redis!Deliver(c) \/ Redis!Close(c)
      PROVE  pc' = pc
  BY <1>4 DEF Redis!Subscribe, Redis!SeedSubscriber, Redis!Deliver, Redis!Close
<1>5. CASE Redis!OutageEnds \/ UNCHANGED Redis!vars
  BY <1>5 DEF Redis!OutageEnds, Redis!vars
<1>6. Publishers \subseteq Redis!Writers /\ Posters \subseteq Redis!Writers
  BY DEF Redis!Writers
<1> QED
  BY <1>1, <1>2, <1>3, <1>4, <1>5, <1>6 DEF Redis!Next

\* Nothing that is known is forgotten, so a sound snapshot stays sound however late
\* it is delivered.
LEMMA KnownGrows ==
  ASSUME Redis!TypeOK, [Redis!Next]_(Redis!vars)
  PROVE  /\ \A t \in Teams : \A n : n \in Known(t) => n \in Known(t)'
         /\ \A view : Sound(view) =>
              \A t \in Teams : /\ view[t][1] \in Known(t)' /\ view[t][2] \in Known(t)'
                               /\ (view[t][1] = 0 <=> view[t][2] = 0)
<1>1. Started \subseteq Started'
  <2>1. pc \in [Redis!Writers -> {"zadd", "get", "set", "last", "hset", "post",
                                  "refresh", "done"}]
    BY DEF Redis!TypeOK
  <2>2. \/ pc' = pc
        \/ \E w \in Redis!Writers, to \in {"get", "set", "last", "hset", "refresh", "done"} :
             pc' = [pc EXCEPT ![w] = to]
    BY WriterMoves
  <2> QED
    BY <2>1, <2>2 DEF Started
<1>2. \A t \in Teams : \A n : n \in Known(t) => n \in Known(t)'
  BY <1>1 DEF Known
<1> QED
  BY <1>2 DEF Sound

\* The score of a writer that has begun is known.
LEMMA OwnScoreKnown ==
  ASSUME NEW w \in Redis!Writers, Redis!TypeOK, NEW to, pc' = [pc EXCEPT ![w] = to],
         to \notin {"zadd", "post"}
  PROVE  ScoreOf[w] \in Known(TeamOf[w])'
<1>1. w \in Started'
  BY DEF Started, Redis!TypeOK
<1> QED
  BY <1>1 DEF Known

\* What redis holds stays sound: a writer writes its own score for its own team, and
\* what a publisher compares with is the best score of that team, or none.
LEMMA StoredStep ==
  ASSUME Redis!TypeOK, RedisInv, [Redis!Next]_(Redis!vars)
  PROVE  StoredIsSound'
<1>0. /\ zset \in [Teams -> Redis!Scores] /\ card \in [Teams -> Redis!Scores]
      /\ best \in [Teams -> Redis!Scores] /\ last \in [Teams -> Redis!Scores]
      /\ prev \in [Publishers -> Redis!Scores]
  BY DEF Redis!TypeOK
<1>1. \A t \in Teams : \A n : n \in Known(t) => n \in Known(t)'
  BY KnownGrows
<1>2. \A t \in Teams : /\ zset[t] \in Known(t)' /\ card[t] \in Known(t)'
                       /\ best[t] \in Known(t)' /\ last[t] \in Known(t)'
  BY <1>1 DEF RedisInv, StoredIsSound
<1>3. \A p \in Publishers : TeamOf[p] \in Teams /\ prev[p] \in Known(TeamOf[p])'
  BY <1>1, TeamOfAssumption DEF RedisInv, StoredIsSound
<1>4. \A t \in Teams : 0 \in Known(t)'
  BY DEF Known
<1> HIDE DEF Known
<1>5. ASSUME NEW w \in Redis!Writers, NEW to, to \notin {"zadd", "post"},
             pc' = [pc EXCEPT ![w] = to]
      PROVE  ScoreOf[w] \in Known(TeamOf[w])'
  BY <1>5, OwnScoreKnown
<1>6. Publishers \subseteq Redis!Writers /\ Posters \subseteq Redis!Writers
  BY DEF Redis!Writers
<1> USE DEF StoredIsSound, Redis!redisv, Redis!writerv, Redis!Step, Redis!Put
<1>7. ASSUME NEW p \in Publishers, Redis!PublisherStep(p) PROVE StoredIsSound'
  <2>1. CASE Redis!ZAdd(p)
    <3>1. ScoreOf[p] \in Known(TeamOf[p])'
      BY <2>1, <1>5, <1>6 DEF Redis!ZAdd
    <3> QED
      BY <2>1, <3>1, <1>0, <1>2, <1>3 DEF Redis!ZAdd
  <2>2. CASE Redis!GetBest(p)
    BY <2>2, <1>0, <1>2, <1>3, <1>4 DEF Redis!GetBest
  <2>3. CASE Redis!SetBest(p)
    <3>1. ScoreOf[p] \in Known(TeamOf[p])'
      BY <2>3, <1>5, <1>6 DEF Redis!SetBest
    <3> QED
      BY <2>3, <3>1, <1>0, <1>2, <1>3, <1>4 DEF Redis!SetBest
  <2>4. CASE Redis!SetLastRun(p)
    <3>1. ScoreOf[p] \in Known(TeamOf[p])'
      BY <2>4, <1>5, <1>6 DEF Redis!SetLastRun
    <3> QED
      BY <2>4, <3>1, <1>0, <1>2, <1>3 DEF Redis!SetLastRun
  <2>5. CASE Redis!HSet(p)
    <3>1. ScoreOf[p] \in Known(TeamOf[p])'
      BY <2>5, <1>5, <1>6 DEF Redis!HSet
    <3> QED
      BY <2>5, <3>1, <1>0, <1>2, <1>3 DEF Redis!HSet
  <2>6. CASE Redis!Abort(p)
    <3>1. ScoreOf[p] \in Known(TeamOf[p])'
      BY <2>6, <1>5, <1>6 DEF Redis!Abort
    <3> QED
      BY <2>6, <3>1, <1>0, <1>2, <1>3 DEF Redis!Abort
  <2> QED
    BY <1>7, <2>1, <2>2, <2>3, <2>4, <2>5, <2>6 DEF Redis!PublisherStep
<1>8. ASSUME NEW u \in Posters, Redis!Post(u) PROVE StoredIsSound'
  <2>1. CASE /\ \E to \in {"refresh", "done"} : pc' = [pc EXCEPT ![u] = to]
             /\ zset' = Redis!Put(zset, u) /\ card' = Redis!Put(card, u)
    <3>1. ScoreOf[u] \in Known(TeamOf[u])'
      BY <2>1, <1>5, <1>6
    <3> QED
      BY <1>8, <2>1, <3>1, <1>0, <1>2, <1>3 DEF Redis!Post
  <2>2. CASE UNCHANGED <<zset, card>>
    BY <1>8, <2>2, <1>2, <1>3 DEF Redis!Post
  <2> QED
    BY <1>8, <2>1, <2>2 DEF Redis!Post
<1>9. CASE UNCHANGED <<Redis!redisv, prev>>
  BY <1>9, <1>2, <1>3
<1>10. ASSUME NEW r \in Redis!Refreshers, Redis!RefreshStep(r)
       PROVE  UNCHANGED <<Redis!redisv, prev>>
  BY <1>10 DEF Redis!RefreshStep, Redis!ReadRanking, Redis!RankingFails, Redis!Install,
               Redis!Finish, Redis!ReadCard, Redis!Broadcast
<1>11. ASSUME NEW c \in Conns, \/ Redis!Subscribe(c) \/ Redis!SeedSubscriber(c)
                               \/ Redis!Deliver(c) \/ Redis!Close(c)
       PROVE  UNCHANGED <<Redis!redisv, prev>>
  BY <1>11 DEF Redis!Subscribe, Redis!SeedSubscriber, Redis!Deliver, Redis!Close
<1>12. CASE Redis!OutageEnds \/ UNCHANGED Redis!vars
  BY <1>9, <1>12 DEF Redis!OutageEnds, Redis!vars
<1> QED
  BY <1>7, <1>8, <1>9, <1>10, <1>11, <1>12 DEF Redis!Next

\* What a refresh holds stays sound, though it reads the ranking and each scorecard
\* at different times and keeps the parts of failed reads empty.
LEMMA ReadStep ==
  ASSUME Redis!TypeOK, RedisInv, [Redis!Next]_(Redis!vars)
  PROVE  ReadIsSound'
<1>0. /\ ranked \in [Redis!Refreshers -> [Teams -> Redis!Scores]]
      /\ read \in [Redis!Refreshers -> [Teams -> Redis!Scores]]
  BY DEF Redis!TypeOK
<1>1. \A t \in Teams : \A n : n \in Known(t) => n \in Known(t)'
  BY KnownGrows
<1>2. \A t \in Teams : zset[t] \in Known(t)' /\ card[t] \in Known(t)' /\ 0 \in Known(t)'
  <2>1. \A t \in Teams : 0 \in Known(t)
    BY DEF Known
  <2> QED
    BY <1>1, <2>1 DEF RedisInv, StoredIsSound
<1>3. \A r \in Redis!Refreshers, t \in Teams :
        ranked[r][t] \in Known(t)' /\ read[r][t] \in Known(t)'
  BY <1>1 DEF RedisInv, ReadIsSound
<1>4. CASE UNCHANGED <<ranked, read>>
  BY <1>3, <1>4 DEF ReadIsSound
<1>5. ASSUME NEW r \in Redis!Refreshers, Redis!RefreshStep(r) PROVE ReadIsSound'
  <2> HIDE DEF Known
  <2>1. CASE Redis!ReadRanking(r)
    BY <2>1, <1>0, <1>2, <1>3 DEF Redis!ReadRanking, Redis!NoScores, ReadIsSound
  <2>2. CASE Redis!Install(r)
    <3> DEFINE new == Redis!Entries(ranked[r], read[r])
    <3>1. Sound(new)
      BY EntriesSound DEF RedisInv, ReadIsSound
    <3>2. \A t \in Teams : new[t][1] \in Known(t)' /\ new[t][2] \in Known(t)'
      BY <3>1, <1>1 DEF Sound
    <3>3. /\ ranked' = [ranked EXCEPT ![r] = [t \in Teams |-> new[t][1]]]
          /\ read' = [read EXCEPT ![r] = [t \in Teams |-> new[t][2]]]
      BY <2>2 DEF Redis!Install
    <3> HIDE DEF new
    <3> QED
      BY <3>2, <3>3, <1>0, <1>3 DEF ReadIsSound
  <2>3. CASE Redis!Finish(r)
    BY <2>3, <1>0, <1>2, <1>3 DEF Redis!Finish, Redis!NoScores, ReadIsSound
  <2>4. ASSUME NEW t \in Teams, Redis!ReadCard(r, t) PROVE ReadIsSound'
    <3>1. /\ ranked' = ranked
          /\ \/ read' = [read EXCEPT ![r] = [read[r] EXCEPT ![t] = card[t]]]
             \/ read' = read
      BY <2>4 DEF Redis!ReadCard
    <3> QED
      BY <3>1, <1>0, <1>2, <1>3 DEF ReadIsSound
  <2>5. ASSUME NEW c \in Conns, Redis!Broadcast(r, c) PROVE ReadIsSound'
    BY <2>5, <1>4 DEF Redis!Broadcast
  <2>6. CASE Redis!RankingFails(r)
    BY <2>6, <1>4 DEF Redis!RankingFails, Redis!refreshv
  <2> QED
    BY <1>5, <2>1, <2>2, <2>3, <2>4, <2>5, <2>6 DEF Redis!RefreshStep
<1> USE DEF Redis!refreshv
<1>6. ASSUME NEW p \in Publishers, Redis!PublisherStep(p) PROVE UNCHANGED <<ranked, read>>
  BY <1>6 DEF Redis!PublisherStep, Redis!ZAdd, Redis!GetBest, Redis!SetBest,
              Redis!SetLastRun, Redis!HSet, Redis!Abort
<1>7. ASSUME NEW u \in Posters, Redis!Post(u) PROVE UNCHANGED <<ranked, read>>
  BY <1>7 DEF Redis!Post
<1>8. ASSUME NEW c \in Conns, \/ Redis!Subscribe(c) \/ Redis!SeedSubscriber(c)
                              \/ Redis!Deliver(c) \/ Redis!Close(c)
      PROVE  UNCHANGED <<ranked, read>>
  BY <1>8 DEF Redis!Subscribe, Redis!SeedSubscriber, Redis!Deliver, Redis!Close
<1>9. CASE Redis!OutageEnds \/ UNCHANGED Redis!vars
  BY <1>4, <1>9 DEF Redis!OutageEnds, Redis!vars
<1> QED
  BY <1>4, <1>5, <1>6, <1>7, <1>8, <1>9 DEF Redis!Next

\* What is served and sent stays sound: a refresh installs and broadcasts what it has
\* read, a connection is seeded with what is served.
LEMMA SentStep ==
  ASSUME Redis!TypeOK, RedisInv, [Redis!Next]_(Redis!vars)
  PROVE  ServedIsSound' /\ SentIsSound'
<1> DEFINE After(view) ==
             \A t \in Teams : /\ view[t][1] \in Known(t)' /\ view[t][2] \in Known(t)'
                              /\ (view[t][1] = 0 <=> view[t][2] = 0)
<1>0. /\ rshown \in [Conns -> Redis!View] /\ rseed \in [Conns -> Redis!View]
      /\ rbuffer \in [Conns -> Seq(Redis!View)]
  BY DEF Redis!TypeOK
<1>1. \A view : Sound(view) => After(view)
  BY KnownGrows
<1>2. /\ After(rpayload)
      /\ \A c \in Conns : After(rshown[c]) /\ After(rseed[c])
      /\ \A c \in Conns : \A i \in DOMAIN rbuffer[c] : After(rbuffer[c][i])
  <2> HIDE DEF After
  <2> QED
    BY <1>1 DEF RedisInv, ServedIsSound, SentIsSound
<1>3. After(Redis!NoRanks)
  BY DEF Redis!NoRanks, Known
<1>4. \A r \in Redis!Refreshers : /\ After(Redis!Entries(ranked[r], read[r]))
                                  /\ Redis!Entries(ranked[r], read[r]) \in Redis!View
  <2> SUFFICES ASSUME NEW r \in Redis!Refreshers
               PROVE  /\ After(Redis!Entries(ranked[r], read[r]))
                      /\ Redis!Entries(ranked[r], read[r]) \in Redis!View
    OBVIOUS
  <2>1. Sound(Redis!Entries(ranked[r], read[r]))
    BY EntriesSound DEF RedisInv, ReadIsSound
  <2>2. Redis!Entries(ranked[r], read[r]) \in Redis!View
    BY EntriesType DEF Redis!TypeOK
  <2> HIDE DEF After
  <2> QED
    BY <2>1, <2>2, <1>1
<1> SUFFICES /\ After(rpayload')
             /\ \A c \in Conns : After(rshown'[c]) /\ After(rseed'[c])
             /\ \A c \in Conns : \A i \in DOMAIN rbuffer'[c] : After(rbuffer'[c][i])
  BY DEF ServedIsSound, SentIsSound, Sound
<1> HIDE DEF After
<1> DEFINE Goal == /\ After(rpayload')
                   /\ \A c \in Conns : After(rshown'[c]) /\ After(rseed'[c])
                   /\ \A c \in Conns : \A i \in DOMAIN rbuffer'[c] : After(rbuffer'[c][i])
<1>5. CASE UNCHANGED <<rpayload, rshown, rseed, rbuffer>>
  BY <1>2, <1>5
<1> USE DEF Redis!connv, Redis!refreshv
<1>6. ASSUME NEW r \in Redis!Refreshers, Redis!Install(r) PROVE Goal
  <2>1. /\ rpayload' = Redis!Entries(ranked[r], read[r])
        /\ UNCHANGED <<rshown, rseed, rbuffer>>
    BY <1>6 DEF Redis!Install, Redis!Served
  <2> QED
    BY <1>2, <1>4, <2>1
<1>7. ASSUME NEW c \in Conns, NEW view \in Redis!View, After(view), Redis!Send(c, view)
      PROVE  \A d \in Conns : \A i \in DOMAIN rbuffer'[d] : After(rbuffer'[d][i])
  <2>1. /\ \A d \in Conns \ {c} : rbuffer'[d] = rbuffer[d]
        /\ \A i \in DOMAIN rbuffer'[c] :
             rbuffer'[c][i] = view \/ (i \in DOMAIN rbuffer[c] /\ rbuffer'[c][i] = rbuffer[c][i])
    BY <1>7, RedisSendEffect
  <2> SUFFICES ASSUME NEW d \in Conns, NEW i \in DOMAIN rbuffer'[d]
               PROVE  After(rbuffer'[d][i])
    OBVIOUS
  <2>2. CASE d = c
    BY <1>2, <1>7, <2>1, <2>2
  <2>3. CASE d # c
    BY <1>2, <2>1, <2>3
  <2> QED
    BY <2>2, <2>3
<1>8. ASSUME NEW r \in Redis!Refreshers, NEW c \in Conns, Redis!Broadcast(r, c) PROVE Goal
  <2>1. /\ Redis!Send(c, Redis!Entries(ranked[r], read[r]))
        /\ UNCHANGED <<rpayload, rshown, rseed>>
    BY <1>8 DEF Redis!Broadcast
  <2>2. \A d \in Conns : \A i \in DOMAIN rbuffer'[d] : After(rbuffer'[d][i])
    BY <1>4, <1>7, <2>1
  <2> QED
    BY <1>2, <2>1, <2>2
<1>9. ASSUME NEW c \in Conns, Redis!Subscribe(c) PROVE Goal
  <2>1. /\ rseed' = [rseed EXCEPT ![c] = rpayload]
        /\ UNCHANGED <<rpayload, rshown, rbuffer>>
    BY <1>9 DEF Redis!Subscribe
  <2> QED
    BY <1>0, <1>2, <2>1
<1>10. ASSUME NEW c \in Conns, Redis!SeedSubscriber(c) PROVE Goal
  <2>1. /\ Redis!Send(c, rseed[c]) /\ rseed' = [rseed EXCEPT ![c] = Redis!NoRanks]
        /\ UNCHANGED <<rpayload, rshown>>
    BY <1>10 DEF Redis!SeedSubscriber
  <2>2. \A d \in Conns : \A i \in DOMAIN rbuffer'[d] : After(rbuffer'[d][i])
    BY <1>0, <1>2, <1>7, <2>1
  <2> QED
    BY <1>0, <1>2, <1>3, <2>1, <2>2
<1>11. ASSUME NEW c \in Conns, Redis!Deliver(c) PROVE Goal
  <2>1. /\ rbuffer[c] \in Seq(Redis!View) /\ rbuffer[c] # <<>>
        /\ rshown' = [rshown EXCEPT ![c] = Head(rbuffer[c])]
        /\ rbuffer' = [rbuffer EXCEPT ![c] = Tail(rbuffer[c])]
        /\ UNCHANGED <<rpayload, rseed>>
    BY <1>0, <1>11 DEF Redis!Deliver
  <2>2. /\ Head(rbuffer[c]) = rbuffer[c][1] /\ 1 \in DOMAIN rbuffer[c]
        /\ \A i \in DOMAIN Tail(rbuffer[c]) :
             i + 1 \in DOMAIN rbuffer[c] /\ Tail(rbuffer[c])[i] = rbuffer[c][i + 1]
    BY <2>1, HeadTailProperties
  <2>3. \A d \in Conns : After(rshown'[d])
    BY <1>0, <1>2, <2>1, <2>2
  <2>4. \A d \in Conns : \A i \in DOMAIN rbuffer'[d] : After(rbuffer'[d][i])
    BY <1>0, <1>2, <2>1, <2>2
  <2> QED
    BY <1>2, <2>1, <2>3, <2>4
<1>12. ASSUME NEW c \in Conns, Redis!Close(c) PROVE Goal
  <2>1. /\ rshown' = [rshown EXCEPT ![c] = Redis!NoRanks]
        /\ rbuffer' = [rbuffer EXCEPT ![c] = <<>>]
        /\ UNCHANGED <<rpayload, rseed>>
    BY <1>12 DEF Redis!Close
  <2>2. DOMAIN <<>> = {}
    OBVIOUS
  <2> QED
    BY <1>0, <1>2, <1>3, <2>1, <2>2
<1>13. ASSUME NEW p \in Publishers, Redis!PublisherStep(p)
       PROVE  UNCHANGED <<rpayload, rshown, rseed, rbuffer>>
  BY <1>13 DEF Redis!PublisherStep, Redis!ZAdd, Redis!GetBest, Redis!SetBest,
               Redis!SetLastRun, Redis!HSet, Redis!Abort
<1>14. ASSUME NEW u \in Posters, Redis!Post(u)
       PROVE  UNCHANGED <<rpayload, rshown, rseed, rbuffer>>
  BY <1>14 DEF Redis!Post
<1>15. ASSUME NEW r \in Redis!Refreshers, NEW t \in Teams,
              \/ Redis!ReadRanking(r) \/ Redis!RankingFails(r) \/ Redis!Finish(r)
              \/ Redis!ReadCard(r, t)
       PROVE  UNCHANGED <<rpayload, rshown, rseed, rbuffer>>
  BY <1>15 DEF Redis!ReadRanking, Redis!RankingFails, Redis!Finish, Redis!ReadCard
<1>16. ASSUME NEW r \in Redis!Refreshers,
              Redis!ReadRanking(r) \/ Redis!RankingFails(r) \/ Redis!Finish(r)
       PROVE  UNCHANGED <<rpayload, rshown, rseed, rbuffer>>
  BY <1>16 DEF Redis!ReadRanking, Redis!RankingFails, Redis!Finish
<1>17. CASE Redis!OutageEnds \/ UNCHANGED Redis!vars
  BY <1>5, <1>17 DEF Redis!OutageEnds, Redis!vars
<1>18. ASSUME NEW r \in Redis!Refreshers, Redis!RefreshStep(r) PROVE Goal
  <2> HIDE DEF Goal
  <2>1. UNCHANGED <<rpayload, rshown, rseed, rbuffer>> => Goal
    BY <1>5 DEF Goal
  <2> QED
    BY <1>18, <1>6, <1>8, <1>15, <1>16, <2>1 DEF Redis!RefreshStep
<1> QED
  BY <1>5, <1>9, <1>10, <1>11, <1>12, <1>13, <1>14, <1>17, <1>18 DEF Redis!Next

\* The invariant of the redis board, which is there, idle, when the file board is
\* configured.
THEOREM RedisInvHolds == APISpec => [](Redis!TypeOK /\ RedisInv)
<1>1. APIInit => Redis!TypeOK /\ RedisInv
  <2> SUFFICES ASSUME Redis!Init PROVE Redis!TypeOK /\ RedisInv
    BY DEF APIInit
  <2>1. 0 \in Redis!Scores /\ Redis!NoScores \in [Teams -> Redis!Scores]
        /\ Redis!NoRanks \in Redis!View
    BY DEF Redis!Scores, Redis!NoScores, Redis!NoRanks, Redis!View
  <2>2. <<>> \in Seq(Redis!View) /\ Len(<<>>) <= Cap
    OBVIOUS
  <2>3. Redis!TypeOK
    BY <2>1, <2>2 DEF Redis!Init, Redis!TypeOK
  <2>4. \A t \in Teams : 0 \in Known(t)
    BY DEF Known
  <2> HIDE DEF Known
  <2>5. Sound(Redis!NoRanks)
    BY <2>4 DEF Sound, Redis!NoRanks
  <2>6. ServedIsSound /\ SentIsSound
    <3>1. DOMAIN <<>> = {}
      OBVIOUS
    <3> QED
      BY <2>5, <3>1 DEF Redis!Init, ServedIsSound, SentIsSound
  <2>7. StoredIsSound /\ ReadIsSound
    BY <2>4, TeamOfAssumption DEF Redis!Init, Redis!NoScores, StoredIsSound, ReadIsSound
  <2> QED
    BY <2>3, <2>6, <2>7 DEF RedisInv
<1>2. Redis!TypeOK /\ RedisInv /\ [APINext]_apiv => Redis!TypeOK' /\ RedisInv'
  <2>1. [APINext]_apiv => [Redis!Next]_(Redis!vars)
    BY DEF APINext, apiv, redisv, Redis!vars, Redis!redisv, Redis!writerv, Redis!refreshv,
           Redis!connv
  <2> QED
    BY <2>1, RedisTypeStep, StoredStep, ReadStep, SentStep DEF RedisInv
<1> QED
  BY <1>1, <1>2, PTL DEF APISpec

\* No score is made up: what the redis board serves and its pages show was written,
\* before, for the team that has it.
THEOREM ShownWasWritten == APISpec => []ServedIsSound
<1>1. RedisInv => ServedIsSound
  BY DEF RedisInv
<1> QED
  BY RedisInvHolds, <1>1, PTL
=============================================================================
