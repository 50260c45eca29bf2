----------------------------- MODULE Leaderboard ----------------------------
(***************************************************************************)
(* gaming-leaderboard-system: the match journal, the Redis projection of   *)
(* each shard and the queries over them.  The journal (journal.py) scores  *)
(* matches once, keeps the membership of every monthly season and appends  *)
(* score events to the feed of the winner's shard.  A poller per shard     *)
(* (projection.py) copies the feed into Redis with scripts that check an   *)
(* epoch and a position (projection_scripts.py).  Commands whose caller    *)
(* gave up may execute later, and a failover may go back to an older copy. *)
(* Queries (service.py) hold a shared guard, writers an exclusive one.     *)
(* One tick of the clock is a month.                                       *)
(***************************************************************************)
EXTENDS Integers, Sequences, FiniteSets, FiniteSetsExt, TLC

CONSTANTS
  Users,          \* player ids, numbers in the order of their names
  Shards,         \* projection shards
  Polling,        \* the shards whose projector is up
  ShardOf,        \* [Users -> Shards], shard_for
  Names,          \* display names
  Matches,        \* match ids
  Readers,        \* threads of the API process that run queries
  Limit,          \* rows of a top query (10)
  Radius,         \* neighbors
  PageSize,       \* events of a feed page (200)
  Grace,          \* months of late acceptance
  MaxScore,       \* score limit of a season
  Kinds,          \* queries that are asked: "top", "user", "reconcile"
  MaxTime, MaxRevision, MaxQueries, MaxResets, MaxFailovers, MaxLate

Assumption ==
  /\ Users \subseteq Nat /\ ShardOf \in [Users -> Shards] /\ Polling \subseteq Shards
  /\ {Limit, PageSize, MaxScore} \subseteq Nat \ {0}
  /\ {Radius, Grace, MaxTime, MaxRevision, MaxQueries, MaxResets, MaxFailovers, MaxLate} \subseteq Nat

VARIABLES
  clock,      \* the current month
  player,     \* [Users -> registration month and name, or Nobody]
  revision,   \* profile_revision
  season,     \* [Months -> its status and settlement]
  score,      \* [Months -> [Users -> score, or Absent]]
  match,      \* [Matches -> accepted result, or NoMatch]
  feed,       \* [Shards -> events]
  redis,      \* [Shards -> the master's keys]
  standby,    \* [Shards -> its replica's keys]
  epochs,     \* epochs (uuid4) used so far
  poller,     \* [Shards -> the poll in progress]
  late,       \* [Shards -> commands that may still execute]
  reader,     \* [Readers -> the query in progress]
  cache,      \* profile cache: {<<revision, user, name>>}
  writer,     \* the reader that holds the exclusive guard (reconcile)
  used        \* queries, resets and failovers so far

jvars == <<clock, player, revision, season, score, match, feed>>
pvars == <<redis, standby, epochs, poller, late>>
qvars == <<reader, cache, writer>>
vars  == <<jvars, pvars, qvars, used>>

Months  == 0 .. MaxTime
Absent  == -1
Nobody  == [month |-> Absent]
NoMatch == [month |-> Absent]
NoSeason == [status |-> "none", settlement |-> {}]
NoEpoch == 0
NoQuery == [pc |-> "idle"]
NotPolling == [pc |-> "idle"]
EmptyDb == [bound |-> FALSE, pos |-> 0, epoch |-> NoEpoch, score |-> [m \in Months |-> [u \in Users |-> Absent]]]

Init ==
  /\ clock = 0 /\ player = [u \in Users |-> Nobody] /\ revision = 0
  /\ season = [m \in Months |-> NoSeason]
  /\ score = [m \in Months |-> [u \in Users |-> Absent]]
  /\ match = [i \in Matches |-> NoMatch] /\ feed = [s \in Shards |-> <<>>]
  /\ redis = [s \in Shards |-> EmptyDb] /\ standby = [s \in Shards |-> EmptyDb] /\ epochs = 0
  /\ poller = [s \in Shards |-> NotPolling] /\ late = [s \in Shards |-> {}]
  /\ reader = [r \in Readers |-> NoQuery] /\ cache = {} /\ writer = {}
  /\ used = [queries |-> 0, resets |-> 0, failovers |-> 0]

(***************************************************************************)
(* Ranking.  A row precedes another by a higher score, or by its name.     *)
(***************************************************************************)
Before(a, b) == a.score > b.score \/ (a.score = b.score /\ a.user < b.user)
Precede(rows, r) == Cardinality({q \in rows : Before(q, r)})
First(rows, n) == {r \in rows : Precede(rows, r) < n}
Last(rows, n)  == {r \in rows : Cardinality({q \in rows : Before(r, q)}) < n}
Higher(rows, r) == Cardinality({q \in rows : q.score > r.score})
Placed(r, rank, position) == [user |-> r.user, score |-> r.score, rank |-> rank, position |-> position]
Rows(scores) == {[user |-> u, score |-> scores[u]] : u \in {v \in Users : scores[v] # Absent}}

\* The competition ranking of all rows: what every answer is a part of.
Ranking(rows) == {Placed(r, 1 + Higher(rows, r), 1 + Precede(rows, r)) : r \in rows}

Top(parts) ==
  LET result == First(UNION {First(parts[s], Limit) : s \in Shards}, Limit)
  IN {Placed(r, 1 + Higher(result, r), 1 + Precede(result, r)) : r \in result}

Above(parts, t) == Last(UNION {Last({q \in parts[s] : Before(q, t)}, Radius) : s \in Shards}, Radius)
Below(parts, t) == First(UNION {First({q \in parts[s] : Before(t, q)}, Radius) : s \in Shards}, Radius)
Neighbors(parts, t) ==
  [rows  |-> Above(parts, t) \cup {t} \cup Below(parts, t),
   start |-> 1 + MapThenSumSet(LAMBDA s : Precede(parts[s], t), Shards) - Cardinality(Above(parts, t))]
Ranked(around, counts) ==
  {Placed(r, 1 + MapThenSumSet(LAMBDA s : Higher(counts[s], r), Shards), around.start + Precede(around.rows, r))
     : r \in around.rows}

(***************************************************************************)
(* The journal.  Every write is one transaction under the exclusive guard. *)
(***************************************************************************)
Free_IgnoresReaders == writer = {}
Free == writer = {} /\ \A r \in Readers : reader[r].pc = "idle"
Deadline(m) == m + 1 + Grace

\* Events of one transaction, appended shard by shard in the order of users.
Emit(f, events) == [s \in Shards |-> f[s] \o SelectSeq(events, LAMBDA e : ShardOf[e.user] = s)]
\* {<<user, score>>} as events of month m
EventsOf(m, us) ==
  LET f[S \in SUBSET us] ==
        IF S = {} THEN <<>> ELSE <<[month |-> m, user |-> Min(S), score |-> 0]>> \o f[S \ {Min(S)}]
  IN f[us]

\* Journal.ensure: opens the season with everyone registered before its end.
Members(p, m) == {u \in Users : p[u] # Nobody /\ p[u].month <= m}
Open(p, m) ==
  /\ season' = [season EXCEPT ![m].status = "open"]
  /\ score' = [score EXCEPT ![m] = [u \in Users |-> IF u \in Members(p, m) THEN 0 ELSE @[u]]]
  /\ feed' = Emit(feed, EventsOf(m, Members(p, m)))

Register(u, n) ==
  /\ Free /\ revision < MaxRevision
  /\ LET p == [player EXCEPT ![u] =
                 IF @ = Nobody THEN [month |-> clock, name |-> n] ELSE [@ EXCEPT !.name = n]]
     IN /\ player' = p
        /\ revision' = IF p = player THEN revision ELSE revision + 1
        /\ \/ season[clock].status = "none" /\ Open(p, clock)
           \/ /\ season[clock].status = "open" /\ score[clock][u] = Absent
              /\ score' = [score EXCEPT ![clock][u] = 0]
              /\ feed' = Emit(feed, EventsOf(clock, {u})) /\ UNCHANGED season
           \/ /\ season[clock].status # "none" /\ ~ (season[clock].status = "open" /\ score[clock][u] = Absent)
              /\ UNCHANGED <<season, score, feed>>
  /\ UNCHANGED <<clock, match, pvars, qvars, used>>

\* Service._snapshot: a query of a month that is not there yet prepares it.
PrepareSeason ==
  /\ Free /\ season[clock].status = "none"
  /\ Open(player, clock)
  /\ UNCHANGED <<clock, player, revision, match, pvars, qvars, used>>

Acceptable(w, l, m) ==
  /\ m <= clock /\ clock < Deadline(m)
  /\ \A u \in {w, l} : player[u] # Nobody /\ player[u].month <= m
\* A known match is answered from its receipt, or refused if it differs.
Ingest(i, w, l, m) ==
  /\ Free /\ w # l
  /\ match[i] = NoMatch /\ Acceptable(w, l, m)
  /\ LET opened == IF season[m].status = "none" THEN [u \in Users |-> IF u \in Members(player, m) THEN 0 ELSE Absent]
                                         ELSE score[m]
         opening == IF season[m].status = "none" THEN EventsOf(m, Members(player, m)) ELSE <<>>
     IN /\ season[m].status # "closed"
        /\ opened[w] # Absent /\ opened[w] < MaxScore
        /\ season' = [season EXCEPT ![m].status = "open"]
        /\ score' = [score EXCEPT ![m] = [opened EXCEPT ![w] = @ + 1]]
        /\ feed' = Emit(feed, Append(opening, [month |-> m, user |-> w, score |-> opened[w] + 1]))
  /\ match' = [match EXCEPT ![i] = [month |-> m, winner |-> w]]
  /\ UNCHANGED <<clock, player, revision, pvars, qvars, used>>

Closable(m) == clock >= Deadline(m)
Close(m) ==
  /\ Free /\ season[m].status = "open" /\ Closable(m)
  /\ season' = [season EXCEPT ![m] = [status |-> "closed", settlement |-> Ranking(Rows(score[m]))]]
  /\ UNCHANGED <<clock, player, revision, score, match, feed, pvars, qvars, used>>

Tick ==
  /\ clock < MaxTime /\ clock' = clock + 1
  /\ UNCHANGED <<player, revision, season, score, match, feed, pvars, qvars, used>>

(***************************************************************************)
(* Redis scripts.                                                          *)
(***************************************************************************)
LastOf(events, m, u) == {i \in DOMAIN events : events[i].month = m /\ events[i].user = u}
Folded(scores, events) ==
  [m \in Months |-> [u \in Users |->
     IF LastOf(events, m, u) = {} THEN scores[m][u] ELSE events[Max(LastOf(events, m, u))].score]]

\* Whether APPLY gets to the events of the command.
Fresh(db, c) == c.epoch = db.epoch /\ c.after = db.pos
\* The checks of APPLY on the events; each failure is an error reply.
Valid(db, events) ==
  \A i \in DOMAIN events :
    LET e    == events[i]
        prev == Folded(db.score, SubSeq(events, 1, i - 1))[e.month][e.user]
    IN IF prev = Absent THEN e.score = 0 ELSE e.score \in {prev, prev + 1}
Apply(db, c, fresh) ==
  IF ~ Fresh(db, c) \/ ~ Valid(db, c.events) THEN db
  ELSE [bound |-> TRUE, pos |-> db.pos + Len(c.events),
        epoch |-> IF db.epoch = NoEpoch THEN fresh ELSE db.epoch, score |-> Folded(db.score, c.events)]
Reset(db, fresh) == [EmptyDb EXCEPT !.epoch = fresh]
Execute(s, c) ==
  LET db == IF c.kind = "apply" THEN Apply(redis[s], c, epochs + 1) ELSE Reset(redis[s], epochs + 1)
  IN /\ redis' = [redis EXCEPT ![s] = db]
     /\ epochs' = IF db.epoch = epochs + 1 THEN epochs + 1 ELSE epochs

(***************************************************************************)
(* Projection.poll_once, one step per call.                                *)
(***************************************************************************)
PollSnapshot(s) ==
  /\ poller[s].pc = "idle" /\ s \in Polling
  /\ poller' = [poller EXCEPT ![s] = [pc |-> "feed", after |-> redis[s].pos, epoch |-> redis[s].epoch]]
  /\ UNCHANGED <<jvars, redis, standby, epochs, late, qvars, used>>
Page(s, after) == SubSeq(feed[s], after + 1, Min({Len(feed[s]), after + PageSize}))
PollFeed(s) ==
  /\ poller[s].pc = "feed" /\ poller[s].after <= Len(feed[s])
  /\ poller' = [poller EXCEPT ![s] =
       [pc |-> "apply", command |-> [kind |-> "apply", after |-> @.after, epoch |-> @.epoch,
                                     events |-> Page(s, @.after)]]]
  /\ UNCHANGED <<jvars, redis, standby, epochs, late, qvars, used>>
PollApply(s) ==
  /\ poller[s].pc = "apply"
  /\ Execute(s, poller[s].command)
  /\ poller' = [poller EXCEPT ![s] = NotPolling]
  /\ UNCHANGED <<jvars, standby, late, qvars, used>>

\* The caller's deadline passes; the command it sent may still execute once.
Linger(s, c) ==
  /\ Cardinality(late[s]) < MaxLate
  /\ late' = [late EXCEPT ![s] = @ \cup {c}]
PollGivesUp(s) ==
  /\ poller[s].pc = "apply" /\ Linger(s, poller[s].command)
  /\ poller' = [poller EXCEPT ![s] = NotPolling]
  /\ UNCHANGED <<jvars, redis, standby, epochs, qvars, used>>
LateCommand(s, c) ==
  /\ Execute(s, c)
  /\ late' = [late EXCEPT ![s] = @ \ {c}]
  /\ UNCHANGED <<jvars, standby, poller, qvars, used>>

\* Projection.reset, by this process or another one; the answer may be lost.
ResetShard(s) ==
  /\ used.resets < MaxResets
  /\ used' = [used EXCEPT !.resets = @ + 1]
  /\ \/ Execute(s, [kind |-> "reset"]) /\ UNCHANGED late
     \/ Linger(s, [kind |-> "reset"]) /\ UNCHANGED <<redis, epochs>>
  /\ UNCHANGED <<jvars, standby, poller, qvars>>

\* Redis replication is asynchronous; an operator fences the master and
\* promotes the replica, and commands on the way to the old master are refused.
Replicate(s) ==
  /\ MaxFailovers > used.failovers /\ standby[s] # redis[s]
  /\ standby' = [standby EXCEPT ![s] = redis[s]]
  /\ UNCHANGED <<jvars, redis, epochs, poller, late, qvars, used>>
Failover(s) ==
  /\ used.failovers < MaxFailovers
  /\ used' = [used EXCEPT !.failovers = @ + 1]
  /\ redis' = [redis EXCEPT ![s] = standby[s]]
  /\ late' = [late EXCEPT ![s] = {}] /\ poller' = [poller EXCEPT ![s] = NotPolling]
  /\ UNCHANGED <<jvars, standby, epochs, qvars>>

(***************************************************************************)
(* Queries: watermarks of all shards, then the rounds of the query, each   *)
(* shard at the captured head and in the epoch of its watermark.           *)
(***************************************************************************)
Heads == [s \in Shards |-> Len(feed[s])]
NoParts == [s \in Shards |-> {}]
Begin(r, m, kind, u) ==
  /\ reader[r].pc = "idle" /\ used.queries < MaxQueries /\ season[m].status # "none"
  /\ IF kind = "reconcile" THEN Free /\ writer' = {r} ELSE writer = {} /\ UNCHANGED writer
  /\ reader' = [reader EXCEPT ![r] =
       [pc |-> "watermarks", kind |-> kind, month |-> m, user |-> u, heads |-> Heads, rev |-> revision,
        epochs |-> [s \in Shards |-> NoEpoch], todo |-> Shards, parts |-> NoParts]]
  /\ used' = [used EXCEPT !.queries = @ + 1]
  /\ UNCHANGED <<jvars, pvars, cache>>

\* Service._envelope
Ready(q, s) == redis[s].bound /\ redis[s].pos >= q.heads[s]
Exact(q, s) == Ready(q, s) /\ redis[s].pos = q.heads[s] /\ redis[s].epoch = q.epochs[s]
FirstRound(q) == CASE q.kind = "top" -> "top" [] q.kind = "user" -> "target" [] q.kind = "reconcile" -> "dump"
Watermark(r, s) ==
  LET q == reader[r] IN
  /\ q.pc = "watermarks" /\ s \in q.todo
  /\ \/ /\ Ready(q, s)
        /\ reader' = [reader EXCEPT ![r] =
             [q EXCEPT !.epochs[s] = redis[s].epoch, !.todo = IF @ = {s} THEN Shards ELSE @ \ {s},
                       !.pc = IF q.todo = {s} THEN FirstRound(q) ELSE @]]
     \/ /\ ~ Ready(q, s) /\ q.todo # Shards      \* the whole round is repeated
        /\ reader' = [reader EXCEPT ![r] = [q EXCEPT !.todo = Shards, !.epochs = [t \in Shards |-> NoEpoch]]]
  /\ UNCHANGED <<jvars, pvars, cache, writer, used>>

TargetRow(q) == {t \in q.parts[ShardOf[q.user]] : t.user = q.user}
Asked(q) == IF q.pc = "target" THEN {ShardOf[q.user]} ELSE q.todo
ReadPart(r, s) ==
  LET q == reader[r] IN
  /\ q.pc \in {"top", "target", "around", "counts", "dump"} /\ s \in Asked(q)
  /\ Exact(q, s)
  /\ LET p == [q EXCEPT !.parts[s] = Rows(redis[s].score[q.month]), !.todo = @ \ {s}]
     IN reader' = [reader EXCEPT ![r] =
          CASE q.pc = "target" /\ TargetRow(p) = {} -> NoQuery     \* 404
            [] q.pc = "target" /\ TargetRow(p) # {} ->
                 [p EXCEPT !.pc = "around", !.todo = Shards, !.parts = NoParts] @@ [target |-> CHOOSE t \in TargetRow(p) : TRUE]
            [] q.pc # "target" /\ p.todo # {} -> p
            [] q.pc = "around" /\ p.todo = {} ->
                 [p EXCEPT !.pc = "counts", !.todo = Shards, !.parts = NoParts] @@ [around |-> Neighbors(p.parts, q.target)]
            [] q.pc = "counts" /\ p.todo = {} -> [pc |-> "names", result |-> Ranked(q.around, p.parts)] @@ p
            [] q.pc = "top" /\ p.todo = {} -> [pc |-> "names", result |-> Top(p.parts)] @@ p
            [] q.pc = "dump" /\ p.todo = {} -> [pc |-> "done", result |-> UNION {p.parts[t] : t \in Shards}] @@ p]
  /\ UNCHANGED <<jvars, pvars, cache, writer, used>>

\* ProfileCache.names: entries belong to a revision of the names.
Cached(q, u) == \E n \in Names : <<q.rev, u, n>> \in cache
NameOf(q, u) == IF Cached(q, u) THEN CHOOSE n \in Names : <<q.rev, u, n>> \in cache ELSE player[u].name
AddNames(r) ==
  LET q == reader[r]
      names == {<<q.rev, t.user, NameOf(q, t.user)>> : t \in q.result}
  IN /\ q.pc = "names"
     /\ cache' = cache \cup names
     /\ reader' = [reader EXCEPT ![r] = [names |-> {<<n[2], n[3]>> : n \in names}, pc |-> "done"] @@ q]
     /\ UNCHANGED <<jvars, pvars, writer, used>>

\* An answer, an error or a deadline: the guard is released.
Release(r) ==
  /\ reader[r].pc # "idle"
  /\ reader' = [reader EXCEPT ![r] = NoQuery] /\ writer' = writer \ {r}
  /\ UNCHANGED <<jvars, pvars, cache, used>>

Next ==
  \/ \E u \in Users, n \in Names : Register(u, n)
  \/ PrepareSeason
  \/ \E i \in Matches, w, l \in Users, m \in Months : Ingest(i, w, l, m)
  \/ \E m \in Months : Close(m)
  \/ Tick
  \/ \E s \in Shards :
       \/ PollSnapshot(s) \/ PollFeed(s) \/ PollApply(s) \/ PollGivesUp(s)
       \/ \E c \in late[s] : LateCommand(s, c)
       \/ ResetShard(s) \/ Replicate(s) \/ Failover(s)
  \/ \E r \in Readers :
       \/ \E m \in Months, kind \in Kinds, u \in Users : Begin(r, m, kind, u)
       \/ \E s \in Shards : Watermark(r, s) \/ ReadPart(r, s)
       \/ AddNames(r) \/ Release(r)

Spec == Init /\ [][Next]_vars

-----------------------------------------------------------------------------
TypeOK ==
  /\ clock \in Months /\ revision \in Nat /\ epochs \in Nat
  /\ \A m \in Months : score[m] \in [Users -> Absent .. MaxScore]
  /\ \A s \in Shards : /\ redis[s].pos <= Len(feed[s]) /\ redis[s].epoch <= epochs
                       /\ Cardinality(late[s]) <= MaxLate
  /\ writer \subseteq Readers

\* Every member of an open season has a row, a score is the number of matches
\* won in that month, and the feed of a shard ends with it (Journal.ingest,
\* ensure); a settlement is the ranking of its month for ever (Journal.close).
Won(m, u) == Cardinality({i \in Matches : match[i] # NoMatch /\ match[i].month = m /\ match[i].winner = u})
JournalExact ==
  \A m \in Months :
    /\ \A u \in Users :
         /\ season[m].status = "open" /\ player[u] # Nobody /\ player[u].month <= m => score[m][u] # Absent
         /\ score[m][u] # Absent => score[m][u] = Won(m, u)
         /\ Folded(EmptyDb.score, feed[ShardOf[u]])[m][u] = score[m][u]
    /\ season[m].status = "closed" => season[m].settlement = Ranking(Rows(score[m]))

\* A projection is the fold of the first events of its feed, on the master and
\* on the replica (APPLY, RESET), and no command that passes the epoch and the
\* position checks is refused as a gap or as a noncontiguous score.
ProjectionExact ==
  \A s \in Shards :
    /\ \A db \in {redis[s], standby[s]} : db.score = Folded(EmptyDb.score, SubSeq(feed[s], 1, db.pos))
    /\ \A c \in late[s] \cup (IF poller[s].pc = "apply" THEN {poller[s].command} ELSE {}) :
         c.kind = "apply" /\ Fresh(redis[s], c) => Valid(redis[s], c.events)

\* What a query answers is the part of the journal's own ranking that it asked
\* for, with the current names, and a reconciliation finds no difference,
\* whatever resets, failovers and late commands fall between its calls.
AnswersExact ==
  \A r \in Readers : reader[r].pc = "done" =>
    LET q   == reader[r]
        all == Rows(score[q.month])
    IN CASE q.kind = "reconcile" -> q.result = all
         [] q.kind = "top" -> q.result = {p \in Ranking(all) : p.position <= Limit}
         [] q.kind = "user" ->
              LET me == CHOOSE p \in Ranking(all) : p.user = q.user
              IN q.result = {p \in Ranking(all) : p.position \in me.position - Radius .. me.position + Radius}
NamesCurrent ==
  \A r \in Readers : reader[r].pc = "done" /\ reader[r].kind # "reconcile" =>
    \A n \in reader[r].names : n[2] = player[n[1]].name
LeaderboardSound == TypeOK /\ JournalExact /\ ProjectionExact /\ AnswersExact /\ NamesCurrent
=============================================================================
