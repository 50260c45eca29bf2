------------------------- MODULE MetricsPipeline -------------------------
(***************************************************************************)
(* The sample path of the metrics monitor: the collector's durable outbox  *)
(* (collector.py), the wire adapter to the message queue                   *)
(* (queue_adapter.py), the queue-to-storage consumer (pipeline.py), the    *)
(* time-series store with its minute and hour rollups (storage.py,         *)
(* rollups.py, summaries.py), snapshot queries behind a cache (queries.py, *)
(* cache.py) and the hourly archive (archives.py).                         *)
(*                                                                         *)
(* A push is a sequence of chunks, one batch each; a batch is named by the *)
(* request and the chunk's index.  Batches are identified with their row   *)
(* in the outbox: a queue record is a row number.  Time counts minutes; a  *)
(* sample's timestamp counts parts of a minute.  The 14-day expiry of      *)
(* receipts, sent rows and batch records lies beyond MaxTime.              *)
(***************************************************************************)
EXTENDS Integers, Sequences, FiniteSets, SequencesExt, FiniteSetsExt

CONSTANTS Requests,     \* request ids of pushes
          ContentsOf,   \* request -> set of contents pushed under it
          Partitions,   \* partitions of the queue topic
          Queued,       \* chunks sent to the queue before the model starts
          Series,       \* time series (metric and labels)
          MetricOf,     \* series -> its metric family
          MaxBytes,     \* collector backlog, in chunks
          Flushers,     \* dispatcher threads
          Consumers,    \* storage workers of the consumer group
          FetchLimit,   \* records of one group fetch
          MaxSeries, PerMetric,           \* cardinality budgets
          Minute,       \* timestamps in a minute
          Hour,         \* minutes in an hour
          Lag,          \* minutes before a bucket is closed
          RawKeep, MinuteKeep, HourKeep,  \* retention of the tiers, in minutes
          Actors,       \* store instances that compact, query and archive
          Starts,       \* query start minutes
          CacheSize, MaxWork, MaxTime, MaxFaults

VARIABLES spool,      \* collector database: receipts, rows, bytes
          flusher,    \* flusher -> its claim
          adapter,    \* partition -> unconfirmed row, and whether it is in the log
          log,        \* partition -> records (rows)
          committed,  \* partition -> group offset
          member,     \* consumer the partitions are assigned to
          consumer,   \* consumer -> fetched records
          db,         \* store database
          stored,     \* history: every sample ever accepted
          now,        \* minute of the shared clock
          actor,      \* instance -> its maintenance or query
          cache,      \* query results, least recently used first
          answer,     \* history: last answer and what it should have been
          archive,    \* the archive file: {} or one content
          work, faults

pipe == <<spool, flusher, adapter, log, committed, member, consumer>>
views == <<actor, cache, answer, archive, work>>
vars == <<pipe, db, stored, now, views, faults>>

Assumption ==
    /\ Minute > 0 /\ Hour > 0 /\ Lag >= 0 /\ FetchLimit > 0
    /\ Lag < RawKeep /\ RawKeep <= MinuteKeep /\ MinuteKeep <= HourKeep
    /\ MaxSeries > 0 /\ PerMetric > 0 /\ CacheSize >= 0
    /\ \A m \in Starts : m % Hour = 0

---------------------------------------------------------------------------
(* Summaries *)

MinuteOf(t) == t \div Minute
HourOf(m) == (m \div Hour) * Hour

Singleton(x) ==
    [count |-> 1, sum |-> x.v, min |-> x.v, max |-> x.v, firstT |-> x.t, first |-> x.v,
     lastT |-> x.t, last |-> x.v, increase |-> 0]

\* A counter that went down was reset: the boundary counts its whole value.
Merge(a, b, kind) ==
    LET boundary == IF b.first >= a.last THEN b.first - a.last ELSE b.first
    IN [a EXCEPT !.increase = @ + b.increase + (IF kind = "counter" THEN boundary ELSE 0),
                 !.count = @ + b.count, !.sum = @ + b.sum,
                 !.min = IF b.min < @ THEN b.min ELSE @,
                 !.max = IF b.max > @ THEN b.max ELSE @,
                 !.lastT = b.lastT, !.last = b.last]

\* {} when there is nothing to combine, else the one summary.
Combine(S, kind) ==
    LET ordered == SortSeq(SetToSeq(S), LAMBDA a, b : a.firstT < b.firstT)
    IN IF S = {} THEN {}
       ELSE {FoldLeft(LAMBDA a, b : Merge(a, b, kind), Head(ordered), Tail(ordered))}

KindOf(s) == db.kinds[MetricOf[s]]

\* The reference: the summary of a set of samples of one series.
Summary(X, kind) == Combine({Singleton(x) : x \in X}, kind)

---------------------------------------------------------------------------
(* Collector: enqueue, claim, publish, settle *)

NoClaim == [pc |-> "idle", row |-> 0]
Pending(i) == spool.rows[i].status = "pending"

\* A known request id changes nothing: the same samples get the stored
\* response, other samples 409.
Enqueue(r, c) ==
    LET chunk(i) == [id |-> <<r, i>>, part |-> c[i].part, samples |-> c[i].samples,
                     status |-> "pending", owner |-> {}, leased |-> FALSE]
    IN /\ spool.receipts[r] = {}
       /\ spool.bytes + Len(c) <= MaxBytes
       /\ spool' = [receipts |-> [spool.receipts EXCEPT ![r] = {c}],
                    rows |-> spool.rows \o [i \in 1..Len(c) |-> chunk(i)],
                    bytes |-> spool.bytes + Len(c)]
       /\ UNCHANGED <<flusher, adapter, log, committed, member, consumer, db, stored, now,
                      views, faults>>

\* Rows no older row of their partition holds back.
Claimable ==
    {i \in DOMAIN spool.rows :
        /\ Pending(i) /\ ~spool.rows[i].leased
        /\ ~\E j \in 1..(i - 1) : Pending(j) /\ spool.rows[j].part = spool.rows[i].part}

Claim(w) ==
    LET i == Min(Claimable) IN
    /\ flusher[w].pc = "idle"
    /\ Claimable # {}
    /\ flusher' = [flusher EXCEPT ![w] = [pc |-> "claimed", row |-> i]]
    /\ spool' = [spool EXCEPT !.rows[i].owner = {w}, !.rows[i].leased = TRUE]
    /\ UNCHANGED <<adapter, log, committed, member, consumer, db, stored, now, views, faults>>

\* The adapter's partition lock makes one publication a step.  outcome: the
\* call is confirmed, it is applied and the answer is lost, or it is not
\* applied.  The queue drops a record whose sequence number it already holds.
Publish(w, outcome) ==
    LET i == flusher[w].row
        p == spool.rows[i].part
        refused == adapter[p].pending \notin {{}, {i}}
        append == outcome # "failed" /\ ~adapter[p].applied
    IN /\ flusher[w].pc = "claimed"
       /\ IF refused
          THEN /\ outcome = "failed"
               /\ UNCHANGED <<adapter, log, faults>>
          ELSE /\ outcome = "ok" \/ faults < MaxFaults
               /\ faults' = IF outcome = "ok" THEN faults ELSE faults + 1
               /\ log' = IF append THEN [log EXCEPT ![p] = Append(@, i)] ELSE log
               /\ adapter' = [adapter EXCEPT ![p] =
                    IF outcome = "ok" THEN [pending |-> {}, applied |-> FALSE]
                    ELSE [pending |-> {i}, applied |-> @.applied \/ append]]
       /\ flusher' = [flusher EXCEPT ![w].pc = IF outcome = "ok" THEN "sent" ELSE "failed"]
       /\ UNCHANGED <<spool, committed, member, consumer, db, stored, now, views>>

\* Results apply to the row only under the claim's owner token.
Owned(w) == w \in spool.rows[flusher[w].row].owner

Settle(w) ==
    LET i == flusher[w].row IN
    /\ flusher[w].pc \in {"sent", "failed"}
    /\ spool' = IF ~Owned(w) THEN spool
                ELSE IF flusher[w].pc = "failed"
                THEN [spool EXCEPT !.rows[i].owner = {}, !.rows[i].leased = FALSE]
                ELSE [spool EXCEPT !.rows[i].owner = {}, !.rows[i].leased = FALSE,
                                   !.rows[i].status = "sent", !.bytes = @ - 1]
    /\ flusher' = [flusher EXCEPT ![w] = NoClaim]
    /\ UNCHANGED <<adapter, log, committed, member, consumer, db, stored, now, views, faults>>

\* 120 seconds pass before the claim is settled.
LeaseLapses(i) ==
    /\ faults < MaxFaults
    /\ spool.rows[i].leased
    /\ spool' = [spool EXCEPT !.rows[i].leased = FALSE]
    /\ faults' = faults + 1
    /\ UNCHANGED <<flusher, adapter, log, committed, member, consumer, db, stored, now, views>>

\* The collector process restarts: claims, the producer ids and the
\* unconfirmed sequence are memory; the spool is not.
CollectorRestarts ==
    /\ faults < MaxFaults
    /\ flusher' = [w \in Flushers |-> NoClaim]
    /\ adapter' = [p \in Partitions |-> [pending |-> {}, applied |-> FALSE]]
    /\ faults' = faults + 1
    /\ UNCHANGED <<spool, log, committed, member, consumer, db, stored, now, views>>

---------------------------------------------------------------------------
(* Storage: the consumer and Store.ingest *)

NoBatch == [part |-> {}, records |-> <<>>, next |-> 0]

Fetch(c, p) ==
    LET upto == Min({Len(log[p]), committed[p] + FetchLimit}) IN
    /\ member = c
    /\ consumer[c] = NoBatch
    /\ committed[p] < Len(log[p])
    /\ consumer' = [consumer EXCEPT ![c] =
          [part |-> {p}, records |-> SubSeq(log[p], committed[p] + 1, upto), next |-> upto]]
    /\ UNCHANGED <<spool, flusher, adapter, log, committed, member, db, stored, now, views,
                   faults>>

RawFloor(at) == at - RawKeep
MinuteFloor(at) == HourOf(at - MinuteKeep)
HourFloor(at) == HourOf(at - HourKeep)

InWindow(x) == RawFloor(now) <= MinuteOf(x.t) /\ MinuteOf(x.t) <= now

\* The whole batch is one transaction: one sample that cannot be taken rolls
\* it back.
Acceptable(X) ==
    LET all == db.series \cup {x.s : x \in X} IN
    /\ \A x \in X : InWindow(x) /\ db.kinds[MetricOf[x.s]] \in {"none", x.k}
    /\ \A x, y \in X : MetricOf[x.s] = MetricOf[y.s] => x.k = y.k
    /\ {x.s : x \in X} \subseteq db.series
       \/ /\ Cardinality(all) <= MaxSeries
          /\ \A x \in X : x.s \notin db.series =>
                Cardinality({s \in all : MetricOf[s] = MetricOf[x.s]}) <= PerMetric
    /\ \A x \in X, y \in X \cup db.raw : x.s = y.s /\ x.t = y.t => x.v = y.v

Insert(X) ==
    LET fresh == {x \in X : ~\E y \in db.raw : y.s = x.s /\ y.t = x.t} IN
    [db EXCEPT !.series = @ \cup {x.s : x \in X},
               !.kinds = [m \in DOMAIN @ |->
                    IF \E x \in X : MetricOf[x.s] = m
                    THEN (CHOOSE x \in X : MetricOf[x.s] = m).k ELSE @[m]],
               !.raw = @ \cup fresh,
               !.dirtyMinutes = @ \cup {<<x.s, MinuteOf(x.t)>> : x \in fresh},
               !.revision = IF fresh = {} THEN @ ELSE @ + 1,
               !.compacted = IF fresh = {} THEN @ ELSE -1]

\* One record: a batch id is applied once; a permanent error is recorded and
\* the cursor moves on.
Ingest(c) ==
    LET i == Head(consumer[c].records)
        X == spool.rows[i].samples
    IN /\ consumer[c].records # <<>>
       /\ IF i \in db.batches THEN UNCHANGED <<db, stored>>
          ELSE IF Acceptable(X)
          THEN /\ db' = [Insert(X) EXCEPT !.batches = @ \cup {i}]
               /\ stored' = stored \cup X
          ELSE /\ db' = [db EXCEPT !.rejected = @ \cup {i}]
               /\ UNCHANGED stored
       /\ consumer' = [consumer EXCEPT ![c].records = Tail(@)]
       /\ UNCHANGED <<spool, flusher, adapter, log, committed, member, now, views, faults>>

\* The queue refuses the commit of a member whose generation has passed.
Commit(c) ==
    /\ consumer[c] # NoBatch /\ consumer[c].records = <<>>
    /\ committed' = IF member # c THEN committed
                    ELSE [p \in Partitions |->
                             IF p \in consumer[c].part THEN consumer[c].next ELSE committed[p]]
    /\ consumer' = [consumer EXCEPT ![c] = NoBatch]
    /\ UNCHANGED <<spool, flusher, adapter, log, member, db, stored, now, views, faults>>

\* A temporary failure, a crash or a lost commit: the cursor stays.
ConsumeFails(c) ==
    /\ faults < MaxFaults
    /\ consumer[c] # NoBatch
    /\ consumer' = [consumer EXCEPT ![c] = NoBatch]
    /\ faults' = faults + 1
    /\ UNCHANGED <<spool, flusher, adapter, log, committed, member, db, stored, now, views>>

Rebalance(c) ==
    /\ faults < MaxFaults
    /\ member # c
    /\ member' = c
    /\ faults' = faults + 1
    /\ UNCHANGED <<spool, flusher, adapter, log, committed, consumer, db, stored, now, views>>

---------------------------------------------------------------------------
(* Compaction: a plan from a snapshot, published under the same revision *)

NoWork == [pc |-> "idle", goal |-> "none", start |-> 0, at |-> 0, tries |-> 0, rounds |-> 0,
           plan |-> {}]

Begin(a, goal, start) ==
    /\ work < MaxWork
    /\ actor[a].pc = "idle"
    /\ goal = "archive" => archive = {} /\ start + Hour <= now - MinuteKeep
    /\ actor' = [actor EXCEPT ![a] =
          [NoWork EXCEPT !.pc = "snapshot", !.goal = goal, !.start = start, !.at = now]]
    /\ work' = work + 1
    /\ UNCHANGED <<pipe, db, stored, now, cache, answer, archive, faults>>

\* What follows a compaction: the query reads the clock again.
Compacted(a) ==
    CASE actor[a].goal = "query"   -> [actor[a] EXCEPT !.pc = "read", !.at = now, !.plan = {}]
      [] actor[a].goal = "archive" -> [actor[a] EXCEPT !.pc = "export", !.plan = {}]
      [] OTHER                     -> NoWork

MinutePlan(keys) ==
    {[s |-> k[1], b |-> k[2], stats |-> st] : <<k, st>> \in
        UNION {{<<k, st>> : st \in
                    Summary({x \in db.raw : x.s = k[1] /\ MinuteOf(x.t) = k[2]}, KindOf(k[1]))}
               : k \in keys}}

\* Rows of new replace rows of old with the same series and bucket.
Replace(old, new) ==
    {r \in old : ~\E n \in new : n.s = r.s /\ n.b = r.b} \cup new

HourPlan(keys, minutes) ==
    LET rows == Replace(db.minutes, minutes) IN
    {[s |-> k[1], b |-> k[2], stats |-> st] : <<k, st>> \in
        UNION {{<<k, st>> : st \in
                    Combine({r.stats : r \in {q \in rows : q.s = k[1] /\ HourOf(q.b) = k[2]}},
                            KindOf(k[1]))}
               : k \in keys}}

RollupSnapshot(a) ==
    LET at     == actor[a].at
        closed == HourOf(at - Lag)
        dm     == {k \in db.dirtyMinutes : k[2] < at - Lag}
        dh     == {k \in db.dirtyHours : k[2] < closed}
                  \cup {<<k[1], HourOf(k[2])>> : k \in {j \in dm : j[2] < closed}}
        minutes == MinutePlan(dm)
    IN /\ actor[a].pc = "snapshot"
       /\ actor' = [actor EXCEPT ![a] =
             IF db.compacted = at THEN Compacted(a)
             ELSE [@ EXCEPT !.pc = "publish",
                            !.plan = {[revision |-> db.revision, at |-> at, dm |-> dm, dh |-> dh,
                                       minutes |-> minutes, hours |-> HourPlan(dh, minutes)]}]]
       /\ UNCHANGED <<pipe, db, stored, now, cache, answer, archive, work, faults>>

\* The retention tiers, and the series nothing is left of.
Retained(d, at) ==
    LET raw     == {x \in d.raw : MinuteOf(x.t) >= RawFloor(at)}
        minutes == {r \in d.minutes : r.b >= MinuteFloor(at)}
        hours   == {r \in d.hours : r.b >= HourFloor(at)}
        live    == {s \in d.series : \E r \in raw \cup minutes \cup hours : r.s = s}
    IN [d EXCEPT !.raw = raw, !.minutes = minutes, !.hours = hours, !.series = live,
                 !.dirtyMinutes = {k \in @ : k[1] \in live},
                 !.dirtyHours = {k \in @ : k[1] \in live},
                 !.kinds = [m \in DOMAIN @ |->
                              IF \E s \in live : MetricOf[s] = m THEN @[m] ELSE "none"]]

\* Mutant: publish the plan without looking at the revision.
Fresh_Always(plan) == TRUE

\* No ingestion and no other compaction since the snapshot.
Fresh(plan) == db.revision = plan.revision

CompactPublish(a) ==
    \E plan \in actor[a].plan :
       /\ actor[a].pc = "publish"
       /\ IF Fresh(plan)
          THEN /\ db' = [Retained([db EXCEPT
                            !.minutes = Replace(@, plan.minutes),
                            !.hours = Replace(@, plan.hours),
                            !.dirtyHours =
                                (@ \cup {<<k[1], HourOf(k[2])>> : k \in plan.dm}) \ plan.dh,
                            !.dirtyMinutes = @ \ plan.dm], plan.at)
                         EXCEPT !.revision = @ + 1, !.compacted = plan.at]
               /\ actor' = [actor EXCEPT ![a] = Compacted(a)]
          ELSE /\ actor' = [actor EXCEPT ![a] =
                     IF @.tries = 2 THEN NoWork
                     ELSE [@ EXCEPT !.pc = "snapshot", !.at = now, !.tries = @ + 1, !.plan = {}]]
               /\ UNCHANGED db
       /\ UNCHANGED <<pipe, stored, now, cache, answer, archive, work, faults>>

---------------------------------------------------------------------------
(* Queries and the archive *)

\* One series over [start, end of the captured minute]: raw samples, then the
\* minute tier, then the hour tier, each below the floor of the finer one.
QuerySnapshot(s, start, at) ==
    LET atoms == {Singleton(x) : x \in {y \in db.raw :
                        /\ y.s = s /\ MinuteOf(y.t) >= RawFloor(at)
                        /\ start <= MinuteOf(y.t) /\ MinuteOf(y.t) <= at}}
        tier(rows, size, low, high) ==
            {r.stats : r \in {q \in rows : /\ q.s = s /\ low <= q.b /\ q.b < high
                                           /\ q.b <= at /\ q.b + size > start}}
    IN Combine(atoms \cup tier(db.minutes, 1, MinuteFloor(at), RawFloor(at))
                     \cup tier(db.hours, Hour, HourFloor(at), MinuteFloor(at)), KindOf(s))

\* What the query should say: every sample ever accepted that retention
\* still covers.
Truth(s, start, at) ==
    Summary({x \in stored : /\ x.s = s /\ start <= MinuteOf(x.t) /\ MinuteOf(x.t) <= at
                            /\ HourFloor(at) <= MinuteOf(x.t)}, KindOf(s))

CacheKey(a) == <<db.revision, actor[a].start, actor[a].at>>

\* Cache.get: a hit moves to the end, a miss loads and evicts the oldest.
Query(a) ==
    LET start == actor[a].start
        at    == actor[a].at
        hits  == {e \in Range(cache) : e.key = CacheKey(a)}
        entry == IF hits # {} THEN CHOOSE e \in hits : TRUE
                 ELSE [key |-> CacheKey(a),
                       value |-> [s \in db.series |-> QuerySnapshot(s, start, at)]]
        moved == Append(SelectSeq(cache, LAMBDA e : e # entry), entry)
    IN /\ actor[a].pc = "read"
       /\ IF db.compacted # at
          THEN /\ actor' = [actor EXCEPT ![a] =
                     IF @.rounds = 2 THEN NoWork
                     ELSE [@ EXCEPT !.pc = "snapshot", !.at = now, !.tries = 0,
                                    !.rounds = @ + 1]]
               /\ UNCHANGED <<cache, answer>>
          ELSE /\ actor' = [actor EXCEPT ![a] = NoWork]
               /\ cache' = IF Len(moved) > CacheSize THEN Tail(moved) ELSE moved
               /\ answer' = {[got |-> entry.value,
                              want |-> [s \in db.series |-> Truth(s, start, at)]]}
       /\ UNCHANGED <<pipe, db, stored, now, archive, work, faults>>

\* Exclusive creation: an existing file is not replaced.
Export(a) ==
    LET start == actor[a].start IN
    /\ actor[a].pc = "export"
    /\ archive' = IF archive # {} THEN archive
                  ELSE {[start |-> start, floor |-> HourFloor(now), held |-> stored,
                         kinds |-> db.kinds,
                         rows |-> {r \in db.hours : r.b = start}]}
    /\ actor' = [actor EXCEPT ![a] = NoWork]
    /\ UNCHANGED <<pipe, db, stored, now, cache, answer, work, faults>>

Tick ==
    /\ now < MaxTime
    /\ now' = now + 1
    /\ UNCHANGED <<pipe, db, stored, views, faults>>

---------------------------------------------------------------------------
Init ==
    /\ spool = [receipts |-> [r \in Requests |-> {}], bytes |-> 0,
                rows |-> [i \in DOMAIN Queued |->
                    [id |-> <<"before", i>>, part |-> Queued[i].part,
                     samples |-> Queued[i].samples, status |-> "sent", owner |-> {},
                     leased |-> FALSE]]]
    /\ flusher = [w \in Flushers |-> NoClaim]
    /\ adapter = [p \in Partitions |-> [pending |-> {}, applied |-> FALSE]]
    /\ log = [p \in Partitions |->
                SelectSeq([i \in DOMAIN Queued |-> i], LAMBDA i : Queued[i].part = p)]
    /\ committed = [p \in Partitions |-> 0]
    /\ member \in Consumers
    /\ consumer = [c \in Consumers |-> NoBatch]
    /\ db = [series |-> {}, kinds |-> [m \in {MetricOf[s] : s \in Series} |-> "none"],
             raw |-> {}, dirtyMinutes |-> {}, dirtyHours |-> {}, minutes |-> {}, hours |-> {},
             revision |-> 0, compacted |-> -1, batches |-> {}, rejected |-> {}]
    /\ stored = {} /\ now = 0
    /\ actor = [a \in Actors |-> NoWork]
    /\ cache = <<>> /\ answer = {} /\ archive = {} /\ work = 0 /\ faults = 0

CollectorStep ==
    \/ \E r \in Requests : \E c \in ContentsOf[r] : Enqueue(r, c)
    \/ \E w \in Flushers : Claim(w) \/ Settle(w)
    \/ \E w \in Flushers, o \in {"ok", "lost", "failed"} : Publish(w, o)
    \/ \E i \in DOMAIN spool.rows : LeaseLapses(i)
    \/ CollectorRestarts

StorageStep ==
    \E c \in Consumers :
        \/ \E p \in Partitions : Fetch(c, p)
        \/ Ingest(c) \/ Commit(c) \/ ConsumeFails(c) \/ Rebalance(c)

StoreStep ==
    \E a \in Actors :
        \/ Begin(a, "maintain", 0)
        \/ \E s \in Starts : Begin(a, "query", s) \/ Begin(a, "archive", s)
        \/ RollupSnapshot(a) \/ CompactPublish(a) \/ Query(a) \/ Export(a)

Next == CollectorStep \/ StorageStep \/ StoreStep \/ Tick

Spec == Init /\ [][Next]_vars

---------------------------------------------------------------------------
(* Properties *)

TypeOK ==
    /\ \A i \in DOMAIN spool.rows :
          spool.rows[i].status \in {"pending", "sent"} /\ spool.rows[i].owner \subseteq Flushers
    /\ \A p \in Partitions : committed[p] \in 0..Len(log[p])
    /\ db.series \subseteq Series /\ db.batches \subseteq DOMAIN spool.rows
    /\ db.revision \in Nat /\ Len(cache) <= CacheSize
    /\ \A a \in Actors : actor[a].tries \in 0..2 /\ actor[a].rounds \in 0..2

First(p, i) == Min({n \in DOMAIN log[p] : log[p][n] = i})

\* The backlog counter is the pending chunks; a sent chunk is in the queue;
\* chunks of a partition first reach it in the order they were accepted; what
\* the group's cursor has passed is stored or rejected, never skipped; and the
\* store holds exactly the samples of the batches it took, each batch whole.
NothingLost ==
    /\ spool.bytes = Cardinality({i \in DOMAIN spool.rows : Pending(i)})
    /\ \A i \in DOMAIN spool.rows : ~Pending(i) => i \in Range(log[spool.rows[i].part])
    /\ \A p \in Partitions : \A i, j \in Range(log[p]) : i < j => First(p, i) < First(p, j)
    /\ \A p \in Partitions : \A n \in 1..committed[p] : log[p][n] \in db.batches \cup db.rejected
    /\ stored = UNION {spool.rows[i].samples : i \in db.batches}

\* A bucket with no dirty mark summarises every sample ever accepted for it,
\* although the tier below may be gone.
RollupsExact ==
    /\ \A r \in db.minutes : <<r.s, r.b>> \notin db.dirtyMinutes =>
          {r.stats} = Summary({x \in stored : x.s = r.s /\ MinuteOf(x.t) = r.b}, KindOf(r.s))
    /\ \A r \in db.hours :
          (<<r.s, r.b>> \notin db.dirtyHours
             /\ ~\E k \in db.dirtyMinutes : k[1] = r.s /\ HourOf(k[2]) = r.b) =>
          {r.stats} = Summary({x \in stored : x.s = r.s /\ HourOf(MinuteOf(x.t)) = r.b},
                              KindOf(r.s))

\* A query, cached or not, and an archive report every accepted sample of
\* their range that retention still covers, and no other.
AnswersExact ==
    /\ \A a \in answer : a.got = a.want
    /\ \A f \in archive : \A s \in Series :
          LET X == {x \in f.held : x.s = s /\ HourOf(MinuteOf(x.t)) = f.start}
              R == {r.stats : r \in {q \in f.rows : q.s = s}}
          IN f.floor <= f.start => R = Summary(X, f.kinds[MetricOf[s]])

MetricsSound == TypeOK /\ NothingLost /\ RollupsExact /\ AnswersExact
===========================================================================
