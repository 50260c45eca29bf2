# Verification of system-design-impl

The repository holds 27 independent reference systems, one per chapter of a system design book.
Each is a package of Python processes that keep their state in SQLite or in files and talk over
loopback HTTP, gRPC or Redis. This project keeps TLA+ models of the parts whose correctness depends
on interleavings, lost or late requests, failures and recovery, the TLC runs that check them on
small instances, and proofs for all instances of what matters most.

## 1. Inventory

Paths are below `src/<system>/src/<package>/`. Every part is listed with its status in `PROJECT.json`
under `components`.

| system | state | operations | what makes it hard | correct means |
| --- | --- | --- | --- | --- |
| digital-wallet | replicated event journal; per-shard balances, holds and participant records; fences | create, cancel, retry, worker step, prepare/confirm/cancel at a shard, append and push of the journal, fence, audit | requests executed after their caller timed out; appends that fail and still commit; restart and takeover between two calls | money is conserved; transfers are all or nothing; decisions are final; a fenced coordinator moves nothing; committed events stay on a quorum; the audit raises no false alarm |
| distributed-message-queue | coordinator rows (high water, pending journal, producer sequences, receipts, groups, cursors, transactions); broker logs with epoch and checkpoint | produce, open producer, stage and abort, sync/install/retain at brokers, elect, fetch, join/leave/heartbeat, commit, reset, process, expand | late and torn broker writes, elections, abandoned stages, membership that changes during a broker read | a committed batch stays on a majority, once and in order; a record is processed once; cursors advance only over what was served |
| hotel-reservation | inventory per day, reservations, payment jobs with leases, provider ledger | reserve, cancel, sweep, claim, call, finish, set inventory | payment outcome races with expiry and cancellation; lease takeovers; late provider calls | inventory is exact; a confirmed stay is paid; money of an ended stay comes back |
| payment-system | operations, wallet with holds, jobs, provider rows and events, callback inbox, reconciliation runs | create, checkout, worker steps, callbacks, retry, reconcile, notify consumer | two workers on one job, dead executions, callbacks out of order, stale statements | wallet equals the operations; local outcome equals the provider's and is final; refunds never exceed the payment; a run follows its job |
| key-value-store | per-node records with vector clocks, hints, Merkle trees; membership tables; write-ahead log, memtable, tables | put, get, delete, hinted handoff, repair, gossip, flush, compaction, recovery | sloppy quorums with wrong beliefs, merges in any order, restarted nodes with old heartbeats, crashes and I/O errors between the steps of the engine | versions are unique; acknowledged writes are never dropped; reads see what primaries acknowledged; replicas converge; the engine loses nothing readable |
| stock-exchange | command log, engines, control row, order book index, balances and reservations, market projection, feed windows | submit, match, cancel, expire, apply, promote, query, poll, deltas | a promotion between two reads of the control row; linked book index under partial fills; feed windows | balances and reservations are exact; price-time priority; a failover takes nothing observed back; projections have no gap |
| object-storage | catalog (publication intents, uploads), metadata shards, data nodes with generations, pack files and index | PUT, GET, DELETE, multipart, maintenance (replay, expire, mark, repair, sweep), bucket deletion; node put, collect, compact, recover | garbage collection beside late writes; crash between freeze, publish and record; torn packs | no referenced chunk is collected; one version per idempotency key; frozen uploads complete; a node serves what its files hold |
| gaming-leaderboard | match journal, seasons, feed per shard, Redis projection with epoch and position | score, settle, poll, reset, query, reconcile | commands of callers that gave up, failover to an older copy, readers between polls | an answer is the state at the captured heads; a season is settled once |
| chat-system | messages, sessions, leases, event stream, inboxes, cursors, push jobs in Redis | login, append, hint, read, acknowledge, push | a device that moves while it sends; retries; restarted nodes | one message per key; a fenced session appends nothing; nothing unread is skipped |
| notification-system | job table with leases, audit log, quotas, preferences | admit, claim, renew, deliver, retry, opt out | lapsed leases, restarts, two processes with one event | one outcome per event; the audit log tells what happened |
| news-feed-system | posts with outbox, graph cache, queue, feeds, page coverage | post, follow, fan out, read | graph and feed change during a load or a fan-out | caches, feeds and pages agree with posts and relations |
| file-sync-system | uploads, revisions, blocks, events; folders of the devices | edit, upload, commit, pull, prune, share, collect | edits beside pulls, lost answers, collection | no change is lost; referenced blocks are kept; idle devices agree |
| video-streaming-system | uploads, task graph with leases, completion outbox, objects | upload, claim, execute, complete, publish, remove, sweep | taken-over leases, sweeps beside slow requests | outputs come from the lease holder; nothing in use is swept; no video is stuck |
| distributed-email-service | outbox, spool, mailboxes with change log, replicas, views | send, accept, store, follow, list, poll | lost answers, two receivers, stale pages | no message is lost or doubled; replicas and views follow the log |
| metrics-monitoring-system | collector outbox, queue, samples, rollups, archives; alerts, notifications | push, flush, consume, roll up, query, archive; evaluate, silence, deliver | retried batches, retention beside rollups, two evaluators | every sample counts once; rollups and answers are exact; every alert event is delivered, silenced or given up |
| ad-click-aggregation-system | raw log, checkpoint, windows per partition | tail, append, poll, query, replay, audit | rotated files, lost answers, late events | lines are kept in order; counts and merged answers are exact |
| scale-from-zero | profiles, requests, jobs, change feed, fence, cache with tickets and floors | update, read, fill, invalidate, replicate, promote, consume | fills that race invalidations, promotion beside a writer, replaced primary | published changes survive; a retried request takes effect once; no stale fill survives |
| web-crawler | durable or in-memory frontier, claims, robots cache, snapshots | seed, claim, fetch, route, retry, finish, recover | two tasks with the same bytes, crash and cancellation between steps | no URL is lost; bytes are stored once; politeness and robots are kept |
| rate-limiter | counters and logs per rule, clocks, rules, paced queue | check, expire, reload, submit, close | a clock that is set back, lost calls, eviction | no stretch of time sees more than the algorithm promises; the delay told is enough |
| url-shortener, unique-id-generator | mappings, sequence, cache; clock and sequence of a generator | shorten, resolve, restart; generate, parse | two processes with one URL; wrap within a millisecond, clock set back | one code per URL and back; ids unique, increasing and parsed back |
| consistent-hashing | ring entries, snapshots | add, remove, reweigh, look up, plan a migration | colliding positions, readers of an old snapshot | only the keys of the changed node move; a plan names exactly them |
| maps, nearby-friends, proximity, search-autocomplete, capacity-estimation | see `components` | | mostly numeric or read-only | not modelled (section 8) |

The systems do not call each other. Within one system the components interact as follows.

* Wallet: the coordinator appends to the journal, which pushes to replicas; the worker calls the
  shards; the audit reads all shards.
* Queue: the coordinator owns all metadata and calls the brokers; transactions join groups and
  partitions.
* Hotel and payment: workers lease jobs from the store and call the provider; the provider calls
  back; the payment store notifies a consumer.
* Key-value store: the coordinating node calls replicas or substitutes; repair and handoff run
  beside it; each replica has a storage engine.
* Stock exchange: engines poll the sequencer; the gateway and the market process read the active
  engine, fenced by the epoch of the control row.
* Object store: the API process calls metadata shards and data nodes under a shared or exclusive
  guard.
* Leaderboard, chat and news feed: stateless readers and writers over a store (SQLite, Redis), with a
  poller, event stream or task queue between them.
* Notification, video, email, metrics, ad clicks: a durable row is claimed under a lease by a worker
  that calls someone else (provider, object store, SMTP, queue, log) and settles the row afterwards.
* File sync and scale-from-zero: clients or web nodes act on what they read before; versions,
  tickets and floors decide whether it still counts.

## 2. Plan

Built in this order, by the weight of the concurrent logic: wallet, queue, hotel, key-value store,
payment, stock exchange, object store; leaderboard, chat, notification, news feed, file sync, video,
email, metrics, ad clicks; scale-from-zero, crawler, rate limiter, short links, unique ids,
membership of the key-value store, hash ring.

Abstract specifications: `QuorumLog` (what a replicated journal promises) and `ChunkStore` (what a
data node promises). Proved so far (section 5): the wallet with its money, audit and journal, the
queue's partitions and consumer groups, the hotel, payment reconciliation, the exchange's failover,
the storage engine and the replication of the key-value store, the object store and its data node.
Next, in this order: the wallet of `PaymentFlow` equals its operations (`PaymentsExact`); `ShortLinks`;
the membership of the key-value store; then a model of the recovery of nearby-friends around a
publish/subscribe gap.

## 3. Modules and code

| module | models | state and actions |
| --- | --- | --- |
| `WalletCoordinator` | `coordinator.py`, `coordinator_projection.py`, `projection.py`, `shard.py` | the reducer of a shard and the checks of a command as operators; `cmd`, `order`, `pending` are the journal, `shard` the participants, `net` requests whose caller gave up; one action per call or journal append of `Coordinator.step` |
| `WalletAudit` | `audit.py` | the audit reads one shard per step, beside requests that arrive late |
| `WalletJournal`, `QuorumLog` | `journal.py`; the abstract log | one task per replica: status, push, acknowledgement |
| `QueuePartition` | `coordinator.py`, `coordinator_replication.py`, `coordinator_retention.py`, `log.py` | `hist` is the committed log, `broker` the replicas, `pop` the publication in progress |
| `QueueGroups` | `coordinator_groups.py`, `Coordinator._process` | members, generations, cursors, bounds, transactions; reads of a broker are two steps |
| `HotelSaga` | `bookings.py`, `saga.py`, `worker.py`, `payment.py` | one action per transaction or provider call |
| `PaymentFlow`, `PaymentReconcile` | `operations.py`, `ledger.py`, `jobs.py`, `worker.py`, `provider.py`, `receiver.py`; `reconciliation.py` | each transaction of the store or the provider is an action |
| `KVReplication` | `replication/`, `cluster/repair.py`, `cluster/anti_entropy.py` | one key: `rec` per node, `hints`, the write, read and repair in progress |
| `KVStorage` | `storage/` | the files, the log and the memory of one engine; `pc` walks through a write, flush or compaction |
| `StockMatching` | `matching.py`, `order_book.py` | the reduction of one command per action; the linked index as in the code |
| `StockReplication` | `storage.py`, `market.py`, `http.py`, `cli.py` | every read of the control row is a step |
| `ObjectStorage` | `service.py`, `catalog.py`, `metadata.py`, `chunk_io.py`, `service_runtime.py` | requests of clients and of maintenance, step by step |
| `ObjectNode`, `ChunkStore` | `node.py`; the abstract store of chunks | pack files, index, CURRENT |
| `KVMembership` | `cluster/gossip.py`, `cluster/membership.py`, `cluster/hinted_handoff.py`, `node.py` | a table, a ring and an address per node; rounds, calls, merges, starts and stops are steps |
| `Chat` | `distributed.py`, `redis_backend.py`, `redis_scripts.py`, `push.py`, `client.py` | a Redis script is a step; what a node remembers between two of them is its local state |
| `Leaderboard` | `journal.py`, `projection.py`, `projection_scripts.py`, `service.py` | `feed` per shard, projection with epoch and position, queries that hold a guard |
| `Notification` | `service.py`, `durable.py`, `worker.py`, `retry.py`, `tracker.py` | a transaction, or code without an await, is a step |
| `NewsFeed` | `storage.py`, `post_service.py`, `social_graph_cache.py`, `fanout_service.py`, `worker.py`, `news_feed_service.py` | an await is a step boundary |
| `FileSync` | `service.py`, `notifications.py`, `storage.py`, `client.py`, `watcher.py` | server transactions, and the devices' push and pull block by block |
| `VideoPipeline` | `service.py`, `scheduling.py`, `pipeline.py`, `worker.py`, `storage.py`, `remote_storage.py` | metadata transactions are steps, objects are written and read outside them |
| `Mail` | `store.py`, `spool.py`, `worker.py`, `mail.py`, `replication.py`, `mailbox_views.py` | outbox, spool, mailboxes and followers, each claim and settlement a step |
| `MetricsPipeline`, `MetricsAlerts` | `collector.py`, `queue_adapter.py`, `pipeline.py`, `storage.py`, `rollups.py`, `queries.py`, `archives.py`; `alerts.py`, `alert_evaluation.py`, `alert_delivery.py` | rows of the outbox, samples and summaries; alerts with a version per evaluation |
| `AdClicks` | `log.py`, `tailer.py`, `checkpoints.py`, `aggregate.py`, `query_service.py`, `recovery.py` | raw log, checkpoint, one loop per aggregator |
| `ScaleFromZero` | `profiles.py`, `replication.py`, `leadership.py`, `cache.py`, `app.py`, `jobs.py`, `consumer.py`, `sessions.py` | one shard: primary, replica, fence, cache; the two commits of an update are two steps |
| `WebCrawler` | `crawler.py`, `state.py`, `frontier.py`, `robots.py`, `partition.py` | a slot per task, with the awaits of `_process_entry` as step boundaries |
| `RateLimiter` | `core.py`, `algorithms/`, `storage/`, `rule_files.py`, `queue.py` | keys with expiry, two clocks, a request rule by rule, a reload, the paced worker |
| `ShortLinks` | `shortener.py`, `strategies.py`, `storage.py`, `sqlite_storage.py` | rows, the id sequence and the write transaction; instances with their caches |
| `Snowflake` | `snowflake.py`, `clock.py`, `config.py`, `parser.py` | clock, last time and sequence of each generator |
| `HashRing` | `ring.py`, `migration.py` | the published ring, the writer that holds the lock, snapshots |
| `WalletProofs`, `AuditProofs` | proofs about `WalletCoordinator`; about `WalletAudit` and `WalletJournal` | the proofs about `PaymentReconcile` and `HotelSaga` are at the end of those modules |
| `QueueProofs`, `StoresProofs`, `ObjectProofs` | proofs about `QueueGroups` and `QueuePartition`; about `StockReplication`, `KVStorage` and `KVReplication`; about `ObjectNode` and `ObjectStorage` | |
| `SumTheorems` | facts about sums over finite sets, for the proofs | |

### How the MC modules are built

An `MC` module puts several instances side by side. The variable `part` is chosen in the initial
state and says which instance a behaviour exercises; the variables of the others keep their initial
values, or are 0 where the other system is not used at all. A run therefore checks the union of its parts, each with its own bounds, and a property of
one part holds trivially in the others. The parts of every run are listed at the top of its module.
Where a component is proved about, the `MC` module extends it and the constants of the `.cfg` are the
component's own, so that the run checks the very definition that the theorem states; the other
components are instances with their constants fixed in the `MC` module.

`PROJECT.json` maps the definitions that carry the code's lines. Small helpers whose lines lie inside
those of a listed definition are not repeated there.

## 4. Runs

| run | parts | what it shows |
| --- | --- | --- |
| `wallet` | cross, fence, audit, append, takeover | two transfers that spend the same unit, restarts with moving fences, the audit beside late confirmations, the journal with late pushes and a takeover |
| `queue` | produce, stages, sequence, groups, sessions | replication with late and torn requests, abandoned stages, retried and substituted sequences, rebalances in the middle of fetches and transactions |
| `queue_truncation` | (disagreement) | section 7 |
| `payments` | stays, payout, payin, refunds, checkout, reconcile | overlapping stays, payouts with lost calls, dead executions, competing refunds and orders, an overtaken reconciliation |
| `stores` | exchange: failover, restart, matching; key-value store: writes, reads, engine, restarts, silent, discovery, handoff; ring: topology; limiter: buckets, log_windows, counters, pressure, remote, reloading, pacing | failover between any two calls and five commands on four orders; sloppy writes with two faults, quorum reads beside writes, the engine with two errors or crashes, nodes that restart under old heartbeats; colliding positions; clocks set back |
| `delivery` | chat: moves, lost_calls, hints, rehint, inbox, push; leaderboard: seasons, resets, failover, reconciling, ranks, renaming; notification: admit, deliver, opt_out, quota; news feed: fanout, displaced, celebrity, pages; email: send, receive, follow, unreadable, first_page; links and ids: database, colliding, sharing_links, drift, fleet | nothing accepted is lost, doubled or shown wrongly |
| `pipelines` | file sync: edits, versions, sharing; video: leases, uploads, playback, multipart; metrics: collect, rebalance, rollup, archive_old; alerts: evaluate, notify, silence; ad clicks: tail, windows, workers, audit; crawler: recover, copies, frontier, partitioned; profiles: failover, fills, probes, outbox | what each stage hands on is complete and exact |
| `object` | sweep, repair, publish, uploads, parts, node | collection beside late PUTs, repair of a lost copy, replayed publications and bucket deletion, multipart uploads, failures inside the data node |
| `object_live` | | pending publications are settled, frozen uploads complete |
| `object_key_clash` | (disagreement) | section 7 |
| `money_live` | cross, local, stays, payin, reconcile | transfers, stays, payments and reconciliations come to an end |
| `replica_live` | repair, publish | replicas converge; accepted commands are published |

The run `wallet` is `Wallet.cfg` on `MCWallet`, and so on: `MCQueue`, `MCPayments`, `MCStores`,
`MCDelivery`, `MCPipelines`, `MCObject`. `MCObject` also holds `object_live` and `object_key_clash`, `MCQueue`
holds `queue_truncation`, `MCPayments` holds `money_live` (it also instantiates the wallet) and `MCStores`
holds `replica_live`. A property of a run is often a conjunction: `ChatHolds`, for example, says that `ChatSound` of the
module `Chat` holds in every chat part, and `ChatSound` is the conjunction of that module's named
invariants, each with its own comment. Deadlock is not checked: every model may stop when its bounds
are used up.

### Bounds

All bounds are constants whose comment says "bound". They are chosen so that the cases of the
hazard list occur: two transfers with funds for one, three replicas with a quorum of two, one late
request besides the current one, one or two crashes, an epoch change, a retention floor that
passes one batch, a feed window of one, a daily limit that the fourth order exceeds, two workers
and a lease that lapses; in the delivery and pipeline systems two workers, devices or processes, one to
three faults, a cache or page of one entry, and two values where contents must differ; a clock that
goes back by more than a window. In the object store every part of a run that checks `ReferencedKept`
writes to two nodes at least; the part with bucket deletion has no restart, since a caller whose call fails
leaves the same intents behind as one that stops. Every mutant in `PROJECT.json` is a plausible bug that these bounds are large enough to
expose.

### Fairness

* Wallet: the worker thread calls `step` in a loop (`cli.py`), so its steps are weakly fair, and a
  back-off expires. Nothing is assumed of clients, administrators or late requests.
* Hotel and payment: workers run in a loop and leases expire with time; the provider retries
  callbacks until they are acknowledged. Faults are bounded: with unbounded faults nothing ends.
* Key-value store: the sync thread compares with every peer again and again; a pull may abort when
  the local view changes, so the pull is strongly fair. A stopped node is restarted.
* Stock exchange: engines and market poll in a loop, and a stopped engine is restarted.
* Object store: an operator or a timer invokes maintenance again and again; it wins the guard in
  the end because shared requests have deadlines of 15 seconds and maintenance waits up to 60.

## 5. Proofs

Each theorem holds for every value of the constants that satisfies the assumptions named below. Where
the list says "(run ...)", the theorem states a property that the run checks on a small instance. No
property was inductive as it stands; every inductive invariant was first checked by TLC.

| module | theorem | what it says |
| --- | --- | --- |
| `WalletProofs` | `TypeCorrect`, `Replayability`, `NoOrphanConfirmation`, `Finality`, `Fencing` | types; a pending event can be committed; no step meets a confirmation without a decision; decisions and terminal statuses are kept; a fenced coordinator moves nothing |
| | `Atomicity` | `AllOrNothing` (run `wallet`) |
| | `StepsKept` | `StepsFinal` (run `wallet`) |
| | `MoneyConserved` | balances, holds and money in transit are the supply; holds are what prepared transfers reserve; no balance is negative |
| | `InternallySound` | `NoInternalError` (run `wallet`): no event is refused by its own replay, no request of a step meets a conflict |
| `AuditProofs` | `BooksAgree` | `BooksBalance` (run `wallet`): also, the audit raises no false alarm |
| | `JournalImplements` | `JournalRefines` (run `wallet`): the replicated journal implements `QuorumLog`, what is committed is on a quorum, a fenced replica accepts nothing |
| `QueueProofs` | `MajorityKeepsLogs` | `LogsKept` (run `queue`): a majority stores every committed batch, all but the last once a stage was abandoned or a write torn; no log forks below a checkpoint |
| | `ProducerOrder` | `ExactlyOnceInOrder` (run `queue`) |
| | `JournalGoesFirst` | a journalled batch is committed before any other (a part of `QueueSteps`) |
| | `EachDeliveredOnce` | `DeliveredOnce` (run `queue`) |
| | `CursorSteps` | a cursor goes back only by a reset and advances only over what was served in the same session and generation |
| `HotelSaga` | `StaysAreExact` | `StaysExact` (run `payments`) |
| | `EndsAreFinal` | a stay that ended stays ended, a refund or decline is final (the hotel's part of `OutcomesFinal`) |
| `PaymentReconcile` | `ReviewsAreSound` | `ReviewsSound` (run `payments`) |
| | `OwnerCompletes` | only the live claim completes a run (the reconciliation's part of `OutcomesFinal`) |
| `StoresProofs` | `TypeCorrect`, `NothingObservedIsLost`, `ProjectionsComplete` | types; the active engine covers what was observed; no follower has a gap |
| | `Monotone`, `Kept` | `AnswersNeverGoBack`, `ObservedKept` (run `stores`) |
| | `EngineIsDurable` | `EngineDurable` (run `stores`): what the storage engine acknowledged or showed to a reader is what any later read, or a start after a crash, finds, or something newer |
| | `WritesAreKept` | `WritesKept` (run `stores`): no two writes of a key share a clock, an acknowledged write is covered where it was acknowledged, a substitute's acknowledgement has its hint, and with W + R > N a read that reached primaries returns what was acknowledged before it |
| `ObjectProofs` | `NodeImplements` | `NodeRefines` (run `object`): the data node implements `ChunkStore` |
| | `AcknowledgedIsDurable` | a chunk that was acknowledged would be found by a start at any moment, until it is collected or damaged |
| | `ReferencedChunksKept` | `ReferencedKept` (run `object`): what a live version, a download under way or an unfinished upload needs stays on a write quorum, less the damaged copies, however late a collection is executed |
| | `PublicationsAreSound` | `PublicationsSound` (run `object`) |
| | `StorageTyped` | types of the coordinator, the catalog and the metadata |

### The arguments

* **Wallet.** The invariant ties together the three places where a transfer is recorded: a participant
  that is confirmed or cancelled implies the durable decision behind it, requests in flight ask only
  for what the journal allows, the statuses a step has read are never ahead of the shards, and an
  event that is durable but not committed is one the projection would accept.
* **Money.** On top of it: every account's held balance is the sum of the amounts that are prepared and
  not ended on its shard, and the supply is the sum of the balances plus, for each transfer that one
  side has confirmed, the amount in transit. One execution posts at one account (or at two, for a
  transfer inside a shard), so each sum changes in one element. `InternallySound` needs this: that a
  confirmation never drives a held balance below zero is a fact about sums.
* **Sums.** `SumTheorems` proves what these steps need about `SumFunctionOnSet`: its value on a set with
  one element more or less, on two disjoint sets, after an update, and its sign. The fold is a
  recursive function on subsets; since an induction principle cannot be instantiated, each fact is
  proved by contradiction from a smallest set that violates it. This is why accounts, transactions
  and bookings are assumed to be finite (`FiniteAssumption`; `IsFiniteSet(Bookings)`), which
  every store satisfies.
* **Audit.** The views an audit has read, completed with the current state of the shards it has not,
  form a state in which the wallet could have been: one in which no late request reached a shard
  after it was read. `AuditProofs` instantiates `WalletProofs` a second time with this mixed state in the
  place of the shards and uses the same lemmas for both, so the report is sound although it is no
  snapshot.
* **Journal.** Every replica and every push in flight is a prefix of the authority's log, at most one
  event is not committed, and a quorum holds the committed prefix. A push that a replica accepts
  carries the replica's current epoch and is longer than what it has, so a late push cannot shorten it.
  Each step maps to an append, a commit or a stutter of `QuorumLog`.
* **Partition.** A request carries the history of its time and one batch more, so below its checkpoint
  it agrees with the history of now. A broker's checkpoint never goes back, and its log ends at most
  one batch above it; a request that the broker accepts is therefore as long as the log that it
  replaces. Who acknowledged the running replication has the checkpoint of now; when the batch joins
  the history, this majority is settled below it. Without an abandoned stage or a torn write, all logs
  and requests are parts of the history followed by the journalled batch, hence nothing is ever taken
  away. A producer's sequences in the history are below the count of its batches, and the journalled
  batch carries that count.
* **Consumer groups.** A delivery bound belongs to the session and generation that fetched it, a read of
  a broker that runs keeps the generation it started in, and what was consumed or handed out lies
  below the cursor. A read whose member was replaced in the meantime therefore leaves no bound.
* **Hotel.** One predicate says what a booking, its two jobs, its charge and its two receipts may be
  together (a confirmed stay has a finished, paid charge and no refund job; a finished paid charge
  without refund job means a confirmed stay; a refund job only exists after a paid charge of a stay
  that released its rooms). Requests and callbacks on their way are bound to the claim and to the
  receipt behind them, so a late or repeated one finds what the provider stored. The inventory is a
  sum over the bookings that hold rooms; a sweep releases several at once, which needs the sum over a
  difference of sets.
* **Reconciliation.** The run's row and its job move together, and an outcome never changes once one
  side has it; so a stale statement can miss an outcome but not contradict one.
* **Exchange.** Positions are ordered: an answer in flight is at most what its engine applied, that is
  at most the log, and a promotion requires the candidate to have the whole log. The deltas kept by
  the market are a suffix of its prefix, so a client that passes the gap test receives everything.

* **Storage engine.** For every entry that is on disk, in the log or in a published table, a reader
  finds the entry or a newer one of its key; the exceptions are the entry that is logged and not yet
  inserted, and, once a failed write has fenced the engine, the one whose append failed. A flush publishes its table
  before the log is cut, a compaction its result before the inputs go, and each keeps this covering;
  only the last frame of the log may be torn. So what a recovery reads covers what readers saw.
* **Replicated key.** A merge keeps a version that covers each of its inputs (domination is a strict
  order, and a record is finite), so what a record covers it covers for good. A node counts its own
  writes in its record before anybody else sees them: of every version that is stored, sent, kept as
  a hint or acknowledged, the counter of the node that wrote it is at most the largest one in that
  node's record. The next version exceeds all of these, hence it is new, even if the client's context
  is old or the clock was pruned. Until an owner covers what its substitute took, the hint stays in
  the coordinator's journal: it is there before the substitute is called and goes when the
  owner has merged it. For a read, the invariant keeps the set of primaries that answered; with W + R > N
  it meets the primaries behind any earlier acknowledgement, and what these had is
  covered by what was collected.
* **Data node.** The index of a node that trusts it points at the last record of every chunk in the
  current pack, except for the chunk of the operation between its write and its index update; while a
  compaction switches packs, the new pack keeps the same chunks. What a start would rebuild is thus a
  function of the files alone, and every step adds one chunk to it, removes one or leaves it as it is.
* **Publications.** A version is the one of its key's intent, and an intent is never changed or taken
  back; a thread that sends has made its intent, a frozen upload has all the parts it declared, a
  complete one a closed intent with that content. Who holds the exclusive guard finds every thread idle.
  When maintenance marks, nothing is pending: it has replayed the intents it found, and those made
  since belong to uploads that it resumes before it goes on. A bucket is deleted when nothing is
  pending and no upload is unfinished; a publication that is still late then finds its receipt.
* **Chunks.** A chunk is needed when a live version, a pending intent, an unfinished upload or a request
  past its writes names it. `NeededIsSafe` says that each needed chunk is on a quorum of nodes, less
  the damaged copies, on which it is safe: no late collection, and no sweep under way, that does not
  list the chunk as live was meant for the node's generation of now. A step needs only what was needed
  before, or the chunk that a quorum has just acknowledged. A write changes the generation of its node to one
  that nobody holds, a collection compares generations, so both keep nodes safe. Only the mark could make one
  unsafe, and it lists everything that is needed because of the facts about publications.

### Assumptions

`WalletAssumption`, `FiniteAssumption`, `CoordinatorAssumption`, `OrderAssumption` (the audit reads every shard
once) and `ReplicationAssumption` are ASSUMEs of the component modules. The other modules state theirs as
an operator (`Assumption`, `NodeAssumption`, `ReconcileAssumption`, `PartitionAssumption`, `EngineAssumption`, `ReplicaAssumption`) that the
theorems take as hypothesis and the `MC` modules assert of every instance. They say what the code guarantees anyway: a quorum is at least one replica, limits and
quantities are natural numbers, amounts are positive and go from one account to another, a booking has
nights among the days, sets of rows, brokers, nodes and chunks are finite, the preference order of a key names every node,
W and R are between 1 and N, a declared upload is a sequence of chunks, the
markers for "no batch", "torn frame" and "no intent" are no batch, no entry and no intent.

### What proving changed in the models

Four `CASE` expressions had guards that overlap (`HeldDelta` of the wallet, `Outcome` of the hotel's
ledger, `Parse` of the mail receiver, `Begin` of the notification worker). TLC takes the first guard
that is true; the language allows either. The guards now exclude each other, in the order of the code.
`KVStorage` replayed its log with the community fold over a sequence, whose order of evaluation is a
`CHOOSE`; it is now a recursive function from the first frame to the last, as `recover()` reads them.
`ObjectNode` extended a record with `@@`, which the provers do not know; the record is written out.
`KVReplication` chose its replicas with a filter on a sequence; it now names the k-th node that is left,
by counting the ones before it. That overlapping quorums see each other was stated without W + R > N, on
instances where it holds; the condition is now part of `ReadsSeeAcked`.

### Only model-checked

All liveness properties, since fairness is beyond the prover; the parts of `OutcomesFinal` about
payments; `PaymentsExact`, whose refunds also need sums over operations; the invariants of
`KVMembership`, `StockMatching`, `HashRing`, `RateLimiter` and of the delivery
and pipeline systems. For `StockMatching`, `RateLimiter`, `HashRing` and `AdClicks` the properties compare what a
loop computes with a reference definition, which is induction over data and out of reach.

## 6. Abstractions

* Wallet: hashes are prefixes of the log. Late requests are a set, so they arrive in any order and
  more than once.
* Queue: segments, frames and CRCs are a log whose hashes are prefixes. Time-outs are lost answers.
* Hotel: days are a set; prices, calendars and public pages are left out.
* Payment: the token of a lease is the worker's identity. Due times and leases are not measured:
  they may lapse at any moment. Receipts that contradict the frozen operation are left out.
* Key-value store: one key; liveness beliefs are arbitrary per operation, which covers gossip; a
  replica call that arrives late is covered by a later repair merge; failures of the SQLite hint
  journal are left out; the memtable may be full at any write; a tombstone is a value.
* Stock exchange: one symbol; the heap is a set whose minimum is taken, stale entries included; a
  position stands for its hash; order identifiers are numbered by first use.
* Object store: one key of one bucket; a chunk is written to all nodes in one step that may fail on
  some; a fresh generation is one that nobody holds; the grace period is nondeterministic; listing is left
  out; packs are numbered.
* Chat: one channel. Leaderboard: a tick of the clock is a month. Notification: one recipient on one
  channel. News feed: posts are numbered by time. Email: a delivery is its stable id. File sync: one
  edited path, blocks are digests, the scan of the folder is a comparison. Video: transcoding is a
  step with an outcome. Metrics: a sample's value is a small number, what a rule reads is a level.
* Ad clicks: time counts minutes. Profiles: a checksum is the record. Crawler: a page is its print and
  links. Links: the checksum of a URL is a table with collisions. Ids: bit fields of one or two bits.
* Rate limiter: times are whole seconds and tokens are kept in units of 1/window, so that no rounding
  is hidden; Redis and the in-memory backend differ in their expiry clock and failures.
* Membership: a heartbeat is bounded; an address is the number of the start that bound it.
* HTTP framing, authentication, deadlines and process start are left out everywhere. What callers see of
  them is kept: an answer, an error, or a request that executes after its caller gave up.

## 7. Where code and documents disagree

* `queue_truncation`: an abandoned transaction stage leaves the leader epoch as it is. A sync of
  that stage which executes late passes the epoch and checkpoint tests of `log.py` and truncates a
  batch committed at the same offset. `docs/design.md:123` says provisional suffixes are repaired
  before reuse. The run `queue` shows what still holds: at most the last committed batch is at risk
  (`SettledOnMajority`, part of `LogsKept`).
* `object_key_clash`: `Service.complete` freezes an upload before it compares its idempotency key.
  If a PUT of other content used the key, the upload can neither complete nor be aborted, and
  maintenance stops at it each time. `MaintenanceSettles` shows that completions are resumed where the
  keys differ.
* Met while modelling, not kept as runs:
  * wallet `docs/design.md:65` says only participant failures park a transfer;
    `coordinator.py:236` counts failed journal appends too;
  * key-value store `docs/requirements.md:37` promises siblings for concurrent writes; through one
    coordinator the second write dominates the first (`replication/service.py:148`);
  * payment `README.md:139` says completed reconciliation results are preserved; `jobs.py:75`
    overwrites the run when its job dies of a failed report.
  * scale-from-zero: after a crash between the commit of the store and that of the fence, a retried
    request id is answered from the stored result (`profiles.py`) without publishing the cursor, so a
    replica that lacks the change may later be promoted; `PublishedKept` therefore speaks of changes
    whose update published them;
  * rate-limiter: a denial of the sliding window counter names the next window boundary, where a full
    previous window still denies; `RetryHelps` leaves this algorithm out. Rules set through
    `update_rules` are not replaced by a poll of an unchanged file;
  * key-value store `docs/requirements.md` (FR-6.5) says that failure detection propagates through
    gossip; `merge_membership` ignores the status a peer reports, and every node detects failures by
    its own timeouts. The unused in-memory coordinator calls `store_hint` with other arguments than
    `HintedHandoffManager` takes;
  * url-shortener: the counter strategy starts again at 1 in every process; its conflicts are refused
    and nothing is overwritten (`NoFalseRefusal`).

## 8. Not modelled

* maps-system, proximity-service, search-autocomplete-system: geometry, routing over tiles, geohash and
  trie arithmetic, with one writer that publishes a finished artifact by a rename. nearby-friends: its
  snapshot recovery around a publish/subscribe gap is the one concurrent part worth a model.
* capacity-estimation: a stateless calculator.
* Queue producer client, object listings, hotel catalog, the Merkle tree's shape, the key-value client:
  no state of their own that the modelled parts do not have, or pure reads.
* Restarts of Snowflake generators: nothing is persisted, and the README leaves them to the deployment.
* Transport, framing, HTTP handlers, command lines: section 6.
