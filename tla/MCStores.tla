------------------------------ MODULE MCStores ------------------------------
(***************************************************************************)
(* The stock exchange, the key-value store with its membership, the hash   *)
(* ring and the rate limiter. A behaviour exercises one part; the other    *)
(* components stay in their initial state or are not used in it:           *)
(*   failover     exchange: replication of the sequenced commands,         *)
(*                promotion, one client of the gateway                     *)
(*   restart      the same with a shorter log and a stopped replica        *)
(*   matching     exchange: the deterministic matching that every replica  *)
(*                applies, two owners, four orders, two prices             *)
(*   writes       key-value store, three nodes of which two are the        *)
(*                owners: writes through an owner and a non-owner, pruned  *)
(*                clocks, hinted handoff, two faults                       *)
(*   reads        two owners only: writes through both beside a quorum     *)
(*                read, one fault                                          *)
(*   engine       the storage engine of one node with two keys             *)
(*   restarts     membership: two nodes, crashes, stops and new addresses  *)
(*   silent       membership: lost calls, suspicion and recovery           *)
(*   discovery    membership: three nodes that meet through a seed         *)
(*   handoff      membership: two deliverers of hints that keep arriving   *)
(*   topology     ring: two writers, colliding positions, snapshots and    *)
(*                plans                                                    *)
(*   buckets      limiter: a token and a leaking bucket, the clock set     *)
(*                back                                                     *)
(*   log_windows  limiter: a fixed window and a log, the clock set back    *)
(*                and forward                                              *)
(*   counters     limiter: a sliding counter for all requests, a bucket    *)
(*                for a decorated function                                 *)
(*   pressure     limiter: a full memory backend that fails open           *)
(*   remote       limiter: Redis with lost calls and answers, failing      *)
(*                closed                                                   *)
(*   reloading    limiter: rules replaced while requests are checked       *)
(*   pacing       limiter: the paced queue, cancelled and closed           *)
(***************************************************************************)
EXTENDS StockReplication, KVStorage, KVReplication, TLC

CONSTANTS alice, bob, n1, n2, n3, k1, k2, h1, h2

VARIABLES part, state, clock,
  memberState, address, table, memberRing, round, rpc, now, memberHints, delivery, received,
  memberStarts, memberCalls, memberFaults, peak, met, stored,
  hashRing, write, view, weight, last, hashWrites, hashReads,
  store, mono, offset, rules, file, digest, client, metrics, fifo, future, worker, stop, owner, granted,
  charged, answer, limitStarts, order, ahead, limitCalls, reloads, limitFaults

mvars == <<state, clock>>
memberVars == <<memberState, address, table, memberRing, round, rpc, now, memberHints, delivery,
                 received, memberStarts, memberCalls, memberFaults, peak, met, stored>>
hashVars == <<hashRing, write, view, weight, last, hashWrites, hashReads>>
limitVars == <<store, mono, offset, rules, file, digest, client, metrics, fifo, future, worker, stop,
                owner, granted, charged, answer, limitStarts, order, ahead, limitCalls, reloads,
                limitFaults>>

\* The preference list of the key.
Preference == <<n1, n2, n3>>
\* Rules of the rate limiter.
Rule(a, n, w, c) == [algorithm |-> a, limit |-> n, window |-> w, capacity |-> c]

Failover == INSTANCE StockReplication WITH MaxCrashes <- 0
Restarted == INSTANCE StockReplication WITH MaxLog <- 2
Matching == INSTANCE StockMatching WITH
  Owners <- {alice, bob}, OrderIds <- 1..4,
  Prices <- {1, 2}, Quantities <- {1, 2}, Cash <- 3, Shares <- 2, DailyLimit <- 4,
  MaxCommands <- 5, MaxDays <- 2
Reads == INSTANCE KVReplication WITH
  Nodes <- {n1, n2}, Order <- <<n1, n2>>, Coordinators <- {n1, n2}, MaxEntries <- 2, MaxReads <- 1,
  MaxOutages <- 1
Restarts == INSTANCE KVMembership WITH
  Nodes <- {n1, n2}, Seeds <- (n1 :> {}) @@ (n2 :> {n1}), Fixed <- {n1}, Fanout <- 1, Timeout <- 1,
  Keeper <- n1, Deliverers <- {}, Loop <- h1, MaxBeat <- 2, MaxCalls <- 3, MaxTime <- 0, MaxStarts <- 3,
  MaxFaults <- 0, MaxHints <- 0, state <- memberState, ring <- memberRing, hints <- memberHints,
  starts <- memberStarts, calls <- memberCalls, faults <- memberFaults
Silent == INSTANCE KVMembership WITH
  Nodes <- {n1, n2}, Seeds <- (n1 :> {}) @@ (n2 :> {n1}), Fixed <- {n1}, Fanout <- 1, Timeout <- 1,
  Keeper <- n1, Deliverers <- {}, Loop <- h1, MaxBeat <- 2, MaxCalls <- 2, MaxTime <- 3, MaxStarts <- 2,
  MaxFaults <- 1, MaxHints <- 0, state <- memberState, ring <- memberRing, hints <- memberHints,
  starts <- memberStarts, calls <- memberCalls, faults <- memberFaults
Discovery == INSTANCE KVMembership WITH
  Nodes <- {n1, n2, n3}, Seeds <- (n1 :> {}) @@ (n2 :> {n1}) @@ (n3 :> {n1}), Fixed <- {n1},
  Fanout <- 1, Timeout <- 1, Keeper <- n1, Deliverers <- {}, Loop <- h1, MaxBeat <- 1, MaxCalls <- 3,
  MaxTime <- 0, MaxStarts <- 3, MaxFaults <- 0, MaxHints <- 0, state <- memberState, ring <- memberRing,
  hints <- memberHints, starts <- memberStarts, calls <- memberCalls, faults <- memberFaults
Handoff == INSTANCE KVMembership WITH
  Nodes <- {n1, n2}, Seeds <- (n1 :> {n2}) @@ (n2 :> {}), Fixed <- {n2}, Fanout <- 1, Timeout <- 1,
  Keeper <- n1, Deliverers <- {h1, h2}, Loop <- h1, MaxBeat <- 0, MaxCalls <- 1, MaxTime <- 0,
  MaxStarts <- 3, MaxFaults <- 2, MaxHints <- 3, state <- memberState, ring <- memberRing,
  hints <- memberHints, starts <- memberStarts, calls <- memberCalls, faults <- memberFaults
Topology == INSTANCE HashRing WITH
  Names <- 1..3, PositionOf <- <<<<1, 4>>, <<4, 6>>, <<3>>>>, KeyPositions <- 0..7, Capacity <- 4,
  Writers <- {h1, h2}, Readers <- {n1}, MaxWrites <- 4, MaxReads <- 2, ring <- hashRing,
  writes <- hashWrites, reads <- hashReads
Buckets == INSTANCE RateLimiter WITH
  Memory <- TRUE, FailOpen <- TRUE, MaxKeys <- 9, Subjects <- {1}, RuleSets <- {},
  First <- <<Rule("token_bucket", 2, 3, 1), Rule("leaking_bucket", 1, 2, 2)>>, Decorated <- {},
  Clients <- {1}, Jumps <- {-2}, Tasks <- {}, Interval <- 1, Capacity <- 1, MaxCalls <- 4, MaxTime <- 4,
  MaxFaults <- 1, MaxReloads <- 0, starts <- limitStarts, calls <- limitCalls, faults <- limitFaults
LogWindows == INSTANCE RateLimiter WITH
  Memory <- TRUE, FailOpen <- TRUE, MaxKeys <- 9, Subjects <- {1}, RuleSets <- {},
  First <- <<Rule("fixed_window", 2, 2, 0), Rule("sliding_window_log", 2, 3, 0)>>, Decorated <- {},
  Clients <- {1}, Jumps <- {-3, 2}, Tasks <- {}, Interval <- 1, Capacity <- 1, MaxCalls <- 4,
  MaxTime <- 4, MaxFaults <- 1, MaxReloads <- 0, starts <- limitStarts, calls <- limitCalls,
  faults <- limitFaults
Counters == INSTANCE RateLimiter WITH
  Memory <- TRUE, FailOpen <- TRUE, MaxKeys <- 9, Subjects <- {1}, RuleSets <- {},
  First <- <<Rule("sliding_window_counter", 2, 2, 0)>>, Decorated <- {Rule("token_bucket", 2, 3, 0)},
  Clients <- {1}, Jumps <- {-2}, Tasks <- {}, Interval <- 1, Capacity <- 1, MaxCalls <- 4, MaxTime <- 5,
  MaxFaults <- 1, MaxReloads <- 0, starts <- limitStarts, calls <- limitCalls, faults <- limitFaults
Pressure == INSTANCE RateLimiter WITH
  Memory <- TRUE, FailOpen <- TRUE, MaxKeys <- 4, Subjects <- {1, 2}, RuleSets <- {},
  First <- <<Rule("fixed_window", 2, 2, 0), Rule("token_bucket", 2, 3, 1)>>, Decorated <- {},
  Clients <- {1}, Jumps <- {-1}, Tasks <- {}, Interval <- 1, Capacity <- 1, MaxCalls <- 3, MaxTime <- 4,
  MaxFaults <- 1, MaxReloads <- 0, starts <- limitStarts, calls <- limitCalls, faults <- limitFaults
Remote == INSTANCE RateLimiter WITH
  Memory <- FALSE, FailOpen <- FALSE, MaxKeys <- 9, Subjects <- {1}, RuleSets <- {},
  First <- <<Rule("token_bucket", 2, 3, 1), Rule("sliding_window_log", 2, 3, 0)>>, Decorated <- {},
  Clients <- {1, 2}, Jumps <- {}, Tasks <- {}, Interval <- 1, Capacity <- 1, MaxCalls <- 3,
  MaxTime <- 2, MaxFaults <- 1, MaxReloads <- 0, starts <- limitStarts, calls <- limitCalls,
  faults <- limitFaults
Reloading == INSTANCE RateLimiter WITH
  Memory <- TRUE, FailOpen <- TRUE, MaxKeys <- 9, Subjects <- {1},
  RuleSets <- {<<Rule("fixed_window", 2, 2, 0), Rule("leaking_bucket", 1, 2, 2)>>, <<Rule("leaking_bucket", 1, 2, 2), Rule("fixed_window", 2, 2, 0), Rule("leaking_bucket", 1, 2, 2)>>},
  First <- <<Rule("fixed_window", 2, 2, 0)>>, Decorated <- {}, Clients <- {1, 2}, Jumps <- {},
  Tasks <- {}, Interval <- 1, Capacity <- 1, MaxCalls <- 2, MaxTime <- 1, MaxFaults <- 0,
  MaxReloads <- 2, starts <- limitStarts, calls <- limitCalls, faults <- limitFaults
Pacing == INSTANCE RateLimiter WITH
  Memory <- TRUE, FailOpen <- TRUE, MaxKeys <- 9, Subjects <- {1}, RuleSets <- {}, First <- <<>>,
  Decorated <- {}, Clients <- {1, 2}, Jumps <- {}, Tasks <- 1..3, Interval <- 2, Capacity <- 2,
  MaxCalls <- 0, MaxTime <- 5, MaxFaults <- 0, MaxReloads <- 0, starts <- limitStarts,
  calls <- limitCalls, faults <- limitFaults

ASSUME StoresAssumption ==
  /\ Matching!Assumption /\ ReplicaAssumption /\ Reads!ReplicaAssumption /\ EngineAssumption
  /\ Restarts!Assumption /\ Silent!Assumption /\ Discovery!Assumption /\ Handoff!Assumption
  /\ Topology!Assumption /\ Buckets!Assumption /\ LogWindows!Assumption /\ Counters!Assumption
  /\ Pressure!Assumption /\ Remote!Assumption /\ Reloading!Assumption /\ Pacing!Assumption

\* The variables of the systems a behaviour does not exercise.
NoMember ==
  /\ memberState = 0 /\ address = 0 /\ table = 0 /\ memberRing = 0 /\ round = 0 /\ rpc = 0
  /\ now = 0 /\ memberHints = 0 /\ delivery = 0 /\ received = 0 /\ memberStarts = 0
  /\ memberCalls = 0 /\ memberFaults = 0 /\ peak = 0 /\ met = 0 /\ stored = 0
NoHash ==
  /\ hashRing = 0 /\ write = 0 /\ view = 0 /\ weight = 0 /\ last = 0 /\ hashWrites = 0
  /\ hashReads = 0
NoLimit ==
  /\ store = 0 /\ mono = 0 /\ offset = 0 /\ rules = 0 /\ file = 0 /\ digest = 0 /\ client = 0
  /\ metrics = 0 /\ fifo = 0 /\ future = 0 /\ worker = 0 /\ stop = 0 /\ owner = 0 /\ granted = 0
  /\ charged = 0 /\ answer = 0 /\ limitStarts = 0 /\ order = 0 /\ ahead = 0 /\ limitCalls = 0
  /\ reloads = 0 /\ limitFaults = 0

MCInit ==
  /\ Init /\ Matching!Init /\ EngineInit
  /\ \/ part \in {"failover", "restart", "matching", "writes", "engine"} /\ KVInit /\ NoMember /\ NoHash /\ NoLimit
     \/ part = "reads" /\ Reads!KVInit /\ NoMember /\ NoHash /\ NoLimit
     \/ /\ KVInit /\ NoHash /\ NoLimit
        /\ \/ part = "restarts" /\ Restarts!Init
           \/ part = "silent" /\ Silent!Init
           \/ part = "discovery" /\ Discovery!Init
           \/ part = "handoff" /\ Handoff!Init
     \/ /\ KVInit /\ NoMember /\ NoLimit
        /\ \/ part = "topology" /\ Topology!Init
     \/ /\ KVInit /\ NoMember /\ NoHash
        /\ \/ part = "buckets" /\ Buckets!Init
           \/ part = "log_windows" /\ LogWindows!Init
           \/ part = "counters" /\ Counters!Init
           \/ part = "pressure" /\ Pressure!Init
           \/ part = "remote" /\ Remote!Init
           \/ part = "reloading" /\ Reloading!Init
           \/ part = "pacing" /\ Pacing!Init
MCNext ==
  \/ part = "failover" /\ Failover!Next /\ UNCHANGED <<mvars, kvVars, engineVars, memberVars, hashVars, limitVars, part>>
  \/ part = "restart" /\ Restarted!Next /\ UNCHANGED <<mvars, kvVars, engineVars, memberVars, hashVars, limitVars, part>>
  \/ part = "matching" /\ Matching!Next /\ UNCHANGED <<vars, kvVars, engineVars, memberVars, hashVars, limitVars, part>>
  \/ part = "writes" /\ KVNext /\ UNCHANGED <<vars, mvars, engineVars, memberVars, hashVars, limitVars, part>>
  \/ part = "reads" /\ Reads!KVNext /\ UNCHANGED <<vars, mvars, engineVars, memberVars, hashVars, limitVars, part>>
  \/ part = "engine" /\ EngineNext /\ UNCHANGED <<vars, mvars, kvVars, memberVars, hashVars, limitVars, part>>
  \/ part = "restarts" /\ Restarts!Next /\ UNCHANGED <<vars, mvars, kvVars, engineVars, hashVars, limitVars, part>>
  \/ part = "silent" /\ Silent!Next /\ UNCHANGED <<vars, mvars, kvVars, engineVars, hashVars, limitVars, part>>
  \/ part = "discovery" /\ Discovery!Next /\ UNCHANGED <<vars, mvars, kvVars, engineVars, hashVars, limitVars, part>>
  \/ part = "handoff" /\ Handoff!Next /\ UNCHANGED <<vars, mvars, kvVars, engineVars, hashVars, limitVars, part>>
  \/ part = "topology" /\ Topology!Next /\ UNCHANGED <<vars, mvars, kvVars, engineVars, memberVars, limitVars, part>>
  \/ part = "buckets" /\ Buckets!Next /\ UNCHANGED <<vars, mvars, kvVars, engineVars, memberVars, hashVars, part>>
  \/ part = "log_windows" /\ LogWindows!Next /\ UNCHANGED <<vars, mvars, kvVars, engineVars, memberVars, hashVars, part>>
  \/ part = "counters" /\ Counters!Next /\ UNCHANGED <<vars, mvars, kvVars, engineVars, memberVars, hashVars, part>>
  \/ part = "pressure" /\ Pressure!Next /\ UNCHANGED <<vars, mvars, kvVars, engineVars, memberVars, hashVars, part>>
  \/ part = "remote" /\ Remote!Next /\ UNCHANGED <<vars, mvars, kvVars, engineVars, memberVars, hashVars, part>>
  \/ part = "reloading" /\ Reloading!Next /\ UNCHANGED <<vars, mvars, kvVars, engineVars, memberVars, hashVars, part>>
  \/ part = "pacing" /\ Pacing!Next /\ UNCHANGED <<vars, mvars, kvVars, engineVars, memberVars, hashVars, part>>
MCSpec == MCInit /\ [][MCNext]_<<vars, mvars, kvVars, engineVars, memberVars, hashVars, limitVars, part>>

Symmetry == Permutations({alice, bob})

(***************************************************************************)
(* What must eventually happen in the two replicated systems.  The part    *)
(* that a behaviour does not exercise is owed no fairness:                 *)
(*   repair   two concurrent writes of the key-value store, Merkle repair  *)
(*   publish  the stock exchange with a promotion and a restart            *)
(***************************************************************************)
Repair == INSTANCE KVReplication WITH
  Nodes <- {n1, n2}, Order <- <<n1, n2>>, Coordinators <- {n1, n2}, Repairing <- TRUE, MaxEntries <- 2,
  MaxOutages <- 1
Publish == INSTANCE StockReplication WITH Clients <- {}

LiveInit ==
  /\ part \in {"repair", "publish"} /\ Repair!KVInit /\ Publish!Init
  /\ Matching!Init /\ EngineInit /\ NoMember /\ NoHash /\ NoLimit
LiveNext ==
  \/ part = "repair" /\ Repair!KVNext /\ UNCHANGED <<vars, mvars, engineVars, memberVars, hashVars, limitVars, part>>
  \/ part = "publish" /\ Publish!Next /\ UNCHANGED <<mvars, kvVars, engineVars, memberVars, hashVars, limitVars, part>>

\* The fairness of KVReplication and of StockReplication.
RepairFairness ==
  /\ WF_kvVars(part = "repair" /\ \E t \in tasks : Repair!SaveHint(t) \/ Repair!Replicate(t))
  /\ WF_kvVars(part = "repair" /\ \E n \in {n1, n2} : Repair!Restart(n))
  /\ \A n \in {n1, n2} : WF_kvVars(part = "repair" /\ Repair!SyncPush(n))
  /\ SF_kvVars(part = "repair" /\ \E n, peer \in {n1, n2} : Repair!SyncPull(n, peer))
PublishFairness ==
  /\ \A e \in Engines : /\ WF_vars(part = "publish" /\ Publish!EngineApply(e))
                        /\ WF_vars(part = "publish" /\ Publish!EngineRestart(e))
  /\ WF_vars(part = "publish" /\ Publish!ReaderStep("market"))
  /\ WF_vars(part = "publish" /\ Publish!MarketStep)

LiveSpec ==
  /\ LiveInit /\ [][LiveNext]_<<vars, mvars, kvVars, engineVars, memberVars, hashVars, limitVars, part>>
  /\ RepairFairness /\ PublishFairness

-----------------------------------------------------------------------------

\* StockMatching: types, and: levels, links and heap of the book are the open
\* orders, no open bid reaches an open ask, reservations are what the open orders
\* need, and balances are the opening balances and the trades (order_book.py,
\* matching.py).
BookSound ==
  /\ TypeOK
  /\ part = "matching" =>
       /\ Matching!TypeOK /\ Matching!IndexMatchesOrders /\ Matching!NeverCrossed
       /\ Matching!HoldsMatchOrders /\ Matching!BalancesMatchTrades
\* No open order had priority over the maker of a trade (order_book.py).
PriceTimePriority == Matching!PriceTimePriority
\* Rate limiter: no stretch of time sees more requests pass than the algorithm
\* promises, a denied request passes after the delay it was told, and paced tasks
\* run in order and all end (storage/memory.py, core.py, queue.py).
LimitsHold ==
  /\ part = "buckets" => Buckets!RateLimiterSound
  /\ part = "log_windows" => LogWindows!RateLimiterSound
  /\ part = "counters" => Counters!RateLimiterSound
  /\ part = "pressure" => Pressure!RateLimiterSound
  /\ part = "remote" => Remote!RateLimiterSound
  /\ part = "reloading" => Reloading!RateLimiterSound
  /\ part = "pacing" => Pacing!RateLimiterSound

\* All replicas of a key end with the same siblings, in typed states (cluster/anti_entropy.py),
\* and everything the sequencer accepted is published (market.py).
ReplicasCatchUp ==
  /\ Repair!Converges /\ [](part = "repair" => Repair!KVTypeOK)
  /\ \A n \in 1..MaxLog : part = "publish" /\ tail >= n ~> market.seq >= n
=============================================================================
