----------------------------- MODULE MCDelivery -----------------------------
(***************************************************************************)
(* The systems that deliver messages, links and identifiers to users. A    *)
(* behaviour exercises one part; the variables of the other systems are    *)
(* not used in it:                                                         *)
(*   moves          chat: a device moves between nodes while it sends      *)
(*   lost_calls     chat: a lost answer and a retry under the same key     *)
(*   hints          chat: hints to a session by two instances of a node,   *)
(*                  a restart                                              *)
(*   rehint         chat: the same with a second login                     *)
(*   inbox          chat: pages of the inbox and acknowledgements          *)
(*   push           chat: two push workers and one push                    *)
(*   seasons        leaderboard: matches of three months and the           *)
(*                  settlement of seasons                                  *)
(*   resets         leaderboard: a reset and a late command around a       *)
(*                  query                                                  *)
(*   failover       leaderboard: a failover and a late command around a    *)
(*                  query                                                  *)
(*   reconciling    leaderboard: all of these around a reconciliation      *)
(*   ranks          leaderboard: queries over two projected shards         *)
(*   renaming       leaderboard: a player changes the name                 *)
(*   admit          notification: two processes admit one event            *)
(*   deliver        notification: two workers, two endpoints, a retry, a   *)
(*                  fault                                                  *)
(*   opt_out        notification: the user opts out while it is delivered  *)
(*   quota          notification: two callers at the limits of quota and   *)
(*                  queue                                                  *)
(*   fanout         news feed: a post, an unfollow, a read and a fault     *)
(*   displaced      news feed: two workers, feeds of one entry             *)
(*   celebrity      news feed: pushed and pulled posts in one page         *)
(*   pages          news feed: repaired and warm pages between posts       *)
(*   send           email: two sends, two senders, a spam message, two     *)
(*                  faults                                                 *)
(*   receive        email: two receivers, a message to two users, three    *)
(*                  faults                                                 *)
(*   follow         email: the search replica and a change feed            *)
(*   unreadable     email: a message that cannot be parsed                 *)
(*   first_page     email: a cached first page between updates             *)
(*   database       links: two processes, ids of the database, rollbacks   *)
(*                  and crashes                                            *)
(*   colliding      links: colliding hash codes beside a counter that      *)
(*                  restarts                                               *)
(*   sharing_links  links: two instances and caches over one storage in    *)
(*                  memory                                                 *)
(*   drift          ids: two threads, batches, a wall clock set back and   *)
(*                  forward                                                *)
(*   fleet          ids: two machines, one with a monotonic clock          *)
(***************************************************************************)
EXTENDS Integers, TLC

CONSTANTS
  al, bo, d1, d2, i1, i2, i3, k1, k2, m1, m2, p1, p2, c1, c2, r1, r2, s1, s2, w1, w2, t1, t2, g1, g2, x,
  y, ev

VARIABLES part,
  members, joined, chatLog, lease, record, saved, admitted, chatFaults, proc, client, logins, chatCalls,
  push, chatWorker,
  clock, player, revision, season, score, match, boardFeed, redis, standby, epochs, poller, late,
  boardReader, boardCache, boardWriter, used,
  noteIssued, request, job, events, final, attempts, claims, caller, noteWorker, tracker, window,
  recent, optedIn, delivered, noteFaults, flips,
  feedIssued, post, follows, mutes, feedCache, loads, mutation, queue, dead, feeds, notified, disp,
  feedWorker, feedReader, coverage, pushed, shown, changes, feedFaults, reads,
  mails, mailLog, receipts, outbox, spool, scanner, mailCall, sender, receiver, replica, mailFeed, poll,
  lister, mailCache, acked, sends, updates, mailFaults,
  rows, linkSequence, linkWriter, counter, linkCache, clicks, task, answered, followed, lost, refused,
  linkCalls, linkFaults,
  wall, mono, last, snowSequence, snowCall, made, given, failed, jumps, snowCalls

chatVars == <<members, joined, chatLog, lease, record, saved, admitted, chatFaults, proc, client,
               logins, chatCalls, push, chatWorker>>
boardVars == <<clock, player, revision, season, score, match, boardFeed, redis, standby, epochs,
                poller, late, boardReader, boardCache, boardWriter, used>>
noteVars == <<noteIssued, request, job, events, final, attempts, claims, caller, noteWorker, tracker,
               window, recent, optedIn, delivered, noteFaults, flips>>
feedVars == <<feedIssued, post, follows, mutes, feedCache, loads, mutation, queue, dead, feeds,
               notified, disp, feedWorker, feedReader, coverage, pushed, shown, changes, feedFaults,
               reads>>
mailVars == <<mails, mailLog, receipts, outbox, spool, scanner, mailCall, sender, receiver, replica,
               mailFeed, poll, lister, mailCache, acked, sends, updates, mailFaults>>
linkVars == <<rows, linkSequence, linkWriter, counter, linkCache, clicks, task, answered, followed,
               lost, refused, linkCalls, linkFaults>>
snowVars == <<wall, mono, last, snowSequence, snowCall, made, given, failed, jumps, snowCalls>>

Moves == INSTANCE Chat WITH
  Users <- {al, bo}, Owner <- al, Devices <- {d1}, UserOf <- [d \in {d1} |-> IF d = d2 THEN bo ELSE al],
  Senders <- {d1}, Readers <- {}, Instances <- {i1, i3},
  NodeOf <- [i \in {i1, i3} |-> IF i = i3 THEN 2 ELSE 1], Consumers <- {}, Keys <- {k1, k2},
  Contents <- {x}, Capacity <- 1, QueueSize <- 2, BatchSize <- 1, PageSize <- 1, Workers <- {},
  MaxAttempts <- 2, MaxMessages <- 2, MaxLogins <- 2, MaxFaults <- 0, log <- chatLog,
  faults <- chatFaults, calls <- chatCalls, worker <- chatWorker
LostCalls == INSTANCE Chat WITH
  Users <- {al, bo}, Owner <- al, Devices <- {d1}, UserOf <- [d \in {d1} |-> IF d = d2 THEN bo ELSE al],
  Senders <- {d1}, Readers <- {}, Instances <- {i1, i3},
  NodeOf <- [i \in {i1, i3} |-> IF i = i3 THEN 2 ELSE 1], Consumers <- {}, Keys <- {k1},
  Contents <- {x}, Capacity <- 2, QueueSize <- 2, BatchSize <- 1, PageSize <- 1, Workers <- {},
  MaxAttempts <- 2, MaxMessages <- 2, MaxLogins <- 2, MaxFaults <- 1, log <- chatLog,
  faults <- chatFaults, calls <- chatCalls, worker <- chatWorker
Hints == INSTANCE Chat WITH
  Users <- {al}, Owner <- al, Devices <- {d1}, UserOf <- [d \in {d1} |-> IF d = d2 THEN bo ELSE al],
  Senders <- {d1}, Readers <- {}, Instances <- {i1, i2},
  NodeOf <- [i \in {i1, i2} |-> IF i = i3 THEN 2 ELSE 1], Consumers <- {i1, i2}, Keys <- {k1, k2},
  Contents <- {x}, Capacity <- 2, QueueSize <- 1, BatchSize <- 2, PageSize <- 1, Workers <- {},
  MaxAttempts <- 2, MaxMessages <- 2, MaxLogins <- 1, MaxFaults <- 1, log <- chatLog,
  faults <- chatFaults, calls <- chatCalls, worker <- chatWorker
Rehint == INSTANCE Chat WITH
  Users <- {al}, Owner <- al, Devices <- {d1}, UserOf <- [d \in {d1} |-> IF d = d2 THEN bo ELSE al],
  Senders <- {d1}, Readers <- {}, Instances <- {i1, i2},
  NodeOf <- [i \in {i1, i2} |-> IF i = i3 THEN 2 ELSE 1], Consumers <- {i1, i2}, Keys <- {k1},
  Contents <- {x}, Capacity <- 2, QueueSize <- 1, BatchSize <- 2, PageSize <- 1, Workers <- {},
  MaxAttempts <- 2, MaxMessages <- 1, MaxLogins <- 2, MaxFaults <- 1, log <- chatLog,
  faults <- chatFaults, calls <- chatCalls, worker <- chatWorker
Inbox == INSTANCE Chat WITH
  Users <- {al}, Owner <- al, Devices <- {d1}, UserOf <- [d \in {d1} |-> IF d = d2 THEN bo ELSE al],
  Senders <- {d1}, Readers <- {d1}, Instances <- {i1},
  NodeOf <- [i \in {i1} |-> IF i = i3 THEN 2 ELSE 1], Consumers <- {}, Keys <- {k1, k2},
  Contents <- {x}, Capacity <- 2, QueueSize <- 1, BatchSize <- 2, PageSize <- 1, Workers <- {},
  MaxAttempts <- 2, MaxMessages <- 2, MaxLogins <- 2, MaxFaults <- 0, log <- chatLog,
  faults <- chatFaults, calls <- chatCalls, worker <- chatWorker
Push == INSTANCE Chat WITH
  Users <- {al, bo}, Owner <- al, Devices <- {d1, d2},
  UserOf <- [d \in {d1, d2} |-> IF d = d2 THEN bo ELSE al], Senders <- {d1}, Readers <- {},
  Instances <- {i1}, NodeOf <- [i \in {i1} |-> IF i = i3 THEN 2 ELSE 1], Consumers <- {}, Keys <- {k1},
  Contents <- {x}, Capacity <- 2, QueueSize <- 2, BatchSize <- 1, PageSize <- 1, Workers <- {w1, w2},
  MaxAttempts <- 2, MaxMessages <- 1, MaxLogins <- 1, MaxFaults <- 1, log <- chatLog,
  faults <- chatFaults, calls <- chatCalls, worker <- chatWorker
Seasons == INSTANCE Leaderboard WITH
  Users <- {1, 2, 3}, Shards <- {0, 1}, Polling <- {},
  ShardOf <- [u \in {1, 2, 3} |-> IF u = 2 /\ 1 \in {0, 1} THEN 1 ELSE 0], Names <- {x},
  Matches <- {m1, m2}, Readers <- {r1}, Limit <- 2, Radius <- 1, PageSize <- 2, Grace <- 1,
  MaxScore <- 2, Kinds <- {"top"}, MaxTime <- 2, MaxRevision <- 3, MaxQueries <- 0, MaxResets <- 0,
  MaxFailovers <- 0, MaxLate <- 0, feed <- boardFeed, reader <- boardReader, cache <- boardCache,
  writer <- boardWriter
Resets == INSTANCE Leaderboard WITH
  Users <- {1, 2}, Shards <- {0}, Polling <- {0},
  ShardOf <- [u \in {1, 2} |-> IF u = 2 /\ 1 \in {0} THEN 1 ELSE 0], Names <- {x}, Matches <- {m1},
  Readers <- {r1}, Limit <- 2, Radius <- 1, PageSize <- 2, Grace <- 1, MaxScore <- 2, Kinds <- {"user"},
  MaxTime <- 0, MaxRevision <- 2, MaxQueries <- 1, MaxResets <- 1, MaxFailovers <- 0, MaxLate <- 1,
  feed <- boardFeed, reader <- boardReader, cache <- boardCache, writer <- boardWriter
Failover == INSTANCE Leaderboard WITH
  Users <- {1, 2}, Shards <- {0}, Polling <- {0},
  ShardOf <- [u \in {1, 2} |-> IF u = 2 /\ 1 \in {0} THEN 1 ELSE 0], Names <- {x}, Matches <- {m1},
  Readers <- {r1}, Limit <- 2, Radius <- 1, PageSize <- 2, Grace <- 1, MaxScore <- 2, Kinds <- {"user"},
  MaxTime <- 0, MaxRevision <- 2, MaxQueries <- 1, MaxResets <- 0, MaxFailovers <- 1, MaxLate <- 1,
  feed <- boardFeed, reader <- boardReader, cache <- boardCache, writer <- boardWriter
Reconciling == INSTANCE Leaderboard WITH
  Users <- {1}, Shards <- {0}, Polling <- {0},
  ShardOf <- [u \in {1} |-> IF u = 2 /\ 1 \in {0} THEN 1 ELSE 0], Names <- {x}, Matches <- {m1},
  Readers <- {r1}, Limit <- 2, Radius <- 1, PageSize <- 1, Grace <- 1, MaxScore <- 2,
  Kinds <- {"reconcile"}, MaxTime <- 0, MaxRevision <- 1, MaxQueries <- 1, MaxResets <- 1,
  MaxFailovers <- 1, MaxLate <- 1, feed <- boardFeed, reader <- boardReader, cache <- boardCache,
  writer <- boardWriter
Ranks == INSTANCE Leaderboard WITH
  Users <- {1, 2, 3}, Shards <- {0, 1}, Polling <- {0, 1},
  ShardOf <- [u \in {1, 2, 3} |-> IF u = 2 /\ 1 \in {0, 1} THEN 1 ELSE 0], Names <- {x},
  Matches <- {m1}, Readers <- {r1}, Limit <- 2, Radius <- 1, PageSize <- 3, Grace <- 1, MaxScore <- 2,
  Kinds <- {"top", "user"}, MaxTime <- 0, MaxRevision <- 2, MaxQueries <- 1, MaxResets <- 0,
  MaxFailovers <- 0, MaxLate <- 0, feed <- boardFeed, reader <- boardReader, cache <- boardCache,
  writer <- boardWriter
Renaming == INSTANCE Leaderboard WITH
  Users <- {1}, Shards <- {0}, Polling <- {0},
  ShardOf <- [u \in {1} |-> IF u = 2 /\ 1 \in {0} THEN 1 ELSE 0], Names <- {x, y}, Matches <- {},
  Readers <- {r1}, Limit <- 2, Radius <- 1, PageSize <- 2, Grace <- 1, MaxScore <- 2, Kinds <- {"top"},
  MaxTime <- 0, MaxRevision <- 2, MaxQueries <- 2, MaxResets <- 0, MaxFailovers <- 0, MaxLate <- 0,
  feed <- boardFeed, reader <- boardReader, cache <- boardCache, writer <- boardWriter
Admit == INSTANCE Notification WITH
  Procs <- {p1, p2}, Callers <- {c1, c2}, Workers <- {w1},
  ProcOf <- [k \in {c1, c2} \cup {w1} |-> IF k = c2 THEN p2 ELSE p1],
  Requests <- {[event |-> {ev}, content |-> x]}, Endpoints <- {1}, MaxDepth <- 2, MaxRetries <- 0,
  MaxCount <- 2, MaxIds <- 2, MaxClaims <- 2, MaxFaults <- 1, MaxFlips <- 0, issued <- noteIssued,
  worker <- noteWorker, faults <- noteFaults
Deliver == INSTANCE Notification WITH
  Procs <- {p1}, Callers <- {c1}, Workers <- {w1, w2}, ProcOf <- [k \in {c1} \cup {w1, w2} |-> p1],
  Requests <- {[event |-> {}, content |-> x]}, Endpoints <- {1, 2}, MaxDepth <- 2, MaxRetries <- 1,
  MaxCount <- 2, MaxIds <- 1, MaxClaims <- 2, MaxFaults <- 1, MaxFlips <- 0, issued <- noteIssued,
  worker <- noteWorker, faults <- noteFaults
OptOut == INSTANCE Notification WITH
  Procs <- {p1}, Callers <- {c1}, Workers <- {w1, w2}, ProcOf <- [k \in {c1} \cup {w1, w2} |-> p1],
  Requests <- {[event |-> {}, content |-> x]}, Endpoints <- {1, 2}, MaxDepth <- 2, MaxRetries <- 0,
  MaxCount <- 2, MaxIds <- 1, MaxClaims <- 2, MaxFaults <- 1, MaxFlips <- 1, issued <- noteIssued,
  worker <- noteWorker, faults <- noteFaults
Quota == INSTANCE Notification WITH
  Procs <- {p1}, Callers <- {c1, c2}, Workers <- {w1}, ProcOf <- [k \in {c1, c2} \cup {w1} |-> p1],
  Requests <- {[event |-> {}, content |-> x], [event |-> {}, content |-> y]}, Endpoints <- {1},
  MaxDepth <- 1, MaxRetries <- 0, MaxCount <- 1, MaxIds <- 3, MaxClaims <- 1, MaxFaults <- 0,
  MaxFlips <- 0, issued <- noteIssued, worker <- noteWorker, faults <- noteFaults
Fanout == INSTANCE NewsFeed WITH
  Users <- {1, 2}, Authors <- {2}, Readers <- {1}, Actors <- {1}, Start <- {<<1, 2>>},
  Audiences <- {{1, 2}}, Workers <- {w1}, Threshold <- 2, BatchSize <- 1, QueueSize <- 1,
  MaxRetries <- 0, MaxEntries <- 2, PageSize <- 1, MaxPosts <- 1, MaxChanges <- 1, MaxFaults <- 1,
  MaxReads <- 1, issued <- feedIssued, cache <- feedCache, worker <- feedWorker, reader <- feedReader,
  faults <- feedFaults
Displaced == INSTANCE NewsFeed WITH
  Users <- {1, 2, 3}, Authors <- {2}, Readers <- {}, Actors <- {1}, Start <- {<<1, 2>>, <<3, 2>>},
  Audiences <- {{1, 2, 3}, {3}}, Workers <- {w1, w2}, Threshold <- 3, BatchSize <- 1, QueueSize <- 2,
  MaxRetries <- 1, MaxEntries <- 1, PageSize <- 1, MaxPosts <- 2, MaxChanges <- 0, MaxFaults <- 1,
  MaxReads <- 0, issued <- feedIssued, cache <- feedCache, worker <- feedWorker, reader <- feedReader,
  faults <- feedFaults
Celebrity == INSTANCE NewsFeed WITH
  Users <- {1, 2, 3}, Authors <- {2, 3}, Readers <- {1}, Actors <- {1}, Start <- {<<1, 2>>, <<1, 3>>},
  Audiences <- {{1, 2, 3}}, Workers <- {w1}, Threshold <- 2, BatchSize <- 1, QueueSize <- 1,
  MaxRetries <- 0, MaxEntries <- 2, PageSize <- 1, MaxPosts <- 2, MaxChanges <- 0, MaxFaults <- 0,
  MaxReads <- 1, issued <- feedIssued, cache <- feedCache, worker <- feedWorker, reader <- feedReader,
  faults <- feedFaults
Pages == INSTANCE NewsFeed WITH
  Users <- {1, 2}, Authors <- {2}, Readers <- {1}, Actors <- {}, Start <- {<<1, 2>>},
  Audiences <- {{1, 2}}, Workers <- {}, Threshold <- 2, BatchSize <- 1, QueueSize <- 1, MaxRetries <- 0,
  MaxEntries <- 2, PageSize <- 1, MaxPosts <- 2, MaxChanges <- 1, MaxFaults <- 0, MaxReads <- 2,
  issued <- feedIssued, cache <- feedCache, worker <- feedWorker, reader <- feedReader,
  faults <- feedFaults
Send == INSTANCE Mail WITH
  Users <- {al, bo}, Authors <- {al}, To <- {bo}, Shards <- {1, 2},
  ShardOf <- [u \in {al, bo} |-> IF u = bo THEN 2 ELSE 1], Keys <- {k1}, Contents <- {x, y},
  Spam <- {y}, Malformed <- {}, Clients <- {c1, c2}, Senders <- {s1, s2}, Receivers <- {r1},
  Loops <- {}, Pollers <- {}, Listers <- {}, PageSize <- 1, CacheSize <- 0, MaxSends <- 2,
  MaxAttempts <- 3, MaxUpdates <- 0, MaxFaults <- 2, log <- mailLog, call <- mailCall, feed <- mailFeed,
  cache <- mailCache, faults <- mailFaults
Receive == INSTANCE Mail WITH
  Users <- {al, bo}, Authors <- {al}, To <- {al, bo}, Shards <- {1}, ShardOf <- [u \in {al, bo} |-> 1],
  Keys <- {k1}, Contents <- {x}, Spam <- {}, Malformed <- {}, Clients <- {c1}, Senders <- {s1},
  Receivers <- {r1, r2}, Loops <- {}, Pollers <- {}, Listers <- {}, PageSize <- 1, CacheSize <- 0,
  MaxSends <- 1, MaxAttempts <- 3, MaxUpdates <- 0, MaxFaults <- 3, log <- mailLog, call <- mailCall,
  feed <- mailFeed, cache <- mailCache, faults <- mailFaults
Follow == INSTANCE Mail WITH
  Users <- {al, bo}, Authors <- {al}, To <- {al}, Shards <- {1}, ShardOf <- [u \in {al, bo} |-> 1],
  Keys <- {k1}, Contents <- {x}, Spam <- {}, Malformed <- {}, Clients <- {c1}, Senders <- {s1},
  Receivers <- {r1}, Loops <- {1, 2}, Pollers <- {al}, Listers <- {}, PageSize <- 1, CacheSize <- 1,
  MaxSends <- 1, MaxAttempts <- 3, MaxUpdates <- 1, MaxFaults <- 0, log <- mailLog, call <- mailCall,
  feed <- mailFeed, cache <- mailCache, faults <- mailFaults
Unreadable == INSTANCE Mail WITH
  Users <- {al, bo}, Authors <- {al}, To <- {al}, Shards <- {1}, ShardOf <- [u \in {al, bo} |-> 1],
  Keys <- {k1}, Contents <- {x}, Spam <- {}, Malformed <- {x}, Clients <- {c1}, Senders <- {s1},
  Receivers <- {r1}, Loops <- {}, Pollers <- {}, Listers <- {}, PageSize <- 1, CacheSize <- 1,
  MaxSends <- 1, MaxAttempts <- 3, MaxUpdates <- 1, MaxFaults <- 2, log <- mailLog, call <- mailCall,
  feed <- mailFeed, cache <- mailCache, faults <- mailFaults
FirstPage == INSTANCE Mail WITH
  Users <- {al, bo}, Authors <- {al}, To <- {al}, Shards <- {1}, ShardOf <- [u \in {al, bo} |-> 1],
  Keys <- {k1}, Contents <- {x}, Spam <- {}, Malformed <- {}, Clients <- {c1}, Senders <- {s1},
  Receivers <- {r1}, Loops <- {}, Pollers <- {}, Listers <- {al}, PageSize <- 1, CacheSize <- 1,
  MaxSends <- 1, MaxAttempts <- 3, MaxUpdates <- 2, MaxFaults <- 0, log <- mailLog, call <- mailCall,
  feed <- mailFeed, cache <- mailCache, faults <- mailFaults
Database == INSTANCE ShortLinks WITH
  Urls <- {1, 2}, Base <- 2, Length <- 2, CrcOf <- <<<<1, 2>>, <<4, 3>>>>, Sqlite <- TRUE,
  Shorteners <- {p1, p2}, Strategy <- [p \in {p1, p2} |-> "sequence"], Threads <- {t1, t2},
  Home <- (t1 :> p1) @@ (t2 :> p2), Redirects <- {301, 302}, CacheCapacity <- 0, MaxCalls <- 4,
  MaxFaults <- 2, sequence <- linkSequence, writer <- linkWriter, cache <- linkCache,
  calls <- linkCalls, faults <- linkFaults
Colliding == INSTANCE ShortLinks WITH
  Urls <- {1, 2, 3}, Base <- 2, Length <- 2, CrcOf <- <<<<1, 2>>, <<2, 4>>, <<4, 2>>>>, Sqlite <- TRUE,
  Shorteners <- {p1, p2}, Strategy <- (p1 :> "hash") @@ (p2 :> "counter"), Threads <- {t1, t2},
  Home <- (t1 :> p1) @@ (t2 :> p2), Redirects <- {302}, CacheCapacity <- 1, MaxCalls <- 4,
  MaxFaults <- 1, sequence <- linkSequence, writer <- linkWriter, cache <- linkCache,
  calls <- linkCalls, faults <- linkFaults
SharingLinks == INSTANCE ShortLinks WITH
  Urls <- {1, 2, 3}, Base <- 2, Length <- 2, CrcOf <- <<<<1>>, <<2, 3>>, <<5, 4>>>>, Sqlite <- FALSE,
  Shorteners <- {p1, p2}, Strategy <- (p1 :> "counter") @@ (p2 :> "hash"), Threads <- {t1, t2},
  Home <- (t1 :> p1) @@ (t2 :> p2), Redirects <- {302}, CacheCapacity <- 1, MaxCalls <- 5,
  MaxFaults <- 0, sequence <- linkSequence, writer <- linkWriter, cache <- linkCache,
  calls <- linkCalls, faults <- linkFaults
Drift == INSTANCE Snowflake WITH
  Generators <- {g1}, Datacenter <- g1 :> 1, Machine <- g1 :> 0, TimeBits <- 2, DatacenterBits <- 1,
  MachineBits <- 1, SequenceBits <- 1, Epoch <- 2, Monotonic <- {}, Threads <- {t1, t2},
  Home <- [t \in {t1, t2} |-> g1], Batches <- {1, 3}, Patience <- 1, Start <- 1, Jumps <- {-2, 2},
  MaxTime <- 4, MaxJumps <- 2, MaxCalls <- 3, sequence <- snowSequence, call <- snowCall,
  calls <- snowCalls
Fleet == INSTANCE Snowflake WITH
  Generators <- {g1, g2}, Datacenter <- [g \in {g1, g2} |-> 1], Machine <- (g1 :> 0) @@ (g2 :> 1),
  TimeBits <- 2, DatacenterBits <- 1, MachineBits <- 1, SequenceBits <- 1, Epoch <- 2,
  Monotonic <- {g2}, Threads <- {t1, t2}, Home <- (t1 :> g1) @@ (t2 :> g2), Batches <- {2},
  Patience <- 0, Start <- 2, Jumps <- {-1}, MaxTime <- 4, MaxJumps <- 1, MaxCalls <- 3,
  sequence <- snowSequence, call <- snowCall, calls <- snowCalls

ASSUME DeliveryAssumption ==
  /\ Moves!Assumption /\ LostCalls!Assumption /\ Hints!Assumption /\ Rehint!Assumption
  /\ Inbox!Assumption /\ Push!Assumption /\ Seasons!Assumption /\ Resets!Assumption
  /\ Failover!Assumption /\ Reconciling!Assumption /\ Ranks!Assumption /\ Renaming!Assumption
  /\ Admit!Assumption /\ Deliver!Assumption /\ OptOut!Assumption /\ Quota!Assumption
  /\ Fanout!Assumption /\ Displaced!Assumption /\ Celebrity!Assumption /\ Pages!Assumption
  /\ Send!Assumption /\ Receive!Assumption /\ Follow!Assumption /\ Unreadable!Assumption
  /\ FirstPage!Assumption /\ Database!Assumption /\ Colliding!Assumption /\ SharingLinks!Assumption
  /\ Drift!Assumption /\ Fleet!Assumption

\* The variables of the systems a behaviour does not exercise.
NoChat ==
  /\ members = 0 /\ joined = 0 /\ chatLog = 0 /\ lease = 0 /\ record = 0 /\ saved = 0
  /\ admitted = 0 /\ chatFaults = 0 /\ proc = 0 /\ client = 0 /\ logins = 0 /\ chatCalls = 0
  /\ push = 0 /\ chatWorker = 0
NoBoard ==
  /\ clock = 0 /\ player = 0 /\ revision = 0 /\ season = 0 /\ score = 0 /\ match = 0
  /\ boardFeed = 0 /\ redis = 0 /\ standby = 0 /\ epochs = 0 /\ poller = 0 /\ late = 0
  /\ boardReader = 0 /\ boardCache = 0 /\ boardWriter = 0 /\ used = 0
NoNote ==
  /\ noteIssued = 0 /\ request = 0 /\ job = 0 /\ events = 0 /\ final = 0 /\ attempts = 0
  /\ claims = 0 /\ caller = 0 /\ noteWorker = 0 /\ tracker = 0 /\ window = 0 /\ recent = 0
  /\ optedIn = 0 /\ delivered = 0 /\ noteFaults = 0 /\ flips = 0
NoFeed ==
  /\ feedIssued = 0 /\ post = 0 /\ follows = 0 /\ mutes = 0 /\ feedCache = 0 /\ loads = 0
  /\ mutation = 0 /\ queue = 0 /\ dead = 0 /\ feeds = 0 /\ notified = 0 /\ disp = 0
  /\ feedWorker = 0 /\ feedReader = 0 /\ coverage = 0 /\ pushed = 0 /\ shown = 0 /\ changes = 0
  /\ feedFaults = 0 /\ reads = 0
NoMail ==
  /\ mails = 0 /\ mailLog = 0 /\ receipts = 0 /\ outbox = 0 /\ spool = 0 /\ scanner = 0
  /\ mailCall = 0 /\ sender = 0 /\ receiver = 0 /\ replica = 0 /\ mailFeed = 0 /\ poll = 0
  /\ lister = 0 /\ mailCache = 0 /\ acked = 0 /\ sends = 0 /\ updates = 0 /\ mailFaults = 0
NoLink ==
  /\ rows = 0 /\ linkSequence = 0 /\ linkWriter = 0 /\ counter = 0 /\ linkCache = 0 /\ clicks = 0
  /\ task = 0 /\ answered = 0 /\ followed = 0 /\ lost = 0 /\ refused = 0 /\ linkCalls = 0
  /\ linkFaults = 0
NoSnow ==
  /\ wall = 0 /\ mono = 0 /\ last = 0 /\ snowSequence = 0 /\ snowCall = 0 /\ made = 0 /\ given = 0
  /\ failed = 0 /\ jumps = 0 /\ snowCalls = 0

MCInit ==
  \/ /\ NoBoard /\ NoNote /\ NoFeed /\ NoMail /\ NoLink /\ NoSnow
     /\ \/ part = "moves" /\ Moves!Init
        \/ part = "lost_calls" /\ LostCalls!Init
        \/ part = "hints" /\ Hints!Init
        \/ part = "rehint" /\ Rehint!Init
        \/ part = "inbox" /\ Inbox!Init
        \/ part = "push" /\ Push!Init
  \/ /\ NoChat /\ NoNote /\ NoFeed /\ NoMail /\ NoLink /\ NoSnow
     /\ \/ part = "seasons" /\ Seasons!Init
        \/ part = "resets" /\ Resets!Init
        \/ part = "failover" /\ Failover!Init
        \/ part = "reconciling" /\ Reconciling!Init
        \/ part = "ranks" /\ Ranks!Init
        \/ part = "renaming" /\ Renaming!Init
  \/ /\ NoChat /\ NoBoard /\ NoFeed /\ NoMail /\ NoLink /\ NoSnow
     /\ \/ part = "admit" /\ Admit!Init
        \/ part = "deliver" /\ Deliver!Init
        \/ part = "opt_out" /\ OptOut!Init
        \/ part = "quota" /\ Quota!Init
  \/ /\ NoChat /\ NoBoard /\ NoNote /\ NoMail /\ NoLink /\ NoSnow
     /\ \/ part = "fanout" /\ Fanout!Init
        \/ part = "displaced" /\ Displaced!Init
        \/ part = "celebrity" /\ Celebrity!Init
        \/ part = "pages" /\ Pages!Init
  \/ /\ NoChat /\ NoBoard /\ NoNote /\ NoFeed /\ NoLink /\ NoSnow
     /\ \/ part = "send" /\ Send!Init
        \/ part = "receive" /\ Receive!Init
        \/ part = "follow" /\ Follow!Init
        \/ part = "unreadable" /\ Unreadable!Init
        \/ part = "first_page" /\ FirstPage!Init
  \/ /\ NoChat /\ NoBoard /\ NoNote /\ NoFeed /\ NoMail /\ NoSnow
     /\ \/ part = "database" /\ Database!Init
        \/ part = "colliding" /\ Colliding!Init
        \/ part = "sharing_links" /\ SharingLinks!Init
  \/ /\ NoChat /\ NoBoard /\ NoNote /\ NoFeed /\ NoMail /\ NoLink
     /\ \/ part = "drift" /\ Drift!Init
        \/ part = "fleet" /\ Fleet!Init
MCNext ==
  \/ part = "moves" /\ Moves!Next /\ UNCHANGED <<boardVars, noteVars, feedVars, mailVars, linkVars, snowVars, part>>
  \/ part = "lost_calls" /\ LostCalls!Next /\ UNCHANGED <<boardVars, noteVars, feedVars, mailVars, linkVars, snowVars, part>>
  \/ part = "hints" /\ Hints!Next /\ UNCHANGED <<boardVars, noteVars, feedVars, mailVars, linkVars, snowVars, part>>
  \/ part = "rehint" /\ Rehint!Next /\ UNCHANGED <<boardVars, noteVars, feedVars, mailVars, linkVars, snowVars, part>>
  \/ part = "inbox" /\ Inbox!Next /\ UNCHANGED <<boardVars, noteVars, feedVars, mailVars, linkVars, snowVars, part>>
  \/ part = "push" /\ Push!Next /\ UNCHANGED <<boardVars, noteVars, feedVars, mailVars, linkVars, snowVars, part>>
  \/ part = "seasons" /\ Seasons!Next /\ UNCHANGED <<chatVars, noteVars, feedVars, mailVars, linkVars, snowVars, part>>
  \/ part = "resets" /\ Resets!Next /\ UNCHANGED <<chatVars, noteVars, feedVars, mailVars, linkVars, snowVars, part>>
  \/ part = "failover" /\ Failover!Next /\ UNCHANGED <<chatVars, noteVars, feedVars, mailVars, linkVars, snowVars, part>>
  \/ part = "reconciling" /\ Reconciling!Next /\ UNCHANGED <<chatVars, noteVars, feedVars, mailVars, linkVars, snowVars, part>>
  \/ part = "ranks" /\ Ranks!Next /\ UNCHANGED <<chatVars, noteVars, feedVars, mailVars, linkVars, snowVars, part>>
  \/ part = "renaming" /\ Renaming!Next /\ UNCHANGED <<chatVars, noteVars, feedVars, mailVars, linkVars, snowVars, part>>
  \/ part = "admit" /\ Admit!Next /\ UNCHANGED <<chatVars, boardVars, feedVars, mailVars, linkVars, snowVars, part>>
  \/ part = "deliver" /\ Deliver!Next /\ UNCHANGED <<chatVars, boardVars, feedVars, mailVars, linkVars, snowVars, part>>
  \/ part = "opt_out" /\ OptOut!Next /\ UNCHANGED <<chatVars, boardVars, feedVars, mailVars, linkVars, snowVars, part>>
  \/ part = "quota" /\ Quota!Next /\ UNCHANGED <<chatVars, boardVars, feedVars, mailVars, linkVars, snowVars, part>>
  \/ part = "fanout" /\ Fanout!Next /\ UNCHANGED <<chatVars, boardVars, noteVars, mailVars, linkVars, snowVars, part>>
  \/ part = "displaced" /\ Displaced!Next /\ UNCHANGED <<chatVars, boardVars, noteVars, mailVars, linkVars, snowVars, part>>
  \/ part = "celebrity" /\ Celebrity!Next /\ UNCHANGED <<chatVars, boardVars, noteVars, mailVars, linkVars, snowVars, part>>
  \/ part = "pages" /\ Pages!Next /\ UNCHANGED <<chatVars, boardVars, noteVars, mailVars, linkVars, snowVars, part>>
  \/ part = "send" /\ Send!Next /\ UNCHANGED <<chatVars, boardVars, noteVars, feedVars, linkVars, snowVars, part>>
  \/ part = "receive" /\ Receive!Next /\ UNCHANGED <<chatVars, boardVars, noteVars, feedVars, linkVars, snowVars, part>>
  \/ part = "follow" /\ Follow!Next /\ UNCHANGED <<chatVars, boardVars, noteVars, feedVars, linkVars, snowVars, part>>
  \/ part = "unreadable" /\ Unreadable!Next /\ UNCHANGED <<chatVars, boardVars, noteVars, feedVars, linkVars, snowVars, part>>
  \/ part = "first_page" /\ FirstPage!Next /\ UNCHANGED <<chatVars, boardVars, noteVars, feedVars, linkVars, snowVars, part>>
  \/ part = "database" /\ Database!Next /\ UNCHANGED <<chatVars, boardVars, noteVars, feedVars, mailVars, snowVars, part>>
  \/ part = "colliding" /\ Colliding!Next /\ UNCHANGED <<chatVars, boardVars, noteVars, feedVars, mailVars, snowVars, part>>
  \/ part = "sharing_links" /\ SharingLinks!Next /\ UNCHANGED <<chatVars, boardVars, noteVars, feedVars, mailVars, snowVars, part>>
  \/ part = "drift" /\ Drift!Next /\ UNCHANGED <<chatVars, boardVars, noteVars, feedVars, mailVars, linkVars, part>>
  \/ part = "fleet" /\ Fleet!Next /\ UNCHANGED <<chatVars, boardVars, noteVars, feedVars, mailVars, linkVars, part>>
MCSpec == MCInit /\ [][MCNext]_<<chatVars, boardVars, noteVars, feedVars, mailVars, linkVars, snowVars, part>>

-----------------------------------------------------------------------------

\* Chat: messages, sessions, hints and pushes are accounted for while devices move,
\* answers are lost and instances restart (distributed.py, redis_scripts.py, push.py).
ChatHolds ==
  /\ part = "moves" => Moves!ChatSound
  /\ part = "lost_calls" => LostCalls!ChatSound
  /\ part = "hints" => Hints!ChatSound
  /\ part = "rehint" => Rehint!ChatSound
  /\ part = "inbox" => Inbox!ChatSound
  /\ part = "push" => Push!ChatSound
\* Leaderboard: journal, projections and answers are exact through resets,
\* failovers and late commands (journal.py, redis.py, service.py).
LeaderboardHolds ==
  /\ part = "seasons" => Seasons!LeaderboardSound
  /\ part = "resets" => Resets!LeaderboardSound
  /\ part = "failover" => Failover!LeaderboardSound
  /\ part = "reconciling" => Reconciling!LeaderboardSound
  /\ part = "ranks" => Ranks!LeaderboardSound
  /\ part = "renaming" => Renaming!LeaderboardSound
\* Notification: one outcome per admitted event, through lapsed leases, lost answers
\* and restarts (durable.py, worker.py, tracker.py).
NotificationsHold ==
  /\ part = "admit" => Admit!NotificationSound
  /\ part = "deliver" => Deliver!NotificationSound
  /\ part = "opt_out" => OptOut!NotificationSound
  /\ part = "quota" => Quota!NotificationSound
\* Email: no message is dropped or doubled between spool, journal, replica and views
\* (spool.py, worker.py, mailbox_views.py).
MailHolds ==
  /\ part = "send" => Send!MailSound
  /\ part = "receive" => Receive!MailSound
  /\ part = "follow" => Follow!MailSound
  /\ part = "unreadable" => Unreadable!MailSound
  /\ part = "first_page" => FirstPage!MailSound
\* Links and ids: a URL has one code for every caller and keeps it, its code leads
\* to it (shortener.py, sqlite_storage.py); ids are unique and increasing while the
\* clock moves back, and parse into their fields (snowflake.py, parser.py).
LinksHold ==
  /\ part = "database" => Database!ShortLinksSound
  /\ part = "colliding" => Colliding!ShortLinksSound
  /\ part = "sharing_links" => SharingLinks!ShortLinksSound
  /\ part = "drift" => Drift!SnowflakeSound
  /\ part = "fleet" => Fleet!SnowflakeSound
=============================================================================
