---------------------------- MODULE MCPipelines -----------------------------
(***************************************************************************)
(* The systems that move data through stages. A behaviour exercises one    *)
(* part; the variables of the other systems are not used in it:            *)
(*   edits        file sync: two devices edit one file, a lost answer      *)
(*   versions     file sync: shared blocks, expiry of uploads and          *)
(*                versions, collection                                     *)
(*   sharing      file sync: a guest whose membership changes              *)
(*   leases       video: two workers, a pipeline of two tasks, lapsed      *)
(*                leases                                                   *)
(*   uploads      video: two uploads of one content, cleanup and removal   *)
(*   playback     video: a reader and its cache around publication and     *)
(*                removal                                                  *)
(*   multipart    video: an upload of two parts with other contents        *)
(*                repeated                                                 *)
(*   collect      metrics: two requests from the spool to two partitions,  *)
(*                lost answers                                             *)
(*   rebalance    metrics: two consumers of a partition                    *)
(*   rollup       metrics: rollups, retention and queries between ingests  *)
(*   archive_old  metrics: a refused kind, archives of three resolutions   *)
(*   evaluate     alerts: two evaluators of one rule                       *)
(*   notify       alerts: two senders, a lost answer                       *)
(*   silence      alerts: a group of two series and a silence              *)
(*   tail         ad clicks: two tailers, a rotated file, lost answers     *)
(*   windows      ad clicks: late events, two partitions and a merged      *)
(*                answer                                                   *)
(*   workers      ad clicks: two workers of one database, repeated clicks  *)
(*   audit        ad clicks: a rebuilt database and the audit of the       *)
(*                serving one                                              *)
(*   recover      crawler: durable state, two hosts, crash, cancellation   *)
(*                and retry                                                *)
(*   copies       crawler: the same bytes on two hosts, recrawled          *)
(*   frontier     crawler: the in-memory frontier, robots and redirects    *)
(*   partitioned  crawler: URLs of another owner                           *)
(*   failover     profiles: a fenced pair, crashes between the two         *)
(*                commits, promotion                                       *)
(*   fills        profiles: a reader fills the cache around writes of two  *)
(*                users                                                    *)
(*   probes       profiles: failed cache calls, expiry and a restarted     *)
(*                cache                                                    *)
(*   outbox       profiles: retried writes, jobs claimed again, a          *)
(*                replaced primary                                         *)
(***************************************************************************)
EXTENDS Integers, TLC

CONSTANTS
  v1, v2, x, y, w1, w2, h1, h2, r1, r2, s1, s2, f1, f2, c1, c2, a1, a2, e1, e2, t1, t2, d1, d2, x1, l1,
  l2, l3, q1, u1, u2, k1

VARIABLES part,
  rev, uploads, refs, store, syncEvents, members, syncCalls, delivered, acked, syncFile, copies, known,
  pending, cursor, op, edits, issued, syncFaults, admin, superseded,
  video, parts, videoJobs, completions, objects, videoCalls, worker, handler, cleaner, videoReader,
  videoCache, epoch, cleanups, removals, videoFaults,
  spool, flusher, adapter, metricLog, committed, member, metricConsumer, metricDb, stored, metricNow,
  actor, metricCache, answer, archive, work, metricFaults,
  rules, level, alerts, evaluations, evaluator, silences, alertEvents, deliveries, sender, received,
  alertNow, levels, alertFaults,
  clickLineage, clickLog, clickFile, whole, checkpoint, holder, tailer, clickDb, loop, clickReader,
  answers, auditor, verdicts, clickNow, queries, clickFaults,
  running, seeds, crawlJobs, hosts, prints, snapshots, active, queued, front, waiting, delayed, seen,
  contents, claims, robots, task, attempted, routed, counter, finished, expanded, ended, polite, obeyed,
  runs, crawlNow, crawlFaults,
  scaleLog, requests, scaleJobs, identity, source, feed, fence, locked, promotion, scaleCache, order,
  floors, ticket, sessions, writer, scaleReader, scaleConsumer, inbox, loseAck, kept, scaleLineage,
  removed, results, answered, scaleCalls, reads, scaleNow, scaleFaults

syncVars == <<rev, uploads, refs, store, syncEvents, members, syncCalls, delivered, acked, syncFile,
               copies, known, pending, cursor, op, edits, issued, syncFaults, admin, superseded>>
videoVars == <<video, parts, videoJobs, completions, objects, videoCalls, worker, handler, cleaner,
                videoReader, videoCache, epoch, cleanups, removals, videoFaults>>
metricVars == <<spool, flusher, adapter, metricLog, committed, member, metricConsumer, metricDb,
                 stored, metricNow, actor, metricCache, answer, archive, work, metricFaults>>
alertVars == <<rules, level, alerts, evaluations, evaluator, silences, alertEvents, deliveries, sender,
                received, alertNow, levels, alertFaults>>
clickVars == <<clickLineage, clickLog, clickFile, whole, checkpoint, holder, tailer, clickDb, loop,
                clickReader, answers, auditor, verdicts, clickNow, queries, clickFaults>>
crawlVars == <<running, seeds, crawlJobs, hosts, prints, snapshots, active, queued, front, waiting,
                delayed, seen, contents, claims, robots, task, attempted, routed, counter, finished,
                expanded, ended, polite, obeyed, runs, crawlNow, crawlFaults>>
scaleVars == <<scaleLog, requests, scaleJobs, identity, source, feed, fence, locked, promotion,
                scaleCache, order, floors, ticket, sessions, writer, scaleReader, scaleConsumer, inbox,
                loseAck, kept, scaleLineage, removed, results, answered, scaleCalls, reads, scaleNow,
                scaleFaults>>

\* Samples and chunks of the metrics pipeline; clicks of the ad-click pipeline.
Sample(s, t, v, k) == [s |-> s, t |-> t, v |-> v, k |-> k]
Chunk(p, samples) == [part |-> p, samples |-> samples]
Scraped ==
  (r1 :> {<<Chunk(1, {Sample(s1, 0, 1, "gauge")}), Chunk(2, {Sample(s2, 0, 1, "gauge")})>>}) @@
  (r2 :> {<<Chunk(1, {Sample(s1, 0, 2, "gauge")})>>, <<Chunk(1, {Sample(s1, 1, 2, "gauge")})>>})
Counted == <<Chunk(1, {Sample(s1, 0, 1, "counter"), Sample(s1, 1, 2, "counter")}), Chunk(1, {Sample(s1, 2, 1, "counter")})>>
Conflicting ==
  <<Chunk(1, {Sample(s1, 0, 1, "gauge"), Sample(s1, 1, 2, "gauge")}),
    Chunk(1, {Sample(s2, 4, 1, "counter")}), Chunk(1, {Sample(s2, 4, 1, "gauge")})>>
Click(i, ad, t) == [id |-> i, ad |-> ad, t |-> t]
Written == <<Click(1, "x", 0), Click(2, "y", 1), Click(1, "x", 0)>>
Spread == {<<Click(1, "x", 0)>>, <<Click(2, "x", 0)>>, <<Click(3, "y", 0)>>}
Repeated == {<<Click(1, "x", 0)>>, <<Click(2, "x", 1)>>, <<Click(4, "y", 0), Click(1, "x", 0)>>}
\* Pages and redirects that a crawled site serves.
Page(f, links) == [print |-> f, links |-> links, moved |-> FALSE]
Moved(to) == [print |-> 0, links |-> <<to>>, moved |-> TRUE]

Edits == INSTANCE FileSync WITH
  Devices <- {1, 2}, Guests <- {}, BlocksOf <- <<<<1>>, <<2>>>>, Quota <- 6, Keep <- 1, BatchLimit <- 1,
  MaxEdits <- 2, MaxUploads <- 2, MaxFaults <- 1, MaxAdmin <- 0, events <- syncEvents,
  calls <- syncCalls, file <- syncFile, faults <- syncFaults
Versions == INSTANCE FileSync WITH
  Devices <- {1}, Guests <- {}, BlocksOf <- <<<<1, 2>>, <<2>>>>, Quota <- 5, Keep <- 1, BatchLimit <- 1,
  MaxEdits <- 2, MaxUploads <- 3, MaxFaults <- 0, MaxAdmin <- 2, events <- syncEvents,
  calls <- syncCalls, file <- syncFile, faults <- syncFaults
Sharing == INSTANCE FileSync WITH
  Devices <- {1, 2}, Guests <- {2}, BlocksOf <- <<<<1>>>>, Quota <- 6, Keep <- 1, BatchLimit <- 1,
  MaxEdits <- 1, MaxUploads <- 1, MaxFaults <- 0, MaxAdmin <- 3, events <- syncEvents,
  calls <- syncCalls, file <- syncFile, faults <- syncFaults
Leases == INSTANCE VideoPipeline WITH
  Videos <- {v1}, Contents <- {x}, NumParts <- 1, Profiles <- {1}, Thumbnail <- FALSE,
  Preprocess <- TRUE, Workers <- {w1, w2}, LimitOf <- [w \in {w1, w2} |-> 2], Handlers <- {h1},
  Readers <- {}, CacheSize <- 0, MaxCalls <- 2, MaxCleanups <- 1, MaxRemovals <- 0, MaxFaults <- 2,
  jobs <- videoJobs, calls <- videoCalls, reader <- videoReader, cache <- videoCache,
  faults <- videoFaults
Uploads == INSTANCE VideoPipeline WITH
  Videos <- {v1, v2}, Contents <- {x}, NumParts <- 1, Profiles <- {1}, Thumbnail <- FALSE,
  Preprocess <- FALSE, Workers <- {}, LimitOf <- [w \in {} |-> 1], Handlers <- {}, Readers <- {},
  CacheSize <- 0, MaxCalls <- 4, MaxCleanups <- 1, MaxRemovals <- 1, MaxFaults <- 0, jobs <- videoJobs,
  calls <- videoCalls, reader <- videoReader, cache <- videoCache, faults <- videoFaults
Playback == INSTANCE VideoPipeline WITH
  Videos <- {v1}, Contents <- {x}, NumParts <- 1, Profiles <- {1}, Thumbnail <- TRUE,
  Preprocess <- FALSE, Workers <- {w1}, LimitOf <- [w \in {w1} |-> 1], Handlers <- {h1, h2},
  Readers <- {r1}, CacheSize <- 1, MaxCalls <- 2, MaxCleanups <- 2, MaxRemovals <- 1, MaxFaults <- 0,
  jobs <- videoJobs, calls <- videoCalls, reader <- videoReader, cache <- videoCache,
  faults <- videoFaults
Multipart == INSTANCE VideoPipeline WITH
  Videos <- {v1}, Contents <- {x, y}, NumParts <- 2, Profiles <- {1}, Thumbnail <- FALSE,
  Preprocess <- FALSE, Workers <- {}, LimitOf <- [w \in {} |-> 1], Handlers <- {}, Readers <- {},
  CacheSize <- 0, MaxCalls <- 4, MaxCleanups <- 1, MaxRemovals <- 0, MaxFaults <- 0, jobs <- videoJobs,
  calls <- videoCalls, reader <- videoReader, cache <- videoCache, faults <- videoFaults
Collect == INSTANCE MetricsPipeline WITH
  Requests <- {r1, r2}, ContentsOf <- Scraped, Partitions <- {1, 2}, Queued <- <<>>, Series <- {s1, s2},
  MetricOf <- (s1 :> "m") @@ (s2 :> "n"), MaxBytes <- 2, Flushers <- {f1, f2}, Consumers <- {c1},
  FetchLimit <- 2, MaxSeries <- 1, PerMetric <- 1, Minute <- 2, Hour <- 2, Lag <- 1, RawKeep <- 2,
  MinuteKeep <- 3, HourKeep <- 6, Actors <- {}, Starts <- {}, CacheSize <- 0, MaxWork <- 0,
  MaxTime <- 0, MaxFaults <- 1, log <- metricLog, consumer <- metricConsumer, db <- metricDb,
  now <- metricNow, cache <- metricCache, faults <- metricFaults
Rebalance == INSTANCE MetricsPipeline WITH
  Requests <- {r2}, ContentsOf <- Scraped, Partitions <- {1}, Queued <- <<>>, Series <- {s1},
  MetricOf <- s1 :> "m", MaxBytes <- 2, Flushers <- {f1}, Consumers <- {c1, c2}, FetchLimit <- 2,
  MaxSeries <- 1, PerMetric <- 1, Minute <- 2, Hour <- 2, Lag <- 1, RawKeep <- 2, MinuteKeep <- 3,
  HourKeep <- 6, Actors <- {}, Starts <- {}, CacheSize <- 0, MaxWork <- 0, MaxTime <- 3, MaxFaults <- 4,
  log <- metricLog, consumer <- metricConsumer, db <- metricDb, now <- metricNow, cache <- metricCache,
  faults <- metricFaults
Rollup == INSTANCE MetricsPipeline WITH
  Requests <- {}, ContentsOf <- [r \in {} |-> {}], Partitions <- {1}, Queued <- Counted, Series <- {s1},
  MetricOf <- s1 :> "m", MaxBytes <- 1, Flushers <- {}, Consumers <- {c1}, FetchLimit <- 2,
  MaxSeries <- 1, PerMetric <- 1, Minute <- 2, Hour <- 2, Lag <- 0, RawKeep <- 1, MinuteKeep <- 2,
  HourKeep <- 2, Actors <- {a1, a2}, Starts <- {0}, CacheSize <- 1, MaxWork <- 2, MaxTime <- 2,
  MaxFaults <- 0, log <- metricLog, consumer <- metricConsumer, db <- metricDb, now <- metricNow,
  cache <- metricCache, faults <- metricFaults
ArchiveOld == INSTANCE MetricsPipeline WITH
  Requests <- {}, ContentsOf <- [r \in {} |-> {}], Partitions <- {1}, Queued <- Conflicting,
  Series <- {s1, s2}, MetricOf <- [s \in {s1, s2} |-> "m"], MaxBytes <- 1, Flushers <- {},
  Consumers <- {c1}, FetchLimit <- 3, MaxSeries <- 2, PerMetric <- 1, Minute <- 2, Hour <- 2, Lag <- 0,
  RawKeep <- 1, MinuteKeep <- 2, HourKeep <- 3, Actors <- {a1}, Starts <- {0}, CacheSize <- 1,
  MaxWork <- 3, MaxTime <- 5, MaxFaults <- 0, log <- metricLog, consumer <- metricConsumer,
  db <- metricDb, now <- metricNow, cache <- metricCache, faults <- metricFaults
Evaluate == INSTANCE MetricsAlerts WITH
  Rules <- {r1}, Series <- {s1}, GroupOf <- [a \in {r1} \X {s1, s2} |-> "g"], For <- 1, MaxAge <- 1,
  Evaluators <- {e1, e2}, Senders <- {}, MaxAttempts <- 2, Backoff <- 1, SilenceFor <- 1,
  MaxLevels <- 2, MaxEvaluations <- 3, MaxTime <- 2, MaxSilences <- 0, MaxFaults <- 1,
  events <- alertEvents, now <- alertNow, faults <- alertFaults
Notify == INSTANCE MetricsAlerts WITH
  Rules <- {r1}, Series <- {s1}, GroupOf <- [a \in {r1} \X {s1, s2} |-> "g"], For <- 0, MaxAge <- 1,
  Evaluators <- {e1}, Senders <- {w1, w2}, MaxAttempts <- 2, Backoff <- 0, SilenceFor <- 1,
  MaxLevels <- 2, MaxEvaluations <- 3, MaxTime <- 1, MaxSilences <- 0, MaxFaults <- 1,
  events <- alertEvents, now <- alertNow, faults <- alertFaults
Silence == INSTANCE MetricsAlerts WITH
  Rules <- {r1}, Series <- {s1, s2}, GroupOf <- [a \in {r1} \X {s1, s2} |-> "g"], For <- 0, MaxAge <- 1,
  Evaluators <- {e1}, Senders <- {w1}, MaxAttempts <- 1, Backoff <- 1, SilenceFor <- 1, MaxLevels <- 2,
  MaxEvaluations <- 2, MaxTime <- 2, MaxSilences <- 1, MaxFaults <- 0, events <- alertEvents,
  now <- alertNow, faults <- alertFaults
Tail == INSTANCE AdClicks WITH
  Partitions <- {1}, PartOf <- [i \in 1..4 |-> IF i = 3 THEN 2 ELSE 1],
  Batches <- {<<Click(1, "y", 0)>>}, Source <- Written, Other <- <<Click(2, "y", 1)>>,
  Tailers <- {t1, t2}, TailBatch <- 2, Databases <- {d1},
  PartitionOf <- [d \in {d1, d2, x1} |-> IF d = d2 THEN 2 ELSE 1], Serving <- {d1}, Loops <- {},
  DbOf <- l1 :> d1, PageSize <- 1, Lateness <- 0, MaxEvents <- 3, Readers <- {}, Capacity <- 1,
  TopN <- 1, Ends <- {}, Auditors <- {}, MaxTime <- 1, MaxQueries <- 0, MaxFaults <- 3,
  lineage <- clickLineage, log <- clickLog, file <- clickFile, db <- clickDb, reader <- clickReader,
  now <- clickNow, faults <- clickFaults
Windows == INSTANCE AdClicks WITH
  Partitions <- {1, 2}, PartOf <- [i \in 1..4 |-> IF i = 3 THEN 2 ELSE 1], Batches <- Spread,
  Source <- <<>>, Other <- <<>>, Tailers <- {}, TailBatch <- 2, Databases <- {d1, d2},
  PartitionOf <- [d \in {d1, d2, x1} |-> IF d = d2 THEN 2 ELSE 1], Serving <- {d1, d2},
  Loops <- {l1, l2}, DbOf <- (l1 :> d1) @@ (l2 :> d2), PageSize <- 1, Lateness <- 0, MaxEvents <- 2,
  Readers <- {q1}, Capacity <- 1, TopN <- 1, Ends <- {1}, Auditors <- {}, MaxTime <- 1, MaxQueries <- 1,
  MaxFaults <- 0, lineage <- clickLineage, log <- clickLog, file <- clickFile, db <- clickDb,
  reader <- clickReader, now <- clickNow, faults <- clickFaults
Workers == INSTANCE AdClicks WITH
  Partitions <- {1}, PartOf <- [i \in 1..4 |-> IF i = 3 THEN 2 ELSE 1], Batches <- Repeated,
  Source <- <<>>, Other <- <<>>, Tailers <- {}, TailBatch <- 2, Databases <- {d1, x1},
  PartitionOf <- [d \in {d1, d2, x1} |-> IF d = d2 THEN 2 ELSE 1], Serving <- {d1}, Loops <- {l1, l2},
  DbOf <- (l1 :> d1) @@ (l2 :> d1) @@ (l3 :> x1), PageSize <- 1, Lateness <- 1, MaxEvents <- 2,
  Readers <- {}, Capacity <- 1, TopN <- 1, Ends <- {1}, Auditors <- {a1}, MaxTime <- 1, MaxQueries <- 1,
  MaxFaults <- 1, lineage <- clickLineage, log <- clickLog, file <- clickFile, db <- clickDb,
  reader <- clickReader, now <- clickNow, faults <- clickFaults
Audit == INSTANCE AdClicks WITH
  Partitions <- {1}, PartOf <- [i \in 1..4 |-> IF i = 3 THEN 2 ELSE 1], Batches <- Repeated,
  Source <- <<>>, Other <- <<>>, Tailers <- {}, TailBatch <- 2, Databases <- {d1, x1},
  PartitionOf <- [d \in {d1, d2, x1} |-> IF d = d2 THEN 2 ELSE 1], Serving <- {d1}, Loops <- {l1, l3},
  DbOf <- (l1 :> d1) @@ (l2 :> d1) @@ (l3 :> x1), PageSize <- 1, Lateness <- 1, MaxEvents <- 2,
  Readers <- {}, Capacity <- 1, TopN <- 1, Ends <- {1}, Auditors <- {a1}, MaxTime <- 1, MaxQueries <- 1,
  MaxFaults <- 0, lineage <- clickLineage, log <- clickLog, file <- clickFile, db <- clickDb,
  reader <- clickReader, now <- clickNow, faults <- clickFaults
Recover == INSTANCE WebCrawler WITH
  Durable <- TRUE, Urls <- 1..3, HostOf <- <<1, 1, 2>>, Seeds <- <<1>>,
  PagesOf <- <<{Page(1, <<2, 3>>)}, {Page(2, <<>>)}, {Page(1, <<2>>)}>>, RobotsOf <- <<1..2, {3}>>,
  Accepted <- 1..3, Ring <- {[pos |-> 5, node |-> 1]}, PlaceOf <- <<1, 2>>, Me <- 1, Slots <- {s1, s2},
  MaxPages <- 4, MaxDepth <- 1, MaxRetries <- 1, Delay <- 1, RetryDelay <- 1, Interval <- 0,
  RobotsTTL <- 1, MaxRuns <- 2, MaxTime <- 1, MaxFaults <- 2, jobs <- crawlJobs, now <- crawlNow,
  faults <- crawlFaults
Copies == INSTANCE WebCrawler WITH
  Durable <- TRUE, Urls <- 1..2, HostOf <- <<1, 2>>, Seeds <- <<1, 2>>,
  PagesOf <- <<{Page(1, <<>>), Page(2, <<>>)}, {Page(1, <<>>)}>>, RobotsOf <- <<{1}, {2}>>,
  Accepted <- 1..2, Ring <- {[pos |-> 5, node |-> 1]}, PlaceOf <- <<1, 2>>, Me <- 1, Slots <- {s1, s2},
  MaxPages <- 3, MaxDepth <- 1, MaxRetries <- 0, Delay <- 1, RetryDelay <- 1, Interval <- 1,
  RobotsTTL <- 1, MaxRuns <- 2, MaxTime <- 1, MaxFaults <- 1, jobs <- crawlJobs, now <- crawlNow,
  faults <- crawlFaults
Frontier == INSTANCE WebCrawler WITH
  Durable <- FALSE, Urls <- 1..4, HostOf <- <<1, 1, 2, 2>>, Seeds <- <<1, 3>>,
  PagesOf <- <<{Page(1, <<2, 4>>), Moved(2)}, {Page(2, <<>>)}, {Page(1, <<4>>)}, {Page(3, <<>>)}>>,
  RobotsOf <- <<{1}, {3, 4}>>, Accepted <- 1..4, Ring <- {[pos |-> 5, node |-> 1]}, PlaceOf <- <<1, 2>>,
  Me <- 1, Slots <- {s1, s2}, MaxPages <- 4, MaxDepth <- 1, MaxRetries <- 1, Delay <- 1,
  RetryDelay <- 1, Interval <- 0, RobotsTTL <- 1, MaxRuns <- 2, MaxTime <- 1, MaxFaults <- 1,
  jobs <- crawlJobs, now <- crawlNow, faults <- crawlFaults
Partitioned == INSTANCE WebCrawler WITH
  Durable <- TRUE, Urls <- 1..3, HostOf <- <<1, 2, 2>>, Seeds <- <<1>>,
  PagesOf <- <<{Page(1, <<2, 3>>)}, {Page(2, <<>>)}, {Page(3, <<>>)}>>, RobotsOf <- <<{1}, {2, 3}>>,
  Accepted <- 1..2, Ring <- {[pos |-> 3, node |-> 1], [pos |-> 8, node |-> 2]}, PlaceOf <- <<1, 7>>,
  Me <- 1, Slots <- {s1}, MaxPages <- 4, MaxDepth <- 1, MaxRetries <- 1, Delay <- 1, RetryDelay <- 1,
  Interval <- 0, RobotsTTL <- 1, MaxRuns <- 2, MaxTime <- 2, MaxFaults <- 2, jobs <- crawlJobs,
  now <- crawlNow, faults <- crawlFaults
Failover == INSTANCE ScaleFromZero WITH
  Users <- {u1},
  Requests <- {[id |-> 1, user |-> u1, expect |-> 0, value |-> 1], [id |-> 2, user |-> u1, expect |-> 1, value |-> 2]},
  Webs <- 2, Writers <- {w1}, Readers <- {}, Consumers <- {}, Fenced <- TRUE, Lease <- 1,
  FeedLimit <- 1, HistoryLimit <- 3, CacheSize <- 1, FloorLimit <- 1, MaxSessions <- 2,
  SessionLife <- 2, MaxCalls <- 3, MaxReads <- 0, MaxTime <- 2, MaxFaults <- 1, log <- scaleLog,
  jobs <- scaleJobs, cache <- scaleCache, reader <- scaleReader, consumer <- scaleConsumer,
  lineage <- scaleLineage, calls <- scaleCalls, now <- scaleNow, faults <- scaleFaults
Fills == INSTANCE ScaleFromZero WITH
  Users <- {u1, u2},
  Requests <- {[id |-> 1, user |-> u1, expect |-> 0, value |-> 1], [id |-> 2, user |-> u2, expect |-> 0, value |-> 2]},
  Webs <- 1, Writers <- {w1}, Readers <- {r1}, Consumers <- {}, Fenced <- FALSE, Lease <- 2,
  FeedLimit <- 1, HistoryLimit <- 3, CacheSize <- 1, FloorLimit <- 1, MaxSessions <- 2,
  SessionLife <- 2, MaxCalls <- 4, MaxReads <- 2, MaxTime <- 0, MaxFaults <- 0, log <- scaleLog,
  jobs <- scaleJobs, cache <- scaleCache, reader <- scaleReader, consumer <- scaleConsumer,
  lineage <- scaleLineage, calls <- scaleCalls, now <- scaleNow, faults <- scaleFaults
Probes == INSTANCE ScaleFromZero WITH
  Users <- {u1}, Requests <- {[id |-> 1, user |-> u1, expect |-> 0, value |-> 1]}, Webs <- 1,
  Writers <- {w1}, Readers <- {r1}, Consumers <- {}, Fenced <- FALSE, Lease <- 2, FeedLimit <- 1,
  HistoryLimit <- 3, CacheSize <- 1, FloorLimit <- 1, MaxSessions <- 2, SessionLife <- 2, MaxCalls <- 2,
  MaxReads <- 2, MaxTime <- 1, MaxFaults <- 1, log <- scaleLog, jobs <- scaleJobs, cache <- scaleCache,
  reader <- scaleReader, consumer <- scaleConsumer, lineage <- scaleLineage, calls <- scaleCalls,
  now <- scaleNow, faults <- scaleFaults
Outbox == INSTANCE ScaleFromZero WITH
  Users <- {u1},
  Requests <- {[id |-> 1, user |-> u1, expect |-> 0, value |-> 1], [id |-> 1, user |-> u1, expect |-> 0, value |-> 2]},
  Webs <- 2, Writers <- {w1}, Readers <- {}, Consumers <- {k1}, Fenced <- FALSE, Lease <- 1,
  FeedLimit <- 1, HistoryLimit <- 3, CacheSize <- 1, FloorLimit <- 1, MaxSessions <- 2,
  SessionLife <- 2, MaxCalls <- 3, MaxReads <- 0, MaxTime <- 1, MaxFaults <- 1, log <- scaleLog,
  jobs <- scaleJobs, cache <- scaleCache, reader <- scaleReader, consumer <- scaleConsumer,
  lineage <- scaleLineage, calls <- scaleCalls, now <- scaleNow, faults <- scaleFaults

ASSUME PipelinesAssumption ==
  /\ Edits!Assumption /\ Versions!Assumption /\ Sharing!Assumption /\ Leases!Assumption
  /\ Uploads!Assumption /\ Playback!Assumption /\ Multipart!Assumption /\ Collect!Assumption
  /\ Rebalance!Assumption /\ Rollup!Assumption /\ ArchiveOld!Assumption /\ Evaluate!Assumption
  /\ Notify!Assumption /\ Silence!Assumption /\ Tail!Assumption /\ Windows!Assumption
  /\ Workers!Assumption /\ Audit!Assumption /\ Recover!Assumption /\ Copies!Assumption
  /\ Frontier!Assumption /\ Partitioned!Assumption /\ Failover!Assumption /\ Fills!Assumption
  /\ Probes!Assumption /\ Outbox!Assumption

\* The variables of the systems a behaviour does not exercise.
NoSync ==
  /\ rev = 0 /\ uploads = 0 /\ refs = 0 /\ store = 0 /\ syncEvents = 0 /\ members = 0
  /\ syncCalls = 0 /\ delivered = 0 /\ acked = 0 /\ syncFile = 0 /\ copies = 0 /\ known = 0
  /\ pending = 0 /\ cursor = 0 /\ op = 0 /\ edits = 0 /\ issued = 0 /\ syncFaults = 0 /\ admin = 0
  /\ superseded = 0
NoVideo ==
  /\ video = 0 /\ parts = 0 /\ videoJobs = 0 /\ completions = 0 /\ objects = 0 /\ videoCalls = 0
  /\ worker = 0 /\ handler = 0 /\ cleaner = 0 /\ videoReader = 0 /\ videoCache = 0 /\ epoch = 0
  /\ cleanups = 0 /\ removals = 0 /\ videoFaults = 0
NoMetric ==
  /\ spool = 0 /\ flusher = 0 /\ adapter = 0 /\ metricLog = 0 /\ committed = 0 /\ member = 0
  /\ metricConsumer = 0 /\ metricDb = 0 /\ stored = 0 /\ metricNow = 0 /\ actor = 0
  /\ metricCache = 0 /\ answer = 0 /\ archive = 0 /\ work = 0 /\ metricFaults = 0
NoAlert ==
  /\ rules = 0 /\ level = 0 /\ alerts = 0 /\ evaluations = 0 /\ evaluator = 0 /\ silences = 0
  /\ alertEvents = 0 /\ deliveries = 0 /\ sender = 0 /\ received = 0 /\ alertNow = 0 /\ levels = 0
  /\ alertFaults = 0
NoClick ==
  /\ clickLineage = 0 /\ clickLog = 0 /\ clickFile = 0 /\ whole = 0 /\ checkpoint = 0 /\ holder = 0
  /\ tailer = 0 /\ clickDb = 0 /\ loop = 0 /\ clickReader = 0 /\ answers = 0 /\ auditor = 0
  /\ verdicts = 0 /\ clickNow = 0 /\ queries = 0 /\ clickFaults = 0
NoCrawl ==
  /\ running = 0 /\ seeds = 0 /\ crawlJobs = 0 /\ hosts = 0 /\ prints = 0 /\ snapshots = 0
  /\ active = 0 /\ queued = 0 /\ front = 0 /\ waiting = 0 /\ delayed = 0 /\ seen = 0 /\ contents = 0
  /\ claims = 0 /\ robots = 0 /\ task = 0 /\ attempted = 0 /\ routed = 0 /\ counter = 0
  /\ finished = 0 /\ expanded = 0 /\ ended = 0 /\ polite = 0 /\ obeyed = 0 /\ runs = 0
  /\ crawlNow = 0 /\ crawlFaults = 0
NoScale ==
  /\ scaleLog = 0 /\ requests = 0 /\ scaleJobs = 0 /\ identity = 0 /\ source = 0 /\ feed = 0
  /\ fence = 0 /\ locked = 0 /\ promotion = 0 /\ scaleCache = 0 /\ order = 0 /\ floors = 0
  /\ ticket = 0 /\ sessions = 0 /\ writer = 0 /\ scaleReader = 0 /\ scaleConsumer = 0 /\ inbox = 0
  /\ loseAck = 0 /\ kept = 0 /\ scaleLineage = 0 /\ removed = 0 /\ results = 0 /\ answered = 0
  /\ scaleCalls = 0 /\ reads = 0 /\ scaleNow = 0 /\ scaleFaults = 0

MCInit ==
  \/ /\ NoVideo /\ NoMetric /\ NoAlert /\ NoClick /\ NoCrawl /\ NoScale
     /\ \/ part = "edits" /\ Edits!Init
        \/ part = "versions" /\ Versions!Init
        \/ part = "sharing" /\ Sharing!Init
  \/ /\ NoSync /\ NoMetric /\ NoAlert /\ NoClick /\ NoCrawl /\ NoScale
     /\ \/ part = "leases" /\ Leases!Init
        \/ part = "uploads" /\ Uploads!Init
        \/ part = "playback" /\ Playback!Init
        \/ part = "multipart" /\ Multipart!Init
  \/ /\ NoSync /\ NoVideo /\ NoAlert /\ NoClick /\ NoCrawl /\ NoScale
     /\ \/ part = "collect" /\ Collect!Init
        \/ part = "rebalance" /\ Rebalance!Init
        \/ part = "rollup" /\ Rollup!Init
        \/ part = "archive_old" /\ ArchiveOld!Init
  \/ /\ NoSync /\ NoVideo /\ NoMetric /\ NoClick /\ NoCrawl /\ NoScale
     /\ \/ part = "evaluate" /\ Evaluate!Init
        \/ part = "notify" /\ Notify!Init
        \/ part = "silence" /\ Silence!Init
  \/ /\ NoSync /\ NoVideo /\ NoMetric /\ NoAlert /\ NoCrawl /\ NoScale
     /\ \/ part = "tail" /\ Tail!Init
        \/ part = "windows" /\ Windows!Init
        \/ part = "workers" /\ Workers!Init
        \/ part = "audit" /\ Audit!Init
  \/ /\ NoSync /\ NoVideo /\ NoMetric /\ NoAlert /\ NoClick /\ NoScale
     /\ \/ part = "recover" /\ Recover!Init
        \/ part = "copies" /\ Copies!Init
        \/ part = "frontier" /\ Frontier!Init
        \/ part = "partitioned" /\ Partitioned!Init
  \/ /\ NoSync /\ NoVideo /\ NoMetric /\ NoAlert /\ NoClick /\ NoCrawl
     /\ \/ part = "failover" /\ Failover!Init
        \/ part = "fills" /\ Fills!Init
        \/ part = "probes" /\ Probes!Init
        \/ part = "outbox" /\ Outbox!Init
MCNext ==
  \/ part = "edits" /\ Edits!Next /\ UNCHANGED <<videoVars, metricVars, alertVars, clickVars, crawlVars, scaleVars, part>>
  \/ part = "versions" /\ Versions!Next /\ UNCHANGED <<videoVars, metricVars, alertVars, clickVars, crawlVars, scaleVars, part>>
  \/ part = "sharing" /\ Sharing!Next /\ UNCHANGED <<videoVars, metricVars, alertVars, clickVars, crawlVars, scaleVars, part>>
  \/ part = "leases" /\ Leases!Next /\ UNCHANGED <<syncVars, metricVars, alertVars, clickVars, crawlVars, scaleVars, part>>
  \/ part = "uploads" /\ Uploads!Next /\ UNCHANGED <<syncVars, metricVars, alertVars, clickVars, crawlVars, scaleVars, part>>
  \/ part = "playback" /\ Playback!Next /\ UNCHANGED <<syncVars, metricVars, alertVars, clickVars, crawlVars, scaleVars, part>>
  \/ part = "multipart" /\ Multipart!Next /\ UNCHANGED <<syncVars, metricVars, alertVars, clickVars, crawlVars, scaleVars, part>>
  \/ part = "collect" /\ Collect!Next /\ UNCHANGED <<syncVars, videoVars, alertVars, clickVars, crawlVars, scaleVars, part>>
  \/ part = "rebalance" /\ Rebalance!Next /\ UNCHANGED <<syncVars, videoVars, alertVars, clickVars, crawlVars, scaleVars, part>>
  \/ part = "rollup" /\ Rollup!Next /\ UNCHANGED <<syncVars, videoVars, alertVars, clickVars, crawlVars, scaleVars, part>>
  \/ part = "archive_old" /\ ArchiveOld!Next /\ UNCHANGED <<syncVars, videoVars, alertVars, clickVars, crawlVars, scaleVars, part>>
  \/ part = "evaluate" /\ Evaluate!Next /\ UNCHANGED <<syncVars, videoVars, metricVars, clickVars, crawlVars, scaleVars, part>>
  \/ part = "notify" /\ Notify!Next /\ UNCHANGED <<syncVars, videoVars, metricVars, clickVars, crawlVars, scaleVars, part>>
  \/ part = "silence" /\ Silence!Next /\ UNCHANGED <<syncVars, videoVars, metricVars, clickVars, crawlVars, scaleVars, part>>
  \/ part = "tail" /\ Tail!Next /\ UNCHANGED <<syncVars, videoVars, metricVars, alertVars, crawlVars, scaleVars, part>>
  \/ part = "windows" /\ Windows!Next /\ UNCHANGED <<syncVars, videoVars, metricVars, alertVars, crawlVars, scaleVars, part>>
  \/ part = "workers" /\ Workers!Next /\ UNCHANGED <<syncVars, videoVars, metricVars, alertVars, crawlVars, scaleVars, part>>
  \/ part = "audit" /\ Audit!Next /\ UNCHANGED <<syncVars, videoVars, metricVars, alertVars, crawlVars, scaleVars, part>>
  \/ part = "recover" /\ Recover!Next /\ UNCHANGED <<syncVars, videoVars, metricVars, alertVars, clickVars, scaleVars, part>>
  \/ part = "copies" /\ Copies!Next /\ UNCHANGED <<syncVars, videoVars, metricVars, alertVars, clickVars, scaleVars, part>>
  \/ part = "frontier" /\ Frontier!Next /\ UNCHANGED <<syncVars, videoVars, metricVars, alertVars, clickVars, scaleVars, part>>
  \/ part = "partitioned" /\ Partitioned!Next /\ UNCHANGED <<syncVars, videoVars, metricVars, alertVars, clickVars, scaleVars, part>>
  \/ part = "failover" /\ Failover!Next /\ UNCHANGED <<syncVars, videoVars, metricVars, alertVars, clickVars, crawlVars, part>>
  \/ part = "fills" /\ Fills!Next /\ UNCHANGED <<syncVars, videoVars, metricVars, alertVars, clickVars, crawlVars, part>>
  \/ part = "probes" /\ Probes!Next /\ UNCHANGED <<syncVars, videoVars, metricVars, alertVars, clickVars, crawlVars, part>>
  \/ part = "outbox" /\ Outbox!Next /\ UNCHANGED <<syncVars, videoVars, metricVars, alertVars, clickVars, crawlVars, part>>
MCSpec == MCInit /\ [][MCNext]_<<syncVars, videoVars, metricVars, alertVars, clickVars, crawlVars, scaleVars, part>>

-----------------------------------------------------------------------------

\* Metrics: every accepted sample is stored once, rollups are exact and answers
\* follow them; alert transitions follow the evaluations, and every alert event is
\* delivered, silenced or given up (collector.py, rollups.py, alert_evaluation.py).
MetricsHold ==
  /\ part = "collect" => Collect!MetricsSound
  /\ part = "rebalance" => Rebalance!MetricsSound
  /\ part = "rollup" => Rollup!MetricsSound
  /\ part = "archive_old" => ArchiveOld!MetricsSound
  /\ part = "evaluate" => Evaluate!AlertsSound
  /\ part = "notify" => Notify!AlertsSound
  /\ part = "silence" => Silence!AlertsSound
\* Ad clicks: lines are kept in order, counts are exact and answers agree with
\* them (tailer.py, aggregate.py, query.py).
ClicksHold ==
  /\ part = "tail" => Tail!ClicksSound
  /\ part = "windows" => Windows!ClicksSound
  /\ part = "workers" => Workers!ClicksSound
  /\ part = "audit" => Audit!ClicksSound
\* Scale-from-zero: a promotion keeps every published change and a replica never
\* mixes two databases, retried writes and jobs take effect once, and no late fill
\* of the cache survives an invalidation (profiles.py, leadership.py, cache.py).
ScaleHolds ==
  /\ part = "failover" => Failover!ScaleSound
  /\ part = "fills" => Fills!ScaleSound
  /\ part = "probes" => Probes!ScaleSound
  /\ part = "outbox" => Outbox!ScaleSound
=============================================================================
