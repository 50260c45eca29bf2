--------------------------- MODULE VideoPipeline ---------------------------
(***************************************************************************)
(* video-streaming-system: resumable uploads, the persistent transcode DAG *)
(* and its leases (service.py, scheduling.py, pipeline.py), the workers    *)
(* that execute it (worker.py), the completion outbox, garbage collection  *)
(* of content-addressed objects (storage.py, remote_storage.py) and the    *)
(* object cache.  A metadata transaction is a step; objects are written,   *)
(* assembled and read outside it.                                          *)
(***************************************************************************)
EXTENDS Integers, Sequences, FiniteSets, FiniteSetsExt

CONSTANTS
  Videos, Contents, NumParts,
  Profiles, Thumbnail, Preprocess,       \* the Pipeline
  Workers, LimitOf,                      \* LimitOf[w]: max_attempts worker w claims with
  Handlers, Readers, CacheSize,
  MaxCalls, MaxCleanups, MaxRemovals, MaxFaults    \* bounds of the model

VARIABLES
  video,        \* [Videos -> [state, source, assets]]
  parts,        \* [Videos -> [PartIds -> {key}, {} without a row]]
  jobs,         \* [Videos -> [Tasks -> row]], row.state "NONE" without one
  completions,  \* [Videos -> {[assets, handled]}, {} without a row]
  objects,      \* keys stored
  calls,        \* [1 .. MaxCalls -> put_part or finish request]
  worker, handler,
  cleaner, reader, cache, epoch,
  cleanups, removals, faults

qvars == <<video, parts, jobs, completions>>
cvars == <<reader, cache, epoch>>
bvars == <<cleanups, removals, faults>>
vars == <<qvars, objects, calls, worker, handler, cleaner, cvars, bvars>>

Idle == [pc |-> "idle"]
PartIds == 1 .. NumParts
Live == {v \in Videos : video[v].state \notin {"NONE", "REMOVED", "EXPIRED"}}
Stored(keys) == keys \subseteq objects
Fault == faults < MaxFaults /\ faults' = faults + 1

\* Pipeline.tasks: inspect, then optionally preprocess, then the renditions and
\* the thumbnail side by side, then publish.
Inspect == <<"inspect", 0>>
Prepare == <<"preprocess", 0>>
Publish == <<"publish", 0>>
Terminals == {<<"encode", p>> : p \in Profiles} \cup (IF Thumbnail THEN {<<"thumbnail", 0>>} ELSE {})
Tasks == {Inspect, Publish} \cup Terminals \cup (IF Preprocess THEN {Prepare} ELSE {})
Deps(t) == CASE t = Inspect -> {}
             [] t = Prepare -> {Inspect}
             [] t = Publish -> Terminals
             [] OTHER       -> IF Preprocess THEN {Prepare} ELSE {Inspect}

Assumption ==
  /\ Profiles # {} /\ {Thumbnail, Preprocess} \subseteq BOOLEAN
  /\ NumParts \in Nat \ {0} /\ CacheSize \in Nat
  /\ \A w \in Workers : LimitOf[w] \in 1 .. 100

NoRow == [state |-> "NONE", attempts |-> 0, lease |-> 0, expired |-> FALSE, limit |-> 0, output |-> {}]
StoreInit ==
  /\ video = [v \in Videos |-> [state |-> "NONE", source |-> {}, assets |-> {}]]
  /\ parts = [v \in Videos |-> [i \in PartIds |-> {}]]
  /\ jobs = [v \in Videos |-> [t \in Tasks |-> NoRow]]
  /\ completions = [v \in Videos |-> {}] /\ objects = {}
  /\ cleaner = "idle" /\ cache = {} /\ epoch = 0
Init ==
  /\ StoreInit /\ calls = [c \in 1 .. MaxCalls |-> [pc |-> "new"]]
  /\ worker = [w \in Workers |-> Idle] /\ handler = [h \in Handlers |-> Idle] /\ reader = [r \in Readers |-> Idle]
  /\ cleanups = 0 /\ removals = 0 /\ faults = 0

-----------------------------------------------------------------------------
(***************************************************************************)
(* Uploads.                                                                *)
(***************************************************************************)
Create(v) ==
  /\ video[v].state = "NONE" /\ video' = [video EXCEPT ![v].state = "UPLOADING"]
  /\ UNCHANGED <<parts, jobs, completions, objects, calls, worker, handler, cleaner, cvars, bvars>>

Stop(c) == calls' = [calls EXCEPT ![c] = Idle]
Go(c, pc) == calls' = [calls EXCEPT ![c].pc = pc]
Conflict(v, i, k) == parts[v][i] # {} /\ parts[v][i] # {k}

\* put_part reads the state and any earlier copy of the part ...
PutRead(c, v, i, x) ==
  LET k == <<"part", x>> IN
  /\ calls[c].pc = "new" /\ \A d \in 1 .. c - 1 : calls[d].pc # "new"
  /\ v \in Live /\ ~ Conflict(v, i, k)
  /\ calls' = [calls EXCEPT ![c] = [pc |-> "put", video |-> v, part |-> i, key |-> k]]
  /\ UNCHANGED <<qvars, objects, worker, handler, cleaner, cvars, bvars>>
\* ... writes the bytes outside the lock ...
PutObject(c) ==
  /\ calls[c].pc = "put" /\ objects' = objects \cup {calls[c].key} /\ Go(c, "accept")
  /\ UNCHANGED <<qvars, worker, handler, cleaner, cvars, bvars>>
\* ... and commits a reference if nothing changed in between.
Acceptable(q) == /\ video[q.video].state = "UPLOADING" /\ parts[q.video][q.part] = {}
                 /\ q.key \in objects
PutAccept(c) ==
  LET q == calls[c] IN
  /\ q.pc = "accept" /\ Stop(c)
  /\ parts' = IF Acceptable(q) THEN [parts EXCEPT ![q.video][q.part] = {q.key}] ELSE parts
  /\ UNCHANGED <<video, jobs, completions, objects, worker, handler, cleaner, cvars, bvars>>

\* finish reads the parts, assembles them outside the lock ...
FinishRead(c, v) ==
  /\ calls[c].pc = "new" /\ \A d \in 1 .. c - 1 : calls[d].pc # "new"
  /\ video[v].state = "UPLOADING" /\ \A i \in PartIds : parts[v][i] # {}
  /\ calls' = [calls EXCEPT ![c] = [pc |-> "assemble", video |-> v,
                                    keys |-> [i \in PartIds |-> CHOOSE k \in parts[v][i] : TRUE]]]
  /\ UNCHANGED <<qvars, objects, worker, handler, cleaner, cvars, bvars>>
Assemble(c) ==
  LET q == calls[c] IN
  /\ q.pc = "assemble"
  /\ IF Stored({q.keys[i] : i \in PartIds})
     THEN objects' = objects \cup {<<"source", q.keys>>} /\ Go(c, "enqueue")
     ELSE Stop(c) /\ UNCHANGED objects
  /\ UNCHANGED <<qvars, worker, handler, cleaner, cvars, bvars>>
\* ... and enqueues the plan with the change of state.
Enqueued == [t \in Tasks |-> [NoRow EXCEPT !.state = "QUEUED"]]
FinishCommit(c) ==
  LET q == calls[c]
      k == <<"source", q.keys>>
  IN
  /\ q.pc = "enqueue" /\ Stop(c)
  /\ IF video[q.video].state = "UPLOADING" /\ k \in objects
     THEN /\ video' = [video EXCEPT ![q.video].state = "PROCESSING", ![q.video].source = {k}]
          /\ jobs' = [jobs EXCEPT ![q.video] = Enqueued]
     ELSE UNCHANGED <<video, jobs>>
  /\ UNCHANGED <<parts, completions, objects, worker, handler, cleaner, cvars, bvars>>

\* remove: also of a video that is being processed or was expired
Cancelled(rows) == [t \in Tasks |-> IF rows[t].state \in {"QUEUED", "RUNNING"}
                                    THEN [rows[t] EXCEPT !.state = "CANCELLED"] ELSE rows[t]]
Remove(v) ==
  /\ removals < MaxRemovals /\ removals' = removals + 1
  /\ video[v].state \notin {"NONE", "REMOVED"}
  /\ video' = [video EXCEPT ![v].state = "REMOVED"] /\ jobs' = [jobs EXCEPT ![v] = Cancelled(@)]
  /\ UNCHANGED <<parts, completions, objects, calls, worker, handler, cleaner, cvars, cleanups, faults>>

-----------------------------------------------------------------------------
(***************************************************************************)
(* The queue and its workers.                                              *)
(***************************************************************************)
\* JobQueue.cancel with the row that failed
FailedVideo(v) == [video EXCEPT ![v].state = IF @ = "PROCESSING" THEN "FAILED" ELSE @]
FailedRows(rows, t) == [Cancelled(rows) EXCEPT ![t] = [rows[t] EXCEPT !.state = "FAILED"]]

LeaseExpires(v, t) ==
  /\ Fault /\ jobs[v][t].state = "RUNNING" /\ ~ jobs[v][t].expired
  /\ jobs' = [jobs EXCEPT ![v][t].expired = TRUE]
  /\ UNCHANGED <<video, parts, completions, objects, calls, worker, handler, cleaner, cvars, cleanups, removals>>

\* _recover: expired leases go back to the queue, or fail their video when the
\* attempts are used up.
Lapsed(v) == {t \in Tasks : jobs[v][t].state = "RUNNING" /\ jobs[v][t].expired}
Exhausted(v) == {t \in Lapsed(v) : jobs[v][t].attempts >= jobs[v][t].limit}
Recovered(v) ==
  IF Exhausted(v) # {} THEN FailedRows(jobs[v], CHOOSE t \in Exhausted(v) : TRUE)
  ELSE [t \in Tasks |-> IF t \in Lapsed(v) THEN [jobs[v][t] EXCEPT !.state = "QUEUED", !.lease = 0] ELSE jobs[v][t]]
RecoveredVideo(v) == IF Exhausted(v) # {} THEN [video[v] EXCEPT !.state = "FAILED"] ELSE video[v]

\* _ready and claim
Ready(rows, v) == {t \in Tasks : /\ rows[t].state = "QUEUED" /\ RecoveredVideo(v).state = "PROCESSING"
                                 /\ \A d \in Deps(t) : rows[d].state = "DONE"}
Leased(row, w) == [row EXCEPT !.state = "RUNNING", !.attempts = @ + 1, !.lease = row.attempts + 1, !.expired = FALSE,
                              !.limit = IF @ = 0 THEN LimitOf[w] ELSE @]
Claim(w) ==
  /\ worker[w].pc = "idle"
  /\ video' = [v \in Videos |-> RecoveredVideo(v)]
  /\ \/ /\ \E v \in Videos : Lapsed(v) # {}
        /\ \A v \in Videos : Ready(Recovered(v), v) = {}
        /\ jobs' = [v \in Videos |-> Recovered(v)] /\ UNCHANGED worker
     \/ \E v \in Videos : \E t \in Ready(Recovered(v), v) :
          /\ jobs' = [u \in Videos |-> IF u = v THEN [Recovered(u) EXCEPT ![t] = Leased(@, w)] ELSE Recovered(u)]
          /\ worker' = [worker EXCEPT ![w] = [pc |-> "execute", video |-> v, task |-> t, lease |-> jobs'[v][t].lease,
                          input |-> IF Prepare \in Deps(t) THEN jobs[v][Prepare].output ELSE video[v].source,
                          output |-> {}, lost |-> FALSE]]
  /\ UNCHANGED <<parts, completions, objects, calls, handler, cleaner, cvars, bvars>>

Current(j) == /\ jobs[j.video][j.task].state = "RUNNING" /\ jobs[j.video][j.task].lease = j.lease
              /\ ~ jobs[j.video][j.task].expired /\ video[j.video].state = "PROCESSING"

\* Worker.execute: the task's files are put one by one; publish adds the key
\* and the master playlist to the outputs completed so far.
Outputs(v) == UNION {jobs[v][t].output : t \in {u \in Terminals : jobs[v][u].state = "DONE"}}
Produced(j) == CASE j.task = Publish -> {<<"key", j.video>>, <<"master", Profiles>>}
                 [] j.task = Inspect -> {}
                 [] OTHER            -> {<<"output", j.video, j.task, j.lease>>}
Execute(w) ==
  LET j == worker[w] IN
  /\ j.pc = "execute"
  /\ IF IF j.task = Publish THEN Stored(Outputs(j.video)) ELSE Stored(j.input)
     THEN /\ objects' = objects \cup Produced(j)
          /\ worker' = [worker EXCEPT ![w].pc = "complete",
                          ![w].output = Produced(j) \cup (IF j.task = Publish THEN Outputs(j.video) ELSE {})]
     ELSE worker' = [worker EXCEPT ![w].pc = "fail"] /\ UNCHANGED objects
  /\ UNCHANGED <<qvars, calls, handler, cleaner, cvars, bvars>>
\* The media tool fails, or rejects the input for good.
MediaFails(w) ==
  /\ Fault /\ worker[w].pc = "execute"
  /\ \E pc \in {"fail", "fatal"} : worker' = [worker EXCEPT ![w].pc = pc]
  /\ UNCHANGED <<qvars, objects, calls, handler, cleaner, cvars, cleanups, removals>>
\* The heartbeat notices a lease it cannot renew.
Renewed(j) == Current(j)
LoseLease(w) ==
  /\ worker[w].pc # "idle" /\ ~ worker[w].lost /\ ~ Renewed(worker[w])
  /\ worker' = [worker EXCEPT ![w].lost = TRUE]
  /\ UNCHANGED <<qvars, objects, calls, handler, cleaner, cvars, bvars>>

\* complete, with _validate_publication for publish
Matches(j) == j.task = Publish => j.output = Outputs(j.video) \cup Produced(j)
Done(j) == [jobs EXCEPT ![j.video][j.task].state = "DONE", ![j.video][j.task].output = j.output]
Complete(w) ==
  LET j == worker[w]
      live == ~ j.lost /\ Current(j)
      valid == Stored(j.output) /\ Matches(j)
  IN
  /\ j.pc = "complete"
  /\ worker' = [worker EXCEPT ![w] = IF live /\ ~ valid THEN [j EXCEPT !.pc = "fail"] ELSE Idle]
  /\ jobs' = IF live /\ valid THEN Done(j) ELSE jobs
  /\ completions' = IF live /\ valid /\ j.task = Publish /\ completions[j.video] = {}
                    THEN [completions EXCEPT ![j.video] = {[assets |-> j.output, handled |-> FALSE]}]
                    ELSE completions
  /\ UNCHANGED <<video, parts, objects, calls, handler, cleaner, cvars, bvars>>
\* fail
Fail(w) ==
  LET j == worker[w]
      row == jobs[j.video][j.task]
      failed == j.pc = "fatal" \/ row.attempts >= row.limit
  IN
  /\ j.pc \in {"fail", "fatal"} /\ worker' = [worker EXCEPT ![w] = Idle]
  /\ IF j.lost \/ ~ Current(j) THEN UNCHANGED <<video, jobs>>
     ELSE IF failed
     THEN video' = FailedVideo(j.video) /\ jobs' = [jobs EXCEPT ![j.video] = FailedRows(@, j.task)]
     ELSE jobs' = [jobs EXCEPT ![j.video][j.task] = [@ EXCEPT !.state = "QUEUED", !.lease = 0]] /\ UNCHANGED video
  /\ UNCHANGED <<parts, completions, objects, calls, handler, cleaner, cvars, bvars>>
WorkerCrash(w) ==
  /\ Fault /\ worker[w].pc # "idle" /\ worker' = [worker EXCEPT ![w] = Idle]
  /\ UNCHANGED <<qvars, objects, calls, handler, cleaner, cvars, cleanups, removals>>

-----------------------------------------------------------------------------
(***************************************************************************)
(* Completions, playback and garbage collection.                           *)
(***************************************************************************)
\* handle_completions reads a batch, checks each row's objects outside the lock
\* and commits what the row still says.
Unhandled == {v \in Videos : \E c \in completions[v] : ~ c.handled}
HandleRead(h) ==
  /\ handler[h].pc = "idle" /\ Unhandled # {}
  /\ handler' = [handler EXCEPT ![h] = [pc |-> "check", rows |-> Unhandled]]
  /\ UNCHANGED <<qvars, objects, calls, worker, cleaner, cvars, bvars>>
HandleCheck(h) ==
  /\ handler[h].pc = "check"
  /\ \E v \in handler[h].rows : \E c \in completions[v] :
       handler' = [handler EXCEPT ![h] = [pc |-> "commit", rows |-> @.rows \ {v}, video |-> v,
                                          available |-> c.assets # {} /\ Stored(c.assets)]]
  /\ UNCHANGED <<qvars, objects, calls, worker, cleaner, cvars, bvars>>
Publishes(v) == video[v].state = "PROCESSING"
HandleCommit(h) ==
  LET v == handler[h].video IN
  /\ handler[h].pc = "commit"
  /\ handler' = [handler EXCEPT ![h] = IF @.rows = {} THEN Idle ELSE [pc |-> "check", rows |-> @.rows]]
  /\ IF v \in Unhandled /\ (Publishes(v) => handler[h].available)
     THEN \E c \in completions[v] :
            /\ completions' = [completions EXCEPT ![v] = {[c EXCEPT !.handled = TRUE]}]
            /\ video' = IF Publishes(v) THEN [video EXCEPT ![v].state = "READY", ![v].assets = c.assets] ELSE video
     ELSE UNCHANGED <<completions, video>>
  /\ UNCHANGED <<parts, jobs, objects, calls, worker, cleaner, cvars, bvars>>

\* cleanup expires old uploads and forgets the parts of dead videos, then, in
\* a second transaction, deletes old objects nothing refers to; how old an
\* object is stays open.
ExpireUploads(old) ==
  /\ cleaner = "idle" /\ cleanups < MaxCleanups /\ cleaner' = "sweep" /\ cleanups' = cleanups + 1
  /\ video' = [v \in Videos |-> IF v \in old THEN [video[v] EXCEPT !.state = "EXPIRED"] ELSE video[v]]
  /\ parts' = [v \in Videos |-> IF video'[v].state \in {"EXPIRED", "REMOVED"} THEN [i \in PartIds |-> {}] ELSE parts[v]]
  /\ UNCHANGED <<jobs, completions, objects, calls, worker, handler, cvars, removals, faults>>
Kept(v, t) == ~ (t = Prepare /\ video[v].state \in {"READY", "FAILED"})
References ==
  UNION {video[v].source \cup video[v].assets : v \in Live}
  \cup UNION {parts[v][i] : v \in Videos, i \in PartIds}
  \cup UNION {UNION {jobs[v][t].output : t \in {u \in Tasks : Kept(v, u)}} : v \in Live}
  \cup UNION {UNION {c.assets : c \in completions[v]} : v \in Live}
Swept(old) == old \ References
Sweep(old) ==
  /\ cleaner = "sweep" /\ cleaner' = "idle"
  /\ objects' = objects \ Swept(old) /\ cache' = {} /\ epoch' = epoch + 1
  /\ UNCHANGED <<qvars, calls, worker, handler, reader, bvars>>

\* asset resolves a name of a READY video; read_small serves it from the cache,
\* or loads it and keeps it if no cleanup came in between.
Asset(r, v, k) ==
  /\ reader[r].pc = "idle" /\ video[v].state = "READY" /\ k \in video[v].assets
  /\ reader' = [reader EXCEPT ![r] = [pc |-> "open", key |-> k]]
  /\ UNCHANGED <<qvars, objects, calls, worker, handler, cleaner, cache, epoch, bvars>>
Lookup(r) ==
  LET k == reader[r].key IN
  /\ reader[r].pc = "open"
  /\ reader' = [reader EXCEPT ![r] = IF k \notin objects \/ k \in cache THEN Idle
                                     ELSE [pc |-> "load", key |-> k, epoch |-> epoch]]
  /\ UNCHANGED <<qvars, objects, calls, worker, handler, cleaner, cache, epoch, bvars>>
Load(r) ==
  /\ reader[r].pc = "load"
  /\ reader' = [reader EXCEPT ![r] = IF Stored({@.key}) THEN [@ EXCEPT !.pc = "keep"] ELSE Idle]
  /\ UNCHANGED <<qvars, objects, calls, worker, handler, cleaner, cache, epoch, bvars>>
KeepLoaded(r) ==
  LET k == reader[r].key IN
  /\ reader[r].pc = "keep" /\ reader' = [reader EXCEPT ![r] = Idle]
  /\ IF reader[r].epoch = epoch /\ CacheSize > 0
     THEN \E out \in SUBSET cache : /\ Cardinality(cache \ out) = Min({CacheSize - 1, Cardinality(cache)})
                                    /\ cache' = (cache \ out) \cup {k}
     ELSE UNCHANGED cache
  /\ UNCHANGED <<qvars, objects, calls, worker, handler, cleaner, epoch, bvars>>

-----------------------------------------------------------------------------
UploadStep ==
  \/ \E c \in 1 .. MaxCalls :
       \/ \E v \in Videos, i \in PartIds, x \in Contents : PutRead(c, v, i, x)
       \/ PutObject(c) \/ PutAccept(c)
       \/ \E v \in Videos : FinishRead(c, v)
       \/ Assemble(c) \/ FinishCommit(c)
  \/ \E v \in Videos : Create(v) \/ Remove(v)
WorkerStep ==
  \/ \E w \in Workers : \/ Claim(w) \/ Execute(w) \/ MediaFails(w) \/ LoseLease(w)
                        \/ Complete(w) \/ Fail(w) \/ WorkerCrash(w)
  \/ \E v \in Videos, t \in Tasks : LeaseExpires(v, t)
ServiceStep ==
  \/ \E h \in Handlers : HandleRead(h) \/ HandleCheck(h) \/ HandleCommit(h)
  \/ \E old \in SUBSET {v \in Videos : video[v].state = "UPLOADING"} : ExpireUploads(old)
  \/ \E old \in SUBSET Swept(objects) : Sweep(old)
  \/ \E r \in Readers : \/ \E v \in Videos : \E k \in video[v].assets : Asset(r, v, k)
                        \/ Lookup(r) \/ Load(r) \/ KeepLoaded(r)
Next == UploadStep \/ WorkerStep \/ ServiceStep
Spec == Init /\ [][Next]_vars

-----------------------------------------------------------------------------
\* Types of the video, job and cache records.
TypeOK ==
  /\ \A v \in Videos :
       /\ video[v].state \in {"NONE", "UPLOADING", "PROCESSING", "READY", "FAILED", "REMOVED", "EXPIRED"}
       /\ \A t \in Tasks : jobs[v][t].state \in {"NONE", "QUEUED", "RUNNING", "DONE", "FAILED", "CANCELLED"}
       /\ Cardinality(completions[v]) <= 1 /\ Cardinality(video[v].source) <= 1
  /\ cleaner \in {"idle", "sweep"} /\ Cardinality(cache) <= CacheSize

\* What a video still needs is never swept, however slow the requests, workers
\* and completion handlers are: accepted parts, the source, the outputs the
\* next tasks read, and the assets of a READY video (service.py cleanup).
NeededKept ==
  \A v \in Videos :
    LET row == video[v]
        outputs == UNION {jobs[v][t].output : t \in Tasks}
    IN
    /\ row.state \in {"UPLOADING", "PROCESSING"} => UNION {parts[v][i] : i \in PartIds} \subseteq objects
    /\ row.state = "PROCESSING" => row.source # {} /\ row.source \cup outputs \subseteq objects
    /\ row.state = "READY" => row.assets \subseteq objects
\* A DONE task has the output of the lease it holds and of no earlier attempt,
\* and a READY video is published from exactly these (JobQueue.complete).
FencedOutputs ==
  \A v \in Videos :
    /\ \A t \in Tasks \ {Inspect, Publish} :
         jobs[v][t].state = "DONE" => jobs[v][t].output = {<<"output", v, t, jobs[v][t].lease>>}
    /\ video[v].state = "READY" => video[v].assets = Outputs(v) \cup {<<"key", v>>, <<"master", Profiles>>}
\* A video in PROCESSING always has work left for some worker or handler, and a
\* settled one has none; no task is attempted more often than the limit it was
\* first claimed with (JobQueue._recover, fail, cancel).
NeverStuck ==
  \A v \in Videos :
    LET states == {jobs[v][t].state : t \in Tasks} IN
    /\ video[v].state = "PROCESSING" =>
         /\ states \subseteq {"QUEUED", "RUNNING", "DONE"}
         /\ states = {"DONE"} => v \in Unhandled
    /\ video[v].state \in {"READY", "FAILED", "REMOVED"} => states \cap {"QUEUED", "RUNNING"} = {}
    /\ \A t \in Tasks : jobs[v][t].attempts <= jobs[v][t].limit
\* The cache never holds an object that was deleted (read_small and its epoch).
CacheFresh == cache \subseteq objects
\* Needed objects survive, outputs are fenced, no video is stuck, no stale cache.
VideoSound == TypeOK /\ NeededKept /\ FencedOutputs /\ NeverStuck /\ CacheFresh
=============================================================================
