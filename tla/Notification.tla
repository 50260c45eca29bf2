---------------------------- MODULE Notification ----------------------------
(***************************************************************************)
(* notification-system: admission of requests (service.py), the durable    *)
(* job table with leases and its audit log (durable.py), the workers that  *)
(* fan a notification out to its endpoints (worker.py) and the retry       *)
(* policy (retry.py).  One recipient on one channel: everything here is    *)
(* kept per recipient and channel.  Processes share the database; their    *)
(* trackers, quotas and preferences are their own.  A database transaction *)
(* is one step, and so is a run of code without an await.  The delay of a  *)
(* rescheduled job may pass at any time.                                   *)
(***************************************************************************)
EXTENDS Integers, Sequences, FiniteSets, FiniteSetsExt

CONSTANTS
  Procs,                  \* processes on one database
  Callers, Workers,       \* send() calls and worker tasks
  ProcOf,                 \* [Callers \cup Workers -> Procs]
  Requests,               \* records [event, content]; event {} without an event_id
  Endpoints,              \* the recipient's devices, numbers in order
  MaxDepth,               \* queue_max_depth
  MaxRetries,             \* RetryConfig.max_retries
  MaxCount,               \* the quota of a window
  MaxIds, MaxClaims, MaxFaults, MaxFlips   \* bounds of the model

VARIABLES
  issued,     \* notification ids used so far
  request,    \* [Ids -> {its request}, {} if the id is not used]
  job,        \* notification_jobs: [Ids -> {row}, {} without one]
  events,     \* notification_events: {<<event, id>>}
  final,      \* [Ids -> acknowledgements in notification_log]
  attempts,   \* attempts in notification_log: {<<id, attempt, status>>}
  claims,     \* receipts used so far
  caller, worker,
  tracker,    \* [Procs -> [Ids -> lifecycle state]]
  window,     \* [Procs -> ids that count against the quota]
  recent,     \* [Procs -> {<<content, id>>}], the deduplicator
  optedIn,    \* [Procs -> BOOLEAN]
  delivered,  \* [Ids -> [Endpoints -> messages the provider accepted]]
  faults, flips

tvars == <<issued, request>>
dvars == <<job, events, final, attempts, claims>>
pvars == <<tracker, window, recent, optedIn>>
vars  == <<tvars, dvars, caller, worker, pvars, delivered, faults, flips>>

Assumption ==
  /\ ProcOf \in [Callers \cup Workers -> Procs] /\ Endpoints \subseteq Nat
  /\ {MaxDepth, MaxCount} \subseteq Nat \ {0} /\ MaxRetries \in Nat

Ids == 1 .. MaxIds
Terminal == {"sent", "failed", "unsubscribed"}
\* VALID_TRANSITIONS; a notification the tracker has not seen may start anywhere.
Allowed(from, to) ==
  CASE from = "none"    -> TRUE
    [] from = "queued"  -> to \in {"sending", "failed"}
    [] from = "sending" -> to \in {"sent", "failed", "queued", "unsubscribed"}
    [] OTHER            -> FALSE
Record(p, i, s) == tracker' = [tracker EXCEPT ![p][i] = IF Allowed(@, s) THEN s ELSE @]

IdleCaller == [pc |-> "idle", id |-> 0]
IdleWorker == [pc |-> "idle", id |-> 0]
Fresh == [i \in Ids |-> "none"]

Init ==
  /\ issued = 0 /\ request = [i \in Ids |-> {}]
  /\ job = [i \in Ids |-> {}] /\ events = {} /\ final = [i \in Ids |-> <<>>] /\ attempts = {} /\ claims = 0
  /\ caller = [c \in Callers |-> IdleCaller] /\ worker = [w \in Workers |-> IdleWorker]
  /\ tracker = [p \in Procs |-> Fresh] /\ window = [p \in Procs |-> {}] /\ recent = [p \in Procs |-> {}]
  /\ optedIn = [p \in Procs |-> TRUE]
  /\ delivered = [i \in Ids |-> [e \in Endpoints |-> 0]] /\ faults = 0 /\ flips = 0

Fault == faults < MaxFaults /\ faults' = faults + 1

-----------------------------------------------------------------------------
(***************************************************************************)
(* Admission.  The recipient's lock is held from the lookup to the record. *)
(***************************************************************************)
Locked(p) == \E c \in Callers : ProcOf[c] = p /\ caller[c].pc # "idle"
Known(q) == \E e \in q.event, i \in Ids : <<e, i>> \in events

\* send, up to the answer of event_notification_id
Send(c, q) ==
  /\ caller[c].pc = "idle" /\ ~ Locked(ProcOf[c]) /\ issued < MaxIds
  /\ ~ Known(q)                      \* otherwise DuplicateNotificationError
  /\ caller' = [caller EXCEPT ![c] = [pc |-> "check", id |-> 0, request |-> q]]
  /\ UNCHANGED <<tvars, dvars, worker, pvars, delivered, faults, flips>>

\* The checks of _accept, which run without an await.  A refused request
\* leaves no trace but the tracker's UNSUBSCRIBED of an id nobody is given.
Duplicate(p, q) == q.event = {} /\ \E i \in Ids : <<q.content, i>> \in recent[p]
Admissible(p, q) == optedIn[p] /\ Cardinality(window[p]) < MaxCount /\ ~ Duplicate(p, q)
Check(c) ==
  LET p == ProcOf[c]
      q == caller[c].request
      i == issued + 1
  IN
  /\ caller[c].pc = "check"
  /\ \/ /\ ~ Admissible(p, q)
        /\ caller' = [caller EXCEPT ![c] = IdleCaller] /\ UNCHANGED <<tvars, tracker>>
     \/ /\ Admissible(p, q) /\ i \in Ids
        /\ issued' = i /\ request' = [request EXCEPT ![i] = {q}]
        /\ tracker' = [tracker EXCEPT ![p][i] = "queued"]
        /\ caller' = [caller EXCEPT ![c].pc = "enqueue", ![c].id = i]
  /\ UNCHANGED <<dvars, worker, window, recent, optedIn, delivered, faults, flips>>

\* _enqueue
Depth == Cardinality({i \in Ids : job[i] # {}})
NewJob == [attempt |-> 0, done |-> {}, rejected |-> {}, receipt |-> 0, live |-> FALSE]
Enqueue(c) ==
  LET i == caller[c].id
      q == caller[c].request
  IN
  /\ caller[c].pc = "enqueue"
  /\ \/ /\ ~ Known(q) /\ Depth < MaxDepth
        /\ job' = [job EXCEPT ![i] = {NewJob}]
        /\ events' = events \cup {<<e, i>> : e \in q.event}
        /\ caller' = [caller EXCEPT ![c].pc = "record"] /\ UNCHANGED faults
     \/ /\ Known(q) \/ Depth >= MaxDepth
        /\ caller' = [caller EXCEPT ![c].pc = "refused"] /\ UNCHANGED <<job, events, faults>>
     \/ Fault /\ caller' = [caller EXCEPT ![c].pc = "refused"] /\ UNCHANGED <<job, events>>
  /\ UNCHANGED <<tvars, final, attempts, claims, worker, pvars, delivered, flips>>
\* _accept after the enqueue
Finish(c) ==
  LET i == caller[c].id
      p == ProcOf[c]
      q == caller[c].request
  IN
  /\ caller[c].pc \in {"record", "refused"}
  /\ \/ /\ caller[c].pc = "record"
        /\ window' = [window EXCEPT ![p] = @ \cup {i}]
        /\ recent' = IF q.event = {} THEN [recent EXCEPT ![p] = @ \cup {<<q.content, i>>}] ELSE recent
        /\ UNCHANGED tracker
     \/ caller[c].pc = "refused" /\ Record(p, i, "failed") /\ UNCHANGED <<window, recent>>
  /\ caller' = [caller EXCEPT ![c] = IdleCaller]
  /\ UNCHANGED <<tvars, dvars, worker, optedIn, delivered, faults, flips>>

\* _prune and _expire_old_entries
Prune(p) ==
  /\ window[p] # {} /\ window' = [window EXCEPT ![p] = @ \ {Min(@)}]
  /\ UNCHANGED <<tvars, dvars, caller, worker, tracker, recent, optedIn, delivered, faults, flips>>
Forget(p, r) ==
  /\ recent' = [recent EXCEPT ![p] = @ \ {r}]
  /\ UNCHANGED <<tvars, dvars, caller, worker, tracker, window, optedIn, delivered, faults, flips>>
\* opt_in, opt_out
SetPreference(p) ==
  /\ flips < MaxFlips /\ flips' = flips + 1 /\ optedIn' = [optedIn EXCEPT ![p] = ~ @]
  /\ UNCHANGED <<tvars, dvars, caller, worker, tracker, window, recent, delivered, faults>>

-----------------------------------------------------------------------------
(***************************************************************************)
(* Leases.  A row is fenced by its receipt and an unexpired lease.         *)
(***************************************************************************)
Row(i) == CHOOSE r \in job[i] : TRUE
Claimable(i) == job[i] # {} /\ (Row(i).receipt = 0 \/ ~ Row(i).live)
Holds(w) == job[worker[w].id] # {} /\ Row(worker[w].id).receipt = worker[w].receipt /\ Row(worker[w].id).live

\* _claim; renewals keep the lease live until it lapses.
Claim(w, i) ==
  /\ worker[w].pc = "idle" /\ Claimable(i) /\ claims < MaxClaims
  /\ claims' = claims + 1
  /\ job' = [job EXCEPT ![i] = {[Row(i) EXCEPT !.receipt = claims + 1, !.live = TRUE]}]
  /\ worker' = [worker EXCEPT ![w] =
       [pc |-> "claimed", id |-> i, receipt |-> claims + 1, attempt |-> Row(i).attempt,
        done |-> Row(i).done, rejected |-> Row(i).rejected, pending |-> {}, soft |-> FALSE, outcome |-> "none"]]
  /\ UNCHANGED <<tvars, events, final, attempts, caller, pvars, delivered, faults, flips>>
Lapse(i) ==
  /\ job[i] # {} /\ Row(i).live /\ Fault
  /\ job' = [job EXCEPT ![i] = {[Row(i) EXCEPT !.live = FALSE]}]
  /\ UNCHANGED <<tvars, events, final, attempts, claims, caller, worker, pvars, delivered, flips>>

\* _process_task up to the first endpoint
Begin(w) ==
  LET p == ProcOf[w]
      i == worker[w].id
      open == tracker[p][i] \notin Terminal   \* otherwise record raises
  IN
  /\ worker[w].pc = "claimed"
  /\ tracker' = IF open THEN [tracker EXCEPT ![p][i] = "sending"] ELSE tracker
  /\ worker' = [worker EXCEPT
       ![w].pc = CASE ~ open                 -> "abort"
                   [] open /\ ~ optedIn[p] -> "unsubscribed"
                   [] OTHER                -> "loop",
       ![w].pending = Endpoints \ (worker[w].done \cup worker[w].rejected)]
  /\ UNCHANGED <<tvars, dvars, caller, window, recent, optedIn, delivered, faults, flips>>

\* The preference is read before every endpoint.  An answer that does not
\* come in time counts as a retryable failure, whatever the provider did.
Deliver(w) ==
  LET i == worker[w].id
      e == Min(worker[w].pending)
      accepts == delivered' = [delivered EXCEPT ![i][e] = @ + 1]
      answers(o) == worker' = [worker EXCEPT ![w].pc = "answer", ![w].outcome = o]
  IN
  /\ worker[w].pc = "loop" /\ worker[w].pending # {}
  /\ \/ /\ ~ optedIn[ProcOf[w]]
        /\ worker' = [worker EXCEPT ![w].pc = "unsubscribed"] /\ UNCHANGED <<delivered, faults>>
     \/ /\ optedIn[ProcOf[w]]
        /\ \/ accepts /\ answers("ok") /\ UNCHANGED faults
           \/ accepts /\ answers("retry") /\ Fault
           \/ answers("retry") /\ UNCHANGED <<delivered, faults>>
           \/ answers("reject") /\ UNCHANGED <<delivered, faults>>
  /\ UNCHANGED <<tvars, dvars, caller, pvars, flips>>
Answer(w) ==
  LET e == Min(worker[w].pending)
      o == worker[w].outcome
  IN
  /\ worker[w].pc = "answer"
  /\ worker' = [worker EXCEPT
       ![w].pc = "loop", ![w].outcome = "none", ![w].pending = @ \ {e},
       ![w].done = IF o = "ok" THEN @ \cup {e} ELSE @,
       ![w].rejected = IF o = "reject" THEN @ \cup {e} ELSE @,
       ![w].soft = @ \/ o = "retry"]
  /\ UNCHANGED <<tvars, dvars, caller, pvars, delivered, faults, flips>>

\* After the fan-out: record_success, or record_attempt in handle_failure.
Succeeded(w) == ~ worker[w].soft /\ worker[w].rejected = {}
GivesUp(w) == ~ worker[w].soft \/ worker[w].attempt >= MaxRetries
Conclude(w) ==
  LET status == IF Succeeded(w) THEN "sent" ELSE "failed" IN
  /\ worker[w].pc = "loop" /\ worker[w].pending = {}
  /\ attempts' = attempts \cup {<<worker[w].id, worker[w].attempt + 1, status>>}
  /\ worker' = [worker EXCEPT ![w].pc = IF Succeeded(w) \/ GivesUp(w) THEN status ELSE "retry"]
  /\ UNCHANGED <<tvars, job, events, final, claims, caller, pvars, delivered, faults, flips>>

\* _ack: the row and the log entry in one transaction
Ack(w) ==
  LET i == worker[w].id IN
  /\ worker[w].pc \in Terminal
  /\ \/ /\ Holds(w)
        /\ job' = [job EXCEPT ![i] = {}]
        /\ final' = [final EXCEPT ![i] = Append(@, [status |-> worker[w].pc, attempt |-> worker[w].attempt,
                                                   done |-> worker[w].done, rejected |-> worker[w].rejected])]
        /\ worker' = [worker EXCEPT ![w].pc = "acked", ![w].outcome = worker[w].pc]
     \/ ~ Holds(w) /\ worker' = [worker EXCEPT ![w].pc = "abort"] /\ UNCHANGED <<job, final>>
  /\ UNCHANGED <<tvars, events, attempts, claims, caller, pvars, delivered, faults, flips>>
\* _reschedule, and the release of _process_claim
Returned_Bare(w, n) == [NewJob EXCEPT !.attempt = n]
Returned(w, n) == [NewJob EXCEPT !.attempt = n, !.done = worker[w].done, !.rejected = worker[w].rejected]
Retry(w) ==
  /\ worker[w].pc = "retry"
  /\ job' = IF Holds(w) THEN [job EXCEPT ![worker[w].id] = {Returned(w, worker[w].attempt + 1)}] ELSE job
  /\ worker' = [worker EXCEPT ![w].pc = IF Holds(w) THEN "retried" ELSE "abort"]
  /\ UNCHANGED <<tvars, events, final, attempts, claims, caller, pvars, delivered, faults, flips>>
Abort(w) ==
  /\ worker[w].pc = "abort"
  /\ job' = IF Holds(w) THEN [job EXCEPT ![worker[w].id] = {Returned(w, worker[w].attempt)}] ELSE job
  /\ worker' = [worker EXCEPT ![w] = IdleWorker]
  /\ UNCHANGED <<tvars, events, final, attempts, claims, caller, pvars, delivered, faults, flips>>
\* The tracker learns of it after the transaction.  A refused transition
\* raises; the release that follows finds no row of this receipt.
Track(w) ==
  LET p == ProcOf[w]
      i == worker[w].id
  IN
  /\ worker[w].pc \in {"acked", "retried"}
  /\ IF worker[w].pc = "acked" THEN Record(p, i, worker[w].outcome)
     ELSE tracker' = [tracker EXCEPT ![p][i] = IF @ = "sending" THEN "queued" ELSE @]
  /\ worker' = [worker EXCEPT ![w] = IdleWorker]
  /\ UNCHANGED <<tvars, dvars, caller, window, recent, optedIn, delivered, faults, flips>>

\* The heartbeat finds the lease lost, and the delivery is cancelled.
LeaseLost(w) ==
  /\ worker[w].pc \notin {"idle", "abort", "acked", "retried"} /\ ~ Holds(w)
  /\ worker' = [worker EXCEPT ![w].pc = "abort"]
  /\ UNCHANGED <<tvars, dvars, caller, pvars, delivered, faults, flips>>
\* A stop without grace, or an error of the database.
Cancel(w) ==
  /\ worker[w].pc \notin {"idle", "abort"} /\ Fault
  /\ worker' = [worker EXCEPT ![w].pc = "abort"]
  /\ UNCHANGED <<tvars, dvars, caller, pvars, delivered, flips>>
\* A process ends: what it kept in memory is gone.
Restart(p) ==
  /\ Fault
  /\ worker' = [w \in Workers |-> IF ProcOf[w] = p THEN IdleWorker ELSE worker[w]]
  /\ caller' = [c \in Callers |-> IF ProcOf[c] = p THEN IdleCaller ELSE caller[c]]
  /\ tracker' = [tracker EXCEPT ![p] = Fresh] /\ window' = [window EXCEPT ![p] = {}]
  /\ recent' = [recent EXCEPT ![p] = {}] /\ optedIn' = [optedIn EXCEPT ![p] = TRUE]
  /\ UNCHANGED <<tvars, dvars, delivered, flips>>

-----------------------------------------------------------------------------
WorkerStep(w) ==
  \/ \E i \in Ids : Claim(w, i)
  \/ Begin(w) \/ Deliver(w) \/ Answer(w) \/ Conclude(w) \/ Ack(w) \/ Retry(w) \/ Abort(w) \/ Track(w)
  \/ LeaseLost(w) \/ Cancel(w)
CallerStep(c) == (\E q \in Requests : Send(c, q)) \/ Check(c) \/ Enqueue(c) \/ Finish(c)
Next ==
  \/ \E c \in Callers : CallerStep(c)
  \/ \E w \in Workers : WorkerStep(w)
  \/ \E i \in Ids : Lapse(i)
  \/ \E p \in Procs : Prune(p) \/ SetPreference(p) \/ Restart(p) \/ (\E r \in recent[p] : Forget(p, r))
Spec == Init /\ [][Next]_vars

-----------------------------------------------------------------------------
Accepted(i) == job[i] # {} \/ final[i] # <<>>

TypeOK ==
  /\ \A i \in Ids : Cardinality(job[i]) <= 1 /\ Cardinality(request[i]) <= 1
  /\ \A i \in Ids : i > issued => request[i] = {} /\ job[i] = {} /\ final[i] = <<>>
  /\ Depth <= MaxDepth /\ claims <= MaxClaims

\* An event becomes one notification, whichever processes admit it and
\* whatever fails between; a quota is never exceeded (_accept, _enqueue).
AdmittedOnce ==
  /\ \A i, j \in Ids : Accepted(i) /\ Accepted(j) /\ i # j =>
       \A q \in request[i], r \in request[j] : q.event \cap r.event = {}
  /\ \A p \in Procs : /\ Cardinality(window[p]) <= MaxCount
                      /\ \A r, s \in recent[p] : r[1] = s[1] => r = s
\* An accepted notification has a job until it has exactly one outcome, and
\* the outcome is the right one: sent to every endpoint, or failed because
\* endpoints refused and all others have it, or because all attempts failed.
OutcomeRight ==
  \A i \in Ids :
    /\ Len(final[i]) <= 1 /\ (final[i] # <<>> => job[i] = {})
    /\ \A f \in {final[i][n] : n \in DOMAIN final[i]} :
         /\ \A e \in f.done : delivered[i][e] > 0
         /\ f.status = "sent" => f.done = Endpoints
         /\ f.status = "failed" =>
              \/ f.rejected # {} /\ f.done \cup f.rejected = Endpoints
              \/ f.attempt = MaxRetries
    /\ \A r \in job[i] : \A n \in 1 .. r.attempt : <<i, n, "failed">> \in attempts
\* An endpoint that took a notification gets it again only after a lapsed
\* lease, a cancelled delivery, a lost answer or a restart (_process_task).
RepeatsExplained == \A i \in Ids, e \in Endpoints : delivered[i][e] <= 1 + faults
\* The tracker's outcome of an accepted notification is the logged one.
TrackerRight ==
  \A p \in Procs, i \in Ids : Accepted(i) /\ tracker[p][i] \in Terminal =>
    final[i] # <<>> /\ final[i][1].status = tracker[p][i]
NotificationSound == TypeOK /\ AdmittedOnce /\ OutcomeRight /\ RepeatsExplained /\ TrackerRight
=============================================================================
