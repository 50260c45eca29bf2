---------------------------- MODULE RateLimiter -----------------------------
(***************************************************************************)
(* The rate limiter: requests checked against several rules (core.py), the *)
(* five algorithms (algorithms/), the two storage backends with their      *)
(* clocks and expiry (storage/), rule reloading (rule_files.py) and the    *)
(* paced execution queue (queue.py).                                       *)
(*                                                                         *)
(* A rule is [algorithm, limit, window, capacity] (capacity 0: not given). *)
(* Times are whole seconds.  Tokens and occupancy are kept in units of     *)
(* 1/window, so that the rate limit/window is limit units a second.        *)
(***************************************************************************)
EXTENDS Integers, Sequences, FiniteSets, SequencesExt, FiniteSetsExt

CONSTANTS Memory,            \* the backend: MemoryStorage or RedisStorage
          FailOpen,          \* allow a request when storage fails
          MaxKeys,           \* keys MemoryStorage may hold
          Subjects,          \* resolved keys of the requests
          RuleSets,          \* sequences of rules that may be published
          First,             \* the rules at the start
          Decorated,         \* rules of decorated functions
          Clients,           \* threads that check requests
          Jumps,             \* steps the wall clock may make
          Tasks, Interval, Capacity,  \* LeakyBucketQueue
          MaxCalls, MaxTime, MaxFaults, MaxReloads

VARIABLES store,     \* live keys <<subject, rule, slot>> -> [value, until]
          mono, offset,      \* monotonic clock; wall clock minus monotonic clock
          rules, file, digest,
          client,    \* thread -> the request it checks
          metrics,
          fifo, future, worker, stop, owner,
          granted,   \* history: <<subject, rule>> -> times its requests passed
          charged,   \* history: how often an execution charged the state
          answer,    \* history: thread -> {} or its last denial
          starts,    \* history: tasks started, with the time
          order,     \* history: tasks in the order of submission
          ahead,     \* history: steps forward of the wall clock
          calls, reloads, faults

storage == <<store, granted, charged, metrics>>
clocks == <<mono, offset, ahead>>
config == <<rules, file, digest, reloads>>
requests == <<client, answer, calls>>
queue == <<fifo, future, worker, stop, owner, starts, order>>
vars == <<storage, clocks, config, requests, queue, faults>>

AllRules == UNION {ToSet(s) : s \in RuleSets \cup {First}} \cup Decorated
States == Subjects \X AllRules
CapacityOf(r) == IF r.capacity = 0 THEN r.limit ELSE r.capacity
Buckets == {"token_bucket", "leaking_bucket"}

Assumption ==
    /\ Jumps \subseteq Int /\ Memory \in BOOLEAN /\ FailOpen \in BOOLEAN /\ MaxKeys >= 4
    /\ \A r \in AllRules :
         /\ r.limit > 0 /\ r.window > 0 /\ r.capacity >= 0
         /\ r.capacity > 0 => r.algorithm \in Buckets
    /\ Tasks # {} => Capacity > 0 /\ Interval > 0

CeilDiv(a, b) == (a + b - 1) \div b
Larger(a, b) == IF a > b THEN a ELSE b
Smaller(a, b) == IF a < b THEN a ELSE b
Wall == mono + offset
\* MemoryStorage expires keys by the monotonic clock, Redis by its server's time.
ExpiryClock == IF Memory THEN mono ELSE Wall
Unexpired(s, t) == [k \in {x \in DOMAIN s : t < s[x].until} |-> s[k]]

\* A stored value is a list: the log, or a number alone.
Entries(k, slot) == IF <<k, slot>> \in DOMAIN store THEN store[<<k, slot>>].value ELSE <<>>
Get(k, slot, default) == IF Entries(k, slot) = <<>> THEN default ELSE Head(Entries(k, slot))
SetEntries(slot, value, ttl) == [slot |-> slot, value |-> value, ttl |-> ttl]
Set(slot, number, ttl) == SetEntries(slot, <<number>>, ttl)
Decision(allowed, remaining, retry, writes) ==
    [allowed |-> allowed, remaining |-> remaining, retry |-> retry, writes |-> writes]

\* int(capacity / rate) + 1 in Python, ceil(capacity / rate) + 1 in Lua.
BucketTtl(r) ==
    LET units == CapacityOf(r) * r.window
    IN  (IF Memory THEN units \div r.limit ELSE CeilDiv(units, r.limit)) + 1

TokenBucket(k, r, t) ==
    LET full == CapacityOf(r) * r.window
        had == Get(k, <<"tokens", 0>>, full)
        last == Get(k, <<"last_refill", 0>>, t)
        tokens == IF t > last THEN Smaller(full, had + (t - last) * r.limit) ELSE had
        allowed == tokens >= r.window
        left == IF allowed THEN tokens - r.window ELSE tokens
    IN  Decision(allowed, IF allowed THEN left \div r.window ELSE 0,
                 IF allowed THEN 0 ELSE CeilDiv(r.window - tokens, r.limit),
                 <<Set(<<"tokens", 0>>, left, BucketTtl(r)), Set(<<"last_refill", 0>>, t, BucketTtl(r))>>)

LeakingBucket(k, r, t) ==
    LET full == CapacityOf(r) * r.window
        had == Get(k, <<"queue_count", 0>>, 0)
        last == Get(k, <<"last_drain", 0>>, t)
        count == IF t > last THEN Larger(0, had - (t - last) * r.limit) ELSE had
        allowed == count + r.window <= full
        left == IF allowed THEN count + r.window ELSE count
    IN  Decision(allowed, IF allowed THEN (full - left) \div r.window ELSE 0,
                 IF allowed THEN 0 ELSE CeilDiv(count - full + r.window, r.limit),
                 <<Set(<<"queue_count", 0>>, left, BucketTtl(r)), Set(<<"last_drain", 0>>, t, BucketTtl(r))>>)

WindowStart(r, t) == (t \div r.window) * r.window

FixedWindow(k, r, t) ==
    LET current == WindowStart(r, t)
        counter == IF Get(k, <<"window_start", 0>>, current) = current THEN Get(k, <<"counter", 0>>, 0) ELSE 0
        allowed == counter < r.limit
        count == IF allowed THEN counter + 1 ELSE counter
    IN  Decision(allowed, IF allowed THEN r.limit - count ELSE 0,
                 IF allowed THEN 0 ELSE current + r.window - t,
                 <<Set(<<"window_start", 0>>, current, r.window + 1), Set(<<"counter", 0>>, count, r.window + 1)>>)

SlidingWindowLog(k, r, t) ==
    LET Recent(ts) == ts > t - r.window
        entries == SelectSeq(Entries(k, <<"log", 0>>), Recent)
        allowed == Len(entries) < r.limit
        log == IF allowed THEN Append(entries, t) ELSE entries
    IN  Decision(allowed, r.limit - Len(log),
                 IF allowed THEN 0 ELSE Min(ToSet(entries)) + r.window - t,
                 <<SetEntries(<<"log", 0>>, log, r.window + 1)>>)

SlidingWindowCounter(k, r, t) ==
    LET start == WindowStart(r, t)
        current == Get(k, <<"swc", start>>, 0)
        previous == Get(k, <<"swc", start - r.window>>, 0)
        sliding == current * r.window + previous * (r.window - (t - start))
        allowed == sliding < r.limit * r.window
    IN  Decision(allowed, IF allowed THEN r.limit - sliding \div r.window - 1 ELSE 0,
                 IF allowed THEN 0 ELSE start + r.window - t,
                 IF allowed THEN <<Set(<<"swc", start>>, current + 1, 2 * r.window)>> ELSE <<>>)

Algorithm(k, r, t) ==
    CASE r.algorithm = "token_bucket" -> TokenBucket(k, r, t)
      [] r.algorithm = "leaking_bucket" -> LeakingBucket(k, r, t)
      [] r.algorithm = "fixed_window" -> FixedWindow(k, r, t)
      [] r.algorithm = "sliding_window_log" -> SlidingWindowLog(k, r, t)
      [] r.algorithm = "sliding_window_counter" -> SlidingWindowCounter(k, r, t)

\* The TTL argument each algorithm appends for the clock key.
ClockTtl(r) ==
    IF r.algorithm \in Buckets
    THEN 2 * Larger(r.window, CeilDiv(CapacityOf(r) * r.window, r.limit)) + 1
    ELSE 2 * r.window + 1
\* A check that does not remember the time of the last one.
Now_WallOnly(k) == Wall

\* The time of a check: the wall clock, never before the last check of the state.
Now(k) == Larger(Wall, Get(k, <<"clock-v2", 0>>, Wall))

\* execute_algorithm: the decision, delayed by what the clock went back, and the
\* writes, the clock last.
Executed(k) ==
    LET r == k[2]  t == Now(k)  d == Algorithm(k, r, t)
    IN  [d EXCEPT !.retry = IF d.allowed THEN 0 ELSE d.retry + t - Wall,
                  !.writes = Append(d.writes, Set(<<"clock-v2", 0>>, t, ClockTtl(r)))]

\* The writes take effect one by one until one finds MemoryStorage full.
KeysOf(k, writes) == {<<k, w.slot>> : w \in ToSet(writes)}
Fitting(k, writes) ==
    IF Memory THEN Max({i \in 0..Len(writes) :
                          \A j \in 0..i : Cardinality(DOMAIN store \cup KeysOf(k, SubSeq(writes, 1, j))) <= MaxKeys})
    ELSE Len(writes)
Written(k, writes) ==
    LET Entry(w) == [value |-> w.value, until |-> ExpiryClock + w.ttl]
    IN  [x \in DOMAIN store \cup KeysOf(k, writes) |->
           IF x \in KeysOf(k, writes) THEN Entry(CHOOSE w \in ToSet(writes) : <<k, w.slot>> = x)
           ELSE store[x]]

\* RateLimitResult.from_storage accepts what the script returned.
WellFormed(d, r) ==
    /\ d.remaining \in 0..CapacityOf(r) /\ d.retry >= 0
    /\ d.allowed <=> d.retry = 0
    /\ ~d.allowed => d.remaining = 0

\* A result; history: the clock's offset and how many requests had passed.
Result(k, allowed, retry, failed) ==
    [rule |-> k[2], allowed |-> allowed, retry |-> retry, failed |-> failed,
     offset |-> offset, passed |-> charged[k]]
Failure(k) == Result(k, FailOpen, IF FailOpen THEN 0 ELSE k[2].window, TRUE)

-----------------------------------------------------------------------------
\* A request: check_request takes the rules, then evaluates them one by one.

Waits(c) == client[c].pc = "idle"

Check(c, s, todo) ==
    /\ Waits(c) /\ calls < MaxCalls
    /\ client' = [client EXCEPT ![c] = [pc |-> "checking", subject |-> s, todo |-> todo, results |-> <<>>]]
    /\ calls' = calls + 1
    /\ answer' = [answer EXCEPT ![c] = {}]
    /\ UNCHANGED <<storage, clocks, config, queue, faults>>

\* A request through the middleware; a call of a decorated function.
Arrive(c, s) == Check(c, s, rules)
Call(c, s, r) == Check(c, s, <<r>>)

Seen(c) == {client[c].results[i].rule : i \in 1..Len(client[c].results)}

\* One rule, by _evaluate; a Redis call may fail before or after it was executed.
Evaluate(c, outcome) ==
    /\ client[c].pc = "checking" /\ client[c].todo # <<>>
    /\ Head(client[c].todo) \notin Seen(c)
    /\ outcome # "ok" => ~Memory /\ faults < MaxFaults
    /\ faults' = faults + (IF outcome = "ok" THEN 0 ELSE 1)
    /\ \E k \in {<<client[c].subject, Head(client[c].todo)>>} : \E d \in {Executed(k)} :
       \E n \in {Fitting(k, d.writes)} :
       \E failed \in {outcome # "ok" \/ n < Len(d.writes) \/ ~WellFormed(d, k[2])} :
       \E result \in {IF failed THEN Failure(k) ELSE Result(k, d.allowed, d.retry, FALSE)} :
         /\ store' = IF outcome = "refused" THEN store ELSE Written(k, SubSeq(d.writes, 1, n))
         /\ granted' = IF ~failed /\ d.allowed THEN [granted EXCEPT ![k] = Append(@, mono + ahead)] ELSE granted
         /\ charged' = IF d.allowed /\ outcome # "refused" THEN [charged EXCEPT ![k] = @ + 1] ELSE charged
         /\ metrics' = [allowed |-> metrics.allowed + (IF result.allowed THEN 1 ELSE 0),
                        denied |-> metrics.denied + (IF result.allowed THEN 0 ELSE 1),
                        errors |-> metrics.errors + (IF failed THEN 1 ELSE 0)]
         /\ client' = [client EXCEPT ![c].todo = Tail(@), ![c].results = Append(@, result)]
    /\ UNCHANGED <<clocks, config, answer, calls, queue>>

SkipSeen(c) ==
    /\ client[c].pc = "checking" /\ client[c].todo # <<>>
    /\ Head(client[c].todo) \in Seen(c)
    /\ client' = [client EXCEPT ![c].todo = Tail(@)]
    /\ UNCHANGED <<storage, clocks, config, answer, calls, queue, faults>>

Denied(results) == {x \in ToSet(results) : ~x.allowed}
\* A denial wins over every allowance, and the longest delay over the others.
RetryAfter(results) == Max({x.retry : x \in Denied(results)})

Respond(c) ==
    /\ client[c].pc = "checking" /\ client[c].todo = <<>>
    /\ client' = [client EXCEPT ![c] = [pc |-> "idle", subject |-> client[c].subject, todo |-> <<>>, results |-> <<>>]]
    /\ answer' = [answer EXCEPT ![c] =
         IF Denied(client[c].results) = {} THEN {}
         ELSE {[subject |-> client[c].subject, due |-> mono + RetryAfter(client[c].results),
                denied |-> Denied(client[c].results)]}]
    /\ UNCHANGED <<storage, clocks, config, calls, queue, faults>>

-----------------------------------------------------------------------------
\* Rules.

UpdateRules(s) ==
    /\ reloads < MaxReloads /\ s # rules
    /\ rules' = s /\ reloads' = reloads + 1
    /\ UNCHANGED <<storage, clocks, file, digest, requests, queue, faults>>

\* An operator replaces the rule file, also by one that is not valid: {}.
ReplaceFile(f) ==
    /\ reloads < MaxReloads /\ f # file
    /\ file' = f /\ reloads' = reloads + 1
    /\ UNCHANGED <<storage, clocks, rules, digest, requests, queue, faults>>

Poll ==
    /\ file # {} /\ file # digest
    /\ rules' = CHOOSE s \in file : TRUE
    /\ digest' = file
    /\ UNCHANGED <<storage, clocks, file, reloads, requests, queue, faults>>

-----------------------------------------------------------------------------
\* LeakyBucketQueue.

Start ==
    /\ Tasks # {} /\ worker.pc = "off" /\ ~stop
    /\ worker' = [worker EXCEPT !.pc = "top", !.next = mono]
    /\ UNCHANGED <<storage, clocks, config, requests, fifo, future, stop, owner, starts, order, faults>>

Submit(x) ==
    /\ ~stop /\ future[x] = "none" /\ Len(fifo) < Capacity
    /\ fifo' = Append(fifo, x)
    /\ future' = [future EXCEPT ![x] = "pending"]
    /\ order' = Append(order, x)
    /\ UNCHANGED <<storage, clocks, config, requests, worker, stop, owner, starts, faults>>

\* The submitter cancels its Future.
CancelFuture(x) ==
    /\ future[x] = "pending"
    /\ future' = [future EXCEPT ![x] = "cancelled"]
    /\ UNCHANGED <<storage, clocks, config, requests, fifo, worker, stop, owner, starts, order, faults>>

WorkerTop ==
    /\ worker.pc = "top"
    /\ worker' = [worker EXCEPT !.pc = IF stop THEN "end" ELSE "get"]
    /\ UNCHANGED <<storage, clocks, config, requests, fifo, future, stop, owner, starts, order, faults>>

WorkerGet ==
    /\ worker.pc = "get"
    /\ \/ /\ fifo # <<>>
          /\ worker' = [worker EXCEPT !.pc = "wait", !.task = {Head(fifo)}]
          /\ fifo' = Tail(fifo)
       \/ fifo = <<>> /\ worker' = [worker EXCEPT !.pc = "top"] /\ UNCHANGED fifo
    /\ UNCHANGED <<storage, clocks, config, requests, future, stop, owner, starts, order, faults>>

Due == mono >= worker.next

WorkerWait ==
    /\ worker.pc = "wait" /\ (stop \/ Due)
    /\ LET x == CHOOSE y \in worker.task : TRUE
       IN  \/ /\ stop \/ future[x] = "cancelled"
              /\ future' = [future EXCEPT ![x] = "cancelled"]
              /\ worker' = [worker EXCEPT !.pc = "top", !.task = {}]
              /\ UNCHANGED starts
           \/ /\ ~stop /\ future[x] = "pending"
              /\ future' = [future EXCEPT ![x] = "running"]
              /\ worker' = [worker EXCEPT !.pc = "run", !.next = mono + Interval]
              /\ starts' = Append(starts, [task |-> x, at |-> mono])
    /\ UNCHANGED <<storage, clocks, config, requests, fifo, stop, owner, order, faults>>

WorkerRun ==
    /\ worker.pc = "run"
    /\ future' = [x \in Tasks |-> IF x \in worker.task THEN "done" ELSE future[x]]
    /\ worker' = [worker EXCEPT !.pc = "top", !.task = {}]
    /\ UNCHANGED <<storage, clocks, config, requests, fifo, stop, owner, starts, order, faults>>

BeginClose ==
    /\ owner = "open" /\ Tasks # {}
    /\ stop' = TRUE /\ owner' = "draining"
    /\ UNCHANGED <<storage, clocks, config, requests, fifo, future, worker, starts, order, faults>>

Drain ==
    /\ owner = "draining"
    /\ \/ /\ fifo # <<>>
          /\ fifo' = Tail(fifo)
          /\ future' = [future EXCEPT ![Head(fifo)] = "cancelled"]
          /\ UNCHANGED owner
       \/ fifo = <<>> /\ owner' = "joining" /\ UNCHANGED <<fifo, future>>
    /\ UNCHANGED <<storage, clocks, config, requests, worker, stop, starts, order, faults>>

Join ==
    /\ owner = "joining" /\ worker.pc \in {"off", "end"}
    /\ owner' = "closed"
    /\ UNCHANGED <<storage, clocks, config, requests, fifo, future, worker, stop, starts, order, faults>>

-----------------------------------------------------------------------------
\* Time passes; keys that expire are dropped when they are next looked at.
Tick ==
    /\ mono < MaxTime /\ mono' = mono + 1
    /\ store' = Unexpired(store, ExpiryClock + 1)
    /\ UNCHANGED <<offset, ahead, granted, charged, metrics, config, requests, queue, faults>>

\* The wall clock is set; the keys of Redis expire with it.
Jump(j) ==
    /\ faults < MaxFaults /\ Wall + j >= 0
    /\ offset' = offset + j /\ ahead' = ahead + Larger(0, j)
    /\ store' = IF Memory THEN store ELSE Unexpired(store, Wall + j)
    /\ faults' = faults + 1
    /\ UNCHANGED <<mono, granted, charged, metrics, config, requests, queue>>

Init ==
    /\ store = <<>> /\ mono = 0 /\ offset = 0 /\ ahead = 0
    /\ rules = First /\ file = {First} /\ digest = {}
    /\ client = [c \in Clients |-> [pc |-> "idle", subject |-> CHOOSE s \in Subjects : TRUE,
                                    todo |-> <<>>, results |-> <<>>]]
    /\ metrics = [allowed |-> 0, denied |-> 0, errors |-> 0]
    /\ fifo = <<>> /\ future = [x \in Tasks |-> "none"] /\ stop = FALSE /\ owner = "open"
    /\ worker = [pc |-> "off", task |-> {}, next |-> 0]
    /\ granted = [k \in States |-> <<>>] /\ charged = [k \in States |-> 0] /\ answer = [c \in Clients |-> {}]
    /\ starts = <<>> /\ order = <<>>
    /\ calls = 0 /\ reloads = 0 /\ faults = 0

Next ==
    \/ \E c \in Clients :
         \/ \E s \in Subjects : Arrive(c, s) \/ \E r \in Decorated : Call(c, s, r)
         \/ \E o \in {"ok", "refused", "lost"} : Evaluate(c, o)
         \/ SkipSeen(c) \/ Respond(c)
    \/ \E s \in RuleSets : UpdateRules(s)
    \/ \E f \in {{s} : s \in RuleSets} \cup {{}} : ReplaceFile(f)
    \/ MaxReloads > 0 /\ Poll
    \/ Start \/ \E x \in Tasks : Submit(x) \/ CancelFuture(x)
    \/ WorkerTop \/ WorkerGet \/ WorkerWait \/ WorkerRun
    \/ BeginClose \/ Drain \/ Join
    \/ Tick \/ \E j \in Jumps : Jump(j)

-----------------------------------------------------------------------------
TypeOK ==
    /\ \A x \in DOMAIN store : x[1] \in States /\ store[x].until > ExpiryClock
    /\ Memory => Cardinality(DOMAIN store) <= MaxKeys
    /\ rules \in RuleSets \cup {First} /\ file \in {{s} : s \in RuleSets \cup {First}} \cup {{}}
    /\ \A x \in Tasks : future[x] \in {"none", "pending", "running", "done", "cancelled"}
    /\ worker.pc \in {"off", "top", "get", "wait", "run", "end"}
    /\ owner \in {"open", "draining", "joining", "closed"} /\ (stop <=> owner # "open")
    /\ faults \in 0..MaxFaults /\ calls \in 0..MaxCalls

\* How many requests a state may pass while its clock advances by d seconds: a
\* bucket its capacity and what is refilled; a fixed window its limit twice, around
\* a boundary; the log its limit in every window; the counter its limit, the
\* weighted share of it and one (README.md, "Algorithms").
Allowance(r, d) ==
    CASE r.algorithm \in Buckets -> CapacityOf(r) + (d * r.limit) \div r.window
      [] r.algorithm = "fixed_window" -> 2 * r.limit + (d \div r.window) * r.limit
      [] r.algorithm = "sliding_window_log" -> r.limit + (d \div r.window) * r.limit
      [] OTHER -> r.limit + (d * r.limit) \div r.window + 1

\* No stretch of time sees more requests pass a rule than its algorithm promises,
\* whichever threads sent them, however often state expired or the wall clock was
\* set back, and whatever writes or answers were lost (storage/clocks.py).
LimitsKept ==
    \A k \in States : \A i, j \in 1..Len(granted[k]) :
        i <= j => j - i + 1 <= Allowance(k[2], granted[k][j] - granted[k][i])

\* After the delay of a denial every rule that denied the request lets one pass,
\* unless others came first or the clock was set (core.py _most_restrictive_result).
\* The delay of the sliding counter is the next boundary, which promises less.
RetryHelps ==
    \A c \in Clients : \A a \in answer[c] :
        mono >= a.due => \A x \in a.denied :
            LET k == <<a.subject, x.rule>>
            IN  /\ ~x.failed /\ x.rule.algorithm # "sliding_window_counter"
                /\ offset = x.offset /\ charged[k] = x.passed
                => Executed(k).allowed

\* What the scripts return is always accepted, and the counters tell how requests
\* passed (base.py from_storage, core.py _evaluate).
ResultsAccepted ==
    /\ \A k \in States : \A d \in {Executed(k)} : WellFormed(d, k[2])
    /\ metrics.allowed = FoldSet(LAMBDA k, n : n + Len(granted[k]), 0, States)
                         + (IF FailOpen THEN metrics.errors ELSE 0)

\* Tasks start in the order of submission and an interval apart, and when close
\* returns every Future has its outcome (queue.py).
Paced ==
    /\ \A i, j \in 1..Len(starts) : i < j =>
         /\ starts[j].at >= starts[i].at + Interval
         /\ \E a, b \in 1..Len(order) : a < b /\ order[a] = starts[i].task /\ order[b] = starts[j].task
    /\ owner = "closed" => \A x \in Tasks : future[x] \in {"none", "done", "cancelled"}

RateLimiterSound == TypeOK /\ LimitsKept /\ RetryHelps /\ ResultsAccepted /\ Paced
=============================================================================
