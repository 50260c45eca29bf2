----------------------------- MODULE WebCrawler -----------------------------
(***************************************************************************)
(* The web crawler: the batch loop and its tasks (crawler.py), the durable *)
(* frontier with its lock, journal and snapshots (state.py), the in-memory *)
(* frontier with its ready and wake-up heaps (frontier.py), the robots     *)
(* cache (robots.py) and the host partition (partition.py).                *)
(*                                                                         *)
(* Durable selects the frontier.  URLs are numbers, ordered as the code    *)
(* orders their text; a page is [print, links], its bytes being the print. *)
(***************************************************************************)
EXTENDS Integers, Sequences, FiniteSets, SequencesExt, FiniteSetsExt

CONSTANTS Durable,
          Urls, HostOf,       \* URLs and their hosts
          Seeds,              \* sequence of seed URLs of a batch
          PagesOf,            \* URL -> pages the site may serve, or redirects
          RobotsOf,           \* host -> URLs its robots.txt allows
          Accepted,           \* URLs the filter accepts
          Ring, PlaceOf, Me,  \* partition points [pos, node]; host -> position
          Slots,              \* concurrent tasks
          MaxPages, MaxDepth, MaxRetries, Delay, RetryDelay, Interval, RobotsTTL,
          MaxRuns, MaxTime, MaxFaults

VARIABLES running,      \* "closed", "seeding", "open" or "stopping"
          seeds,        \* seeds still to enqueue
          jobs,         \* durable: URL -> {} or its row
          hosts,        \* host -> time it is ready again
          prints,       \* durable: stored fingerprints
          snapshots,    \* durable: stored pages, in order
          active,       \* reserved hosts
          queued,       \* in memory: entries with their enqueue order
          front,        \* in memory: published host heads
          waiting,      \* in memory: host -> {} or its wake-up time
          delayed,      \* in memory: wake-up heap
          seen,         \* in memory: enqueued URLs
          contents,     \* fingerprints seen by this process
          claims,       \* fingerprint -> {} or the task storing it
          robots,       \* host -> {} or the cached rules
          task,         \* slot -> task
          attempted,    \* results of the batch
          routed,       \* URLs handed to their owners
          counter,      \* rows and entries so far
          finished,     \* history: acknowledged results [url, status]
          expanded,     \* history: URL -> links of the page last acknowledged
          ended,        \* host -> {} or the end of its last request
          polite,       \* history: every request kept the delay
          obeyed,       \* history: every fetch was allowed and owned
          runs, now, faults

journal == <<jobs, hosts, prints, snapshots>>
memory == <<queued, front, waiting, delayed, seen>>
history == <<finished, expanded, ended, polite, obeyed>>
vars == <<running, seeds, journal, active, memory, contents, claims, robots, task, attempted, routed,
          counter, history, runs, now, faults>>

Hosts == {HostOf[u] : u \in Urls}
Prints == UNION {{p.print : p \in PagesOf[u]} : u \in Urls}

Assumption ==
    /\ MaxPages > 0 /\ MaxDepth >= 0 /\ MaxRetries >= 0 /\ Delay > 0 /\ RetryDelay > 0
    /\ Ring # {} /\ Interval >= 0
    /\ \A p, q \in Ring : p.pos = q.pos => p = q

Fault == faults < MaxFaults /\ faults' = faults + 1

---------------------------------------------------------------------------
(* The partition: the first point clockwise of the host *)

Owner(u) ==
    LET after  == {p \in Ring : p.pos >= PlaceOf[HostOf[u]]}
        chosen == IF after = {} THEN Ring ELSE after
    IN (CHOOSE p \in chosen : \A q \in chosen : p.pos <= q.pos).node

---------------------------------------------------------------------------
(* The durable frontier *)

NewRow(n, prio, depth) ==
    [n |-> n, prio |-> prio, depth |-> depth, state |-> "pending", due |-> 0, attempts |-> 0,
     print |-> {}, unchanged |-> 0, last |-> ""]

Row(u) == CHOOSE r \in jobs[u] : TRUE

\* One candidate per eligible host, by priority and age; then priority and URL.
Ready(u) ==
    /\ \E r \in jobs[u] : r.state = "pending" /\ r.due <= now
    /\ HostOf[u] \notin active /\ hosts[HostOf[u]] <= now
HeadOfHost(u) ==
    \A v \in Urls : HostOf[v] = HostOf[u] /\ Ready(v) /\ v # u =>
       \/ Row(u).prio < Row(v).prio
       \/ Row(u).prio = Row(v).prio /\ Row(u).n < Row(v).n
Heads == {u \in Urls : Ready(u) /\ HeadOfHost(u)}
Candidates ==
    {u \in Heads : \A v \in Heads \ {u} :
        Row(u).prio < Row(v).prio \/ (Row(u).prio = Row(v).prio /\ u < v)}

---------------------------------------------------------------------------
(* The in-memory frontier, as operators on its record *)

Frontier == [queued |-> queued, front |-> front, waiting |-> waiting, delayed |-> delayed]
SetFrontier(f) ==
    queued' = f.queued /\ front' = f.front /\ waiting' = f.waiting /\ delayed' = f.delayed

Before(a, b) == a.prio < b.prio \/ (a.prio = b.prio /\ a.n < b.n)
HeadIn(f, h) ==
    LET q == {e \in f.queued : HostOf[e.url] = h} IN {e \in q : \A o \in q \ {e} : Before(e, o)}

\* Publish the head of a host, or set its alarm; a host that is busy or
\* already waiting is left alone.
Schedule(f, h, busy, last) ==
    IF h \in busy \/ f.waiting[h] # {} \/ HeadIn(f, h) = {} THEN f
    ELSE IF \E t \in last : t + Delay > now
    THEN LET due == (CHOOSE t \in last : TRUE) + Delay
         IN [f EXCEPT !.waiting[h] = {due}, !.delayed = @ \cup {[due |-> due, host |-> h]}]
    ELSE [f EXCEPT !.front = @ \cup HeadIn(f, h)]

\* Only a new head is scheduled.
Queue(f, e) ==
    LET g == [f EXCEPT !.queued = @ \cup {e}] IN
    IF e \in HeadIn(g, HostOf[e.url]) THEN Schedule(g, HostOf[e.url], active, ended[HostOf[e.url]])
    ELSE g

\* Alarms that are due wake their hosts, unless they were set again.
Wake(f, a) ==
    LET g == [f EXCEPT !.delayed = @ \ {a}] IN
    IF f.waiting[a.host] = {a.due}
    THEN Schedule([g EXCEPT !.waiting[a.host] = {}], a.host, active, ended[a.host])
    ELSE g
Woken == FoldSet(LAMBDA a, f : Wake(f, a), Frontier, {a \in delayed : a.due <= now})

\* Superseded heads and heads of busy or waiting hosts are dropped on the way.
Live(f, e) ==
    LET h == HostOf[e.url] IN e \in HeadIn(f, h) /\ h \notin active /\ f.waiting[h] = {}
Popped(f) == {e \in f.front : Live(f, e) /\ \A o \in f.front : Live(f, o) /\ o # e => Before(e, o)}

\* The request ends now: the old alarm is forgotten and a new one set.
Completed(f, h, busy) == Schedule([f EXCEPT !.waiting[h] = {}], h, busy, {now})

---------------------------------------------------------------------------
(* Enqueueing *)

Eligible(u, depth) == depth <= MaxDepth /\ u \in Accepted

\* Depth and filter; a known URL is left as it is.
Enqueue(u, prio, depth) ==
    IF ~Eligible(u, depth) THEN UNCHANGED <<jobs, memory, counter>>
    ELSE IF Durable
    THEN /\ jobs' = IF jobs[u] # {} THEN jobs
                    ELSE [jobs EXCEPT ![u] = {NewRow(counter, prio, depth)}]
         /\ counter' = IF jobs[u] = {} THEN counter + 1 ELSE counter
         /\ UNCHANGED memory
    ELSE IF u \in seen THEN UNCHANGED <<jobs, memory, counter>>
    ELSE /\ seen' = seen \cup {u}
         /\ SetFrontier(Queue(Frontier, [url |-> u, prio |-> prio, depth |-> depth, n |-> counter]))
         /\ counter' = counter + 1
         /\ UNCHANGED jobs

---------------------------------------------------------------------------
(* The batch *)

NoTask == [pc |-> "none", url |-> 0, prio |-> 0, depth |-> 0, links |-> <<>>, found |-> {},
           status |-> "", print |-> {}, cancelled |-> FALSE]

Busy == {s \in Slots : task[s].pc # "none"}

\* The lock admits one owner.  Work in flight at a crash is pending again, and
\* due recrawls are released.
Reopened ==
    [u \in Urls |-> {[r EXCEPT
        !.state = IF @ = "inflight" \/ (@ = "done" /\ Interval > 0 /\ r.due > 0 /\ r.due <= now)
                  THEN "pending" ELSE @,
        !.due = IF r.state = "inflight" THEN 0 ELSE @,
        !.attempts = IF r.state = "done" /\ Interval > 0 /\ r.due > 0 /\ r.due <= now THEN 0 ELSE @]
        : r \in jobs[u]}]

Open ==
    /\ running = "closed" /\ runs < MaxRuns
    /\ running' = "seeding"
    /\ runs' = runs + 1 /\ attempted' = 0
    /\ IF Durable THEN /\ jobs' = Reopened /\ active' = {} /\ contents' = {}
       ELSE UNCHANGED <<jobs, active, contents>>
    /\ seeds' = Seeds
    /\ UNCHANGED <<hosts, prints, snapshots, memory, claims, robots, task, routed, counter,
                   history, now, faults>>

Seed ==
    /\ running = "seeding"
    /\ IF seeds = <<>>
       THEN running' = "open" /\ UNCHANGED <<jobs, memory, counter, seeds>>
       ELSE /\ Enqueue(Head(seeds), 0, 0)
            /\ seeds' = Tail(seeds)
            /\ UNCHANGED running
    /\ UNCHANGED <<hosts, prints, snapshots, active, contents, claims, robots, task, attempted,
                   routed, history, runs, now, faults>>

\* A reserved URL becomes a task; its row counts the attempt.
TaskOf(u, prio, depth) == [NoTask EXCEPT !.pc = "start", !.url = u, !.prio = prio, !.depth = depth]

Start(s) ==
    /\ running = "open"
    /\ task[s].pc = "none"
    /\ attempted + Cardinality(Busy) < MaxPages
    /\ IF Durable
       THEN \E u \in Candidates :
               /\ jobs' = [jobs EXCEPT ![u] =
                     {[r EXCEPT !.state = "inflight", !.attempts = @ + 1] : r \in @}]
               /\ active' = active \cup {HostOf[u]}
               /\ task' = [task EXCEPT ![s] = TaskOf(u, Row(u).prio, Row(u).depth)]
               /\ UNCHANGED memory
       ELSE \E e \in Popped(Woken) :
               /\ SetFrontier([Woken EXCEPT !.queued = @ \ {e},
                                  !.front = {o \in @ : o # e /\ (Live(Woken, o) \/ Before(e, o))}])
               /\ active' = active \cup {HostOf[e.url]}
               /\ task' = [task EXCEPT ![s] = TaskOf(e.url, e.prio, e.depth)]
               /\ UNCHANGED <<jobs, seen>>
    /\ polite' = (polite /\ LET h == HostOf[task'[s].url] IN
                               /\ \A t \in ended[h] : t + Delay <= now
                               /\ \A x \in Busy : task[x].pc # "committed" => HostOf[task[x].url] # h)
    /\ UNCHANGED <<running, seeds, hosts, prints, snapshots, contents, claims, robots, attempted,
                   routed, counter, finished, expanded, ended, obeyed, runs, now, faults>>

\* Polling the in-memory frontier without a ready entry also empties its heaps.
PollNothing ==
    /\ running = "open" /\ ~Durable
    /\ Popped(Woken) = {}
    /\ Frontier # [Woken EXCEPT !.front = {}]
    /\ SetFrontier([Woken EXCEPT !.front = {}])
    /\ UNCHANGED <<running, seeds, journal, active, seen, contents, claims, robots, task,
                   attempted, routed, counter, history, runs, now, faults>>

\* The batch ends when nothing is left, when it is full, or when it is cancelled.
Empty == IF Durable THEN \A u \in Urls : \A r \in jobs[u] : r.state = "done" ELSE queued = {}

Ends(interrupted) ==
    /\ running = "open" \/ (running = "seeding" /\ interrupted)
    /\ IF interrupted THEN Fault
       ELSE (attempted >= MaxPages \/ (Empty /\ Busy = {})) /\ UNCHANGED faults
    /\ running' = "stopping"
    /\ task' = [s \in Slots |-> [task[s] EXCEPT !.cancelled = (s \in Busy)]]
    /\ UNCHANGED <<seeds, journal, active, memory, contents, claims, robots, attempted, routed,
                   counter, history, runs, now>>

Close ==
    /\ running = "stopping" /\ Busy = {}
    /\ running' = "closed"
    /\ active' = IF Durable THEN {} ELSE active
    /\ UNCHANGED <<seeds, journal, memory, contents, claims, robots, task, attempted, routed,
                   counter, history, runs, now, faults>>

\* The process dies; the operating system releases the lock.
Crash ==
    /\ Durable /\ running # "closed"
    /\ Fault
    /\ running' = "closed"
    /\ task' = [s \in Slots |-> NoTask]
    /\ active' = {} /\ contents' = {} /\ attempted' = 0
    /\ claims' = [p \in Prints |-> {}] /\ robots' = [h \in Hosts |-> {}]
    /\ ended' = [h \in Hosts |-> IF h \in active THEN {} ELSE ended[h]]
    /\ UNCHANGED <<seeds, journal, memory, routed, counter, finished, expanded, polite, obeyed,
                   runs, now>>

---------------------------------------------------------------------------
(* A task *)

Result(s, status) == task' = [task EXCEPT ![s].pc = "finish", ![s].status = status]

\* Another owner's URL is handed over before it is acknowledged.
Route(s) ==
    /\ task[s].pc = "start" /\ Owner(task[s].url) # Me /\ ~task[s].cancelled
    /\ \/ /\ routed' = routed \cup {task[s].url}
          /\ Result(s, "filtered") /\ UNCHANGED faults
       \/ Fault /\ Result(s, "error") /\ UNCHANGED routed
    /\ UNCHANGED <<running, seeds, journal, active, memory, contents, claims, robots, attempted,
                   counter, history, runs, now>>

\* The rules that match the URL allow it.
Allows(loaded, u) == \A c \in loaded : u \in c.allowed

\* robots.txt from the cache, or fetched; when it cannot be, all is allowed.
\* A check that takes too long is an error.
CheckRobots(s, reached) ==
    LET u      == task[s].url
        h      == HostOf[u]
        fresh  == {c \in robots[h] : now - c.at < RobotsTTL}
        loaded == IF fresh # {} THEN fresh
                  ELSE {[allowed |-> IF reached THEN RobotsOf[h] ELSE Urls, at |-> now]}
    IN /\ task[s].pc = "start" /\ Owner(u) = Me /\ ~task[s].cancelled
       /\ IF fresh = {} /\ ~reached THEN Fault ELSE reached /\ UNCHANGED faults
       /\ robots' = [robots EXCEPT ![h] = loaded]
       /\ IF Allows(loaded, u)
          THEN task' = [task EXCEPT ![s].pc = "fetch"]
          ELSE Result(s, "disallowed")
       /\ UNCHANGED <<running, seeds, journal, active, memory, contents, claims, attempted,
                      routed, counter, history, runs, now>>

RobotsTimeout(s) ==
    /\ task[s].pc = "start" /\ Owner(task[s].url) = Me /\ ~task[s].cancelled
    /\ \A c \in robots[HostOf[task[s].url]] : now - c.at >= RobotsTTL
    /\ Fault
    /\ Result(s, "error")
    /\ UNCHANGED <<running, seeds, journal, active, memory, contents, claims, robots, attempted,
                   routed, counter, history, runs, now>>

\* What a download can end with: a page or a redirect of the site, or an error
\* (an HTTP error, a body that is too long or cut short, no slot or no answer in
\* time), whose socket is closed.
Answers(u) == {<<p>> : p \in PagesOf[u]} \cup {<<>>}

\* A page, a redirect that re-enters the frontier, or an error.
Fetch(s) ==
    LET u == task[s].url IN
    /\ task[s].pc = "fetch" /\ ~task[s].cancelled
    /\ obeyed' = (obeyed /\ Owner(u) = Me /\ \E c \in robots[HostOf[u]] : u \in c.allowed)
    /\ \E a \in Answers(u) :
          IF a = <<>> THEN Fault /\ Result(s, "error")
          ELSE LET p == a[1] IN
               /\ task' = [task EXCEPT ![s].pc = IF p.moved THEN "links" ELSE "claim",
                                       ![s].status = IF p.moved THEN "filtered" ELSE "",
                                       ![s].links = p.links, ![s].found = Range(p.links),
                                       ![s].print = IF p.moved THEN {} ELSE {p.print}]
               /\ UNCHANGED faults
    /\ UNCHANGED <<running, seeds, journal, active, memory, contents, claims, robots, attempted,
                   routed, counter, finished, expanded, ended, polite, runs, now>>


\* Bytes another task is storing are waited for.
ClaimFree(f) == f \in contents \/ claims[f] = {}

\* Stored bytes are a duplicate.
ClaimContent(s) ==
    \E f \in task[s].print :
       /\ task[s].pc = "claim" /\ ~task[s].cancelled
       /\ ClaimFree(f)
       /\ IF f \in contents \/ (Durable /\ f \in prints)
          THEN /\ contents' = contents \cup {f}
               /\ task' = [task EXCEPT ![s].pc = "links", ![s].status = "duplicate"]
               /\ UNCHANGED claims
          ELSE /\ claims' = [claims EXCEPT ![f] = {s}]
               /\ task' = [task EXCEPT ![s].pc = "links", ![s].status = "success"]
               /\ UNCHANGED contents
       /\ UNCHANGED <<running, seeds, journal, active, memory, robots, attempted, routed, counter,
                      history, runs, now, faults>>

\* Links are enqueued one by one, before the page is acknowledged.
EnqueueLink(s) ==
    /\ task[s].pc = "links" /\ ~task[s].cancelled
    /\ IF task[s].links = <<>>
       THEN Result(s, task[s].status) /\ UNCHANGED <<jobs, memory, counter>>
       ELSE /\ Enqueue(Head(task[s].links), IF task[s].status = "filtered" THEN task[s].prio ELSE 1,
                       task[s].depth + 1)
            /\ task' = [task EXCEPT ![s].links = Tail(@)]
    /\ UNCHANGED <<running, seeds, hosts, prints, snapshots, active, contents, claims, robots,
                   attempted, routed, history, runs, now, faults>>

\* The row after a result: retried with back-off, recrawled with an interval
\* that doubles while the page stays the same, or done.
Pow2 == <<1, 2, 4, 8, 16>>
FinishedRow(r, t) ==
    LET again == t.status = "error" /\ r.attempts <= MaxRetries
        timed == ~again /\ Interval > 0 /\ t.status \in {"success", "duplicate"}
        same  == IF ~timed THEN r.unchanged
                 ELSE IF r.print = t.print THEN Min({r.unchanged + 1, 4}) ELSE 0
    IN [r EXCEPT !.state = IF again THEN "pending" ELSE "done",
                 !.due = IF again THEN now + RetryDelay * Pow2[r.attempts]
                         ELSE IF timed THEN now + Interval * Pow2[same + 1] ELSE 0,
                 !.print = IF t.print = {} THEN @ ELSE t.print,
                 !.unchanged = same, !.last = t.status,
                 !.prio = IF same = 0 THEN 0 ELSE t.prio]

\* Snapshot, fingerprint, row and host delay commit together.
Finish(s) ==
    LET t == task[s]
        u == t.url
    IN /\ Durable
       /\ t.pc = "finish"
       /\ jobs' = [jobs EXCEPT ![u] = {FinishedRow(r, t) : r \in @}]
       /\ IF t.status = "success"
          THEN snapshots' = Append(snapshots, t.print) /\ prints' = prints \cup t.print
          ELSE UNCHANGED <<snapshots, prints>>
       /\ hosts' = [hosts EXCEPT ![HostOf[u]] = now + Delay]
       /\ active' = active \ {HostOf[u]}
       /\ ended' = [ended EXCEPT ![HostOf[u]] = {now}]
       /\ task' = [task EXCEPT ![s].pc = "committed"]
       /\ expanded' = [expanded EXCEPT ![u] = IF t.status \in {"success", "duplicate"} THEN
             IF t.depth < MaxDepth THEN t.found \cap Accepted ELSE {} ELSE @]
       /\ UNCHANGED <<running, seeds, memory, contents, claims, robots, attempted, routed,
                      counter, finished, polite, obeyed, runs, now, faults>>

Released(s) == [f \in Prints |-> claims[f] \ {s}]

\* The result joins the batch and the claim on its bytes is released.
Acknowledge(s) ==
    LET t == task[s]
        h == HostOf[t.url]
    IN /\ t.pc = (IF Durable THEN "committed" ELSE "finish") /\ ~t.cancelled
       /\ claims' = Released(s)
       /\ contents' = IF t.status = "success" THEN contents \cup t.print ELSE contents
       /\ attempted' = attempted + 1
       /\ finished' = finished \cup {[url |-> t.url, status |-> t.status]}
       /\ task' = [task EXCEPT ![s] = NoTask]
       /\ IF Durable THEN UNCHANGED <<memory, active, ended>>
          ELSE /\ active' = active \ {h} /\ ended' = [ended EXCEPT ![h] = {now}]
               /\ SetFrontier(Completed(Frontier, h, active'))
               /\ UNCHANGED seen
       /\ UNCHANGED <<running, seeds, journal, robots, routed, counter, expanded, polite, obeyed,
                      runs, now, faults>>

\* A cancelled task gives its claim and its URL back, also when the commit it
\* was waiting for went through.
Cancelled(s) ==
    LET t == task[s]
        h == HostOf[t.url]
    IN /\ t.pc # "none" /\ t.cancelled
       /\ claims' = Released(s)
       /\ task' = [task EXCEPT ![s] = NoTask]
       /\ active' = active \ {h}
       /\ ended' = [ended EXCEPT ![h] = {now}]
       /\ IF Durable
          THEN /\ jobs' = [jobs EXCEPT ![t.url] = {[r EXCEPT
                              !.state = IF @ = "inflight" THEN "pending" ELSE @,
                              !.due = IF r.state = "inflight" THEN 0 ELSE @] : r \in @}]
               /\ hosts' = [hosts EXCEPT ![h] = now + Delay]
               /\ UNCHANGED <<memory, counter>>
          ELSE /\ LET e == [url |-> t.url, prio |-> t.prio, depth |-> t.depth, n |-> counter]
                      f == Completed(Frontier, h, active')
                      g == [f EXCEPT !.queued = @ \cup {e}]
                  IN SetFrontier(IF e \in HeadIn(g, h) THEN Schedule(g, h, active', {now}) ELSE g)
               /\ counter' = counter + 1
               /\ UNCHANGED <<jobs, hosts, seen>>
       /\ UNCHANGED <<running, seeds, prints, snapshots, contents, robots, attempted, routed,
                      finished, expanded, polite, obeyed, runs, now, faults>>

Tick ==
    /\ now < MaxTime
    /\ now' = now + 1
    /\ UNCHANGED <<running, seeds, journal, active, memory, contents, claims, robots, task,
                   attempted, routed, counter, history, runs, faults>>

---------------------------------------------------------------------------
Init ==
    /\ running = "closed" /\ seeds = <<>>
    /\ jobs = [u \in Urls |-> {}] /\ hosts = [h \in Hosts |-> 0]
    /\ prints = {} /\ snapshots = <<>> /\ active = {}
    /\ queued = {} /\ front = {} /\ waiting = [h \in Hosts |-> {}] /\ delayed = {} /\ seen = {}
    /\ contents = {} /\ claims = [p \in Prints |-> {}]
    /\ robots = [h \in Hosts |-> {}]
    /\ task = [s \in Slots |-> NoTask]
    /\ attempted = 0 /\ routed = {} /\ counter = 0
    /\ finished = {} /\ expanded = [u \in Urls |-> {}] /\ ended = [h \in Hosts |-> {}]
    /\ polite = TRUE /\ obeyed = TRUE
    /\ runs = 0 /\ now = 0 /\ faults = 0

TaskStep(s) ==
    \/ Route(s) \/ Fetch(s) \/ ClaimContent(s) \/ EnqueueLink(s) \/ Finish(s) \/ Acknowledge(s)
    \/ \E reached \in BOOLEAN : CheckRobots(s, reached)
    \/ RobotsTimeout(s) \/ Cancelled(s)

BatchStep ==
    \/ Open \/ Close \/ Crash \/ PollNothing
    \/ \E interrupted \in BOOLEAN : Ends(interrupted)
    \/ Seed \/ \E s \in Slots : Start(s)

Next == BatchStep \/ (\E s \in Slots : TaskStep(s)) \/ Tick

Spec == Init /\ [][Next]_vars

---------------------------------------------------------------------------
TypeOK ==
    /\ running \in {"closed", "seeding", "open", "stopping"}
    /\ active \subseteq Hosts /\ attempted \in 0..MaxPages
    /\ \A u \in Urls : Cardinality(jobs[u]) <= 1
    /\ \A e \in queued : e.url \in seen

\* Nothing is stranded.  Durable: a row is in flight only while a task holds it
\* or a crash is still to be recovered.  In memory: a queued URL of an idle host
\* is behind a published head or an alarm (state.py retry, frontier.py _schedule).
NothingStranded ==
    IF Durable
    THEN running \in {"open", "stopping"} =>
            \A u \in Urls : \A r \in jobs[u] : r.state = "inflight" =>
               \E s \in Busy : task[s].url = u /\ task[s].pc # "committed"
    ELSE \A e \in queued :
            LET h == HostOf[e.url] IN
            \/ h \in active
            \/ \E a \in delayed : waiting[h] = {a.due} /\ a.host = h
            \/ waiting[h] = {} /\ HeadIn(Frontier, h) \subseteq front

\* The same bytes are stored once, and exactly the stored ones are remembered
\* (crawler.py _claim_content, state.py finish).
StoredOnce ==
    /\ \A i, j \in DOMAIN snapshots : i # j => snapshots[i] # snapshots[j]
    /\ UNION Range(snapshots) = prints

\* A claim belongs to a live task, so whoever waits for it is woken (crawler.py
\* _release_content).
ClaimsOwned ==
    \A f \in Prints : \A s \in claims[f] : s \in Busy /\ task[s].print = {f}

\* An acknowledged page has all its eligible links in the frontier, whatever
\* crash or cancellation happened in between (crawler.py _process_entry).
LinksKept ==
    \A u \in Urls : \A v \in expanded[u] : jobs[v] # {}

\* In memory a URL is acknowledged once (dedup.py URLSeen, crawler.py).
CrawledOnce ==
    ~Durable => \A a, b \in finished : a.url = b.url => a = b

\* Another owner's URL is done only after it was handed over, or after its
\* retries failed too (crawler.py _route).
HandedOver ==
    \A u \in Urls : Owner(u) # Me =>
       \A r \in jobs[u] : r.state = "done" =>
          u \in routed \/ (r.last = "error" /\ r.attempts > MaxRetries)

\* The crawler loses no URL and stores no page twice, keeps to one request per
\* host and its delay, and fetches only what robots.txt and the partition allow.
CrawlSound ==
    /\ TypeOK /\ NothingStranded /\ StoredOnce /\ ClaimsOwned /\ LinksKept /\ CrawledOnce
    /\ HandedOver /\ polite /\ obeyed
=============================================================================
