---------------------------- MODULE ScaleFromZero ----------------------------
(***************************************************************************)
(* Scale from zero: one shard of the profile service.  Web nodes behind a  *)
(* balancer update the primary (profiles.py) and read through a cache with *)
(* version floors and generation tickets (cache.py, app.py); a replica     *)
(* pulls the change feed (replication.py) and may be promoted through a    *)
(* lease fence (leadership.py); outbox jobs reach a consumer (jobs.py,     *)
(* consumer.py).                                                           *)
(*                                                                         *)
(* A change is [user, version, value]: its checksum is the record itself.  *)
(* The users table is the last change of each user.  A ticket is the pair  *)
(* of the cache's instance and generation.                                 *)
(***************************************************************************)
EXTENDS Integers, Sequences, FiniteSets, SequencesExt, FiniteSetsExt, TLC

CONSTANTS Users,
          Requests,     \* profile writes: [id, user, expect, value]
          Webs,         \* web endpoints of the balancer, tried in turn
          Writers,      \* balancer requests that write
          Readers,      \* balancer requests that read
          Consumers,    \* threads of the job worker
          Fenced,       \* the stores share a lease fence
          Lease,        \* lease of the fence and of a claimed job
          FeedLimit,    \* changes of one feed page
          HistoryLimit, \* changes a store keeps
          CacheSize,    \* entries of the cache
          FloorLimit,   \* version floors the cache remembers
          MaxSessions, SessionLife,
          MaxCalls, MaxReads, MaxTime, MaxFaults

VARIABLES log,          \* node -> its changes
          requests,     \* node -> answered writes: [id, user, body, result]
          jobs,         \* primary: change position -> its outbox row
          identity,     \* node -> identity of its database
          source,       \* {} or the identity the replica is bound to
          feed,         \* {} or the page the replica fetched
          fence,        \* [holder, cursor, expires, epoch]
          locked,       \* {} or the writer inside the fence transaction
          promotion,    \* {} or the cursor a promotion was called with
          cache,        \* user -> {} or the live entry
          order,        \* cached users, least recently used first
          floors,       \* version floors: [user, version], oldest first
          ticket,       \* [instance, generation]
          sessions,     \* [user, token, expires]
          writer, reader, consumer,
          inbox,        \* consumed events
          loseAck,
          kept,         \* history: changes acknowledged as they were published
          lineage,      \* history: identity -> the longest log it had
          removed,      \* history: user -> ticket after the last invalidation
          results,      \* history: answers of writes
          answered,     \* history: whether every answer met its floor
          calls, reads, now, faults

node == <<log, requests, jobs, identity, source, feed, lineage>>
lease == <<fence, locked, promotion, kept>>
cached == <<cache, order, floors, ticket, removed>>
client == <<sessions, writer, reader, results, answered, calls, reads>>
work == <<consumer, inbox, loseAck>>
vars == <<node, lease, cached, client, work, now, faults>>

Nodes == {"primary", "replica"}

Assumption ==
    /\ Webs > 0 /\ Lease > 0 /\ FeedLimit > 0 /\ CacheSize > 0 /\ FloorLimit > 0
    /\ \A r \in Requests : r.user \in Users /\ r.expect >= 0

Fault == faults < MaxFaults /\ faults' = faults + 1

---------------------------------------------------------------------------
(* The store *)

\* The row of the users table, {} when the user has none.
ProfileIn(l, u) ==
    LET at == {i \in DOMAIN l : l[i].user = u} IN IF at = {} THEN {} ELSE {l[Max(at)]}
Version(n, u) ==
    LET row == ProfileIn(log[n], u) IN IF row = {} THEN 0 ELSE (CHOOSE c \in row : TRUE).version

Held(n) == fence.holder = n /\ fence.expires > now

\* A write's answer on node n: the stored one, a conflict, or a new change.
Known(n, r) == {q \in requests[n] : q.id = r.id /\ q.user = r.user}
ChangeOf(r) == [user |-> r.user, version |-> r.expect + 1, value |-> r.value]

NewJob == [state |-> "pending", lease |-> 0, attempts |-> 0]

Longest(id, l) ==
    IF id \in DOMAIN lineage /\ Len(lineage[id]) >= Len(l) THEN lineage ELSE (id :> l) @@ lineage

StoreChange(n, r) ==
    /\ log' = [log EXCEPT ![n] = Append(@, ChangeOf(r))]
    /\ requests' = [requests EXCEPT ![n] =
          @ \cup {[id |-> r.id, user |-> r.user, body |-> r, result |-> ChangeOf(r)]}]
    /\ jobs' = IF n = "primary" THEN Append(jobs, NewJob) ELSE jobs
    /\ lineage' = Longest(identity[n], log'[n])
    /\ UNCHANGED <<identity, source, feed>>

\* The primary is started on an empty database.
PrimaryReplaced ==
    /\ ~Fenced /\ log["primary"] # <<>>
    /\ Fault
    /\ log' = [log EXCEPT !["primary"] = <<>>]
    /\ requests' = [requests EXCEPT !["primary"] = {}]
    /\ jobs' = <<>>
    /\ identity' = [identity EXCEPT !["primary"] = @ + 10]
    /\ lineage' = Longest(identity'["primary"], <<>>)
    /\ UNCHANGED <<source, feed, lease, cached, client, work, now>>

---------------------------------------------------------------------------
(* Replication *)

\* The feed is read in one transaction, from the replica's own position.
ReplicaFetch ==
    LET after == Len(log["replica"])
        l     == log["primary"]
    IN /\ feed = {}
       /\ after <= Len(l)
       /\ feed' = {[after |-> after, prefix |-> SubSeq(l, 1, after), from |-> identity["primary"],
                    changes |-> SubSeq(l, after + 1, Min({Len(l), after + FeedLimit}))]}
       /\ UNCHANGED <<log, requests, jobs, identity, source, lineage, lease, cached, client, work,
                      now, faults>>

\* A page is applied whole: the bound source, the retained prefix (whose last
\* checksum is compared), and each user's next version.
Applies(f) ==
    /\ source \subseteq {f.from}
    /\ f.after = Len(log["replica"])
    /\ f.after > 0 => Last(f.prefix) = Last(log["replica"])
    /\ \A i \in DOMAIN f.changes :
          LET old == ProfileIn(log["replica"] \o SubSeq(f.changes, 1, i - 1), f.changes[i].user)
          IN f.changes[i].version = (IF old = {} THEN 1 ELSE (CHOOSE c \in old : TRUE).version + 1)

ReplicaApply ==
    \E f \in feed :
       /\ feed' = {}
       /\ IF Applies(f)
          THEN /\ log' = [log EXCEPT !["replica"] = @ \o f.changes]
               /\ source' = {f.from}
          ELSE UNCHANGED <<log, source>>
       /\ UNCHANGED <<requests, jobs, identity, lineage, lease, cached, client, work, now,
                      faults>>

---------------------------------------------------------------------------
(* The fence: one transaction at a time *)

\* A first or a renewed lease; another holder's must be promoted explicitly.
Heartbeat(n) ==
    /\ Fenced /\ locked = {}
    /\ fence.holder \in {"", n}
    /\ Len(log[n]) >= fence.cursor
    /\ fence' = [holder |-> n, cursor |-> Len(log[n]), expires |-> now + Lease,
                 epoch |-> IF fence.holder = "" THEN 1 ELSE fence.epoch]
    /\ fence' # fence
    /\ UNCHANGED <<node, locked, promotion, kept, cached, client, work, now, faults>>

\* The route reads the replica's position before the fence transaction.
PromoteCalled ==
    /\ Fenced /\ promotion = {}
    /\ promotion' = {Len(log["replica"])}
    /\ UNCHANGED <<node, fence, locked, kept, cached, client, work, now, faults>>

CanPromote_Lagging(n, cursor) ==
    fence.holder \in {"", n} \/ fence.expires <= now

CanPromote(n, cursor) ==
    /\ cursor >= fence.cursor
    /\ fence.holder \in {"", n} \/ fence.expires <= now

Promote ==
    \E cursor \in promotion :
       /\ locked = {}
       /\ promotion' = {}
       /\ fence' = IF CanPromote("replica", cursor)
                   THEN [holder |-> "replica", cursor |-> cursor, expires |-> now + Lease,
                         epoch |-> IF Held("replica") THEN fence.epoch ELSE fence.epoch + 1]
                   ELSE fence
       /\ UNCHANGED <<node, locked, kept, cached, client, work, now, faults>>

---------------------------------------------------------------------------
(* Sessions *)

Login(u) ==
    LET live == {s \in sessions : s.expires > now} IN
    /\ calls < MaxCalls
    /\ Cardinality(live) < MaxSessions
    /\ calls' = calls + 1
    /\ sessions' = live \cup {[user |-> u, token |-> calls, expires |-> now + SessionLife]}
    /\ UNCHANGED <<node, lease, cached, writer, reader, results, answered, reads, work, now,
                   faults>>

Authorized(u) == \E s \in sessions : s.user = u /\ s.expires > now

---------------------------------------------------------------------------
(* Writes, through a web node *)

NoWrite == [pc |-> "idle", req |-> {}, at |-> "", tries |-> 0, result |-> {}, fresh |-> FALSE]

\* The web node checks the session; the primary it is configured with, or the
\* promoted replica, takes the write.
WriteBegins(w, r, n) ==
    /\ writer[w].pc = "idle"
    /\ n = "replica" => Fenced
    /\ Authorized(r.user)
    /\ \A x \in Writers : r \notin writer[x].req
    /\ calls < MaxCalls /\ calls' = calls + 1
    /\ writer' = [writer EXCEPT ![w] =
          [NoWrite EXCEPT !.pc = "call", !.req = {r}, !.at = n, !.tries = 1]]
    /\ UNCHANGED <<node, lease, cached, sessions, reader, results, answered, reads, work, now,
                   faults>>

\* An error below 500 ends the request; 5xx moves on to the next endpoint.
Refused(w) == writer' = [writer EXCEPT ![w] = NoWrite]
Again(w) ==
    writer' = [writer EXCEPT ![w] =
       IF @.tries < Webs THEN [@ EXCEPT !.pc = "call", !.tries = @ + 1, !.result = {}] ELSE NoWrite]

\* The fence transaction opens before the store's, and commits after it.
StoreUpdate(w) ==
    LET n == writer[w].at IN
    \E r \in writer[w].req :
       /\ writer[w].pc = "call"
       /\ Fenced => locked = {}
       /\ IF Fenced /\ ~Held(n)
          THEN Refused(w) /\ UNCHANGED <<node, locked>>
          ELSE IF Known(n, r) # {}
          THEN LET q == CHOOSE q \in Known(n, r) : TRUE IN
               /\ IF q.body = r
                  THEN writer' = [writer EXCEPT ![w].pc = "answer", ![w].result = {q.result},
                                                ![w].fresh = FALSE]
                  ELSE Refused(w)
               /\ UNCHANGED <<node, locked>>
          ELSE IF Version(n, r.user) # r.expect \/ Len(log[n]) >= HistoryLimit
                  \/ (Fenced /\ Len(log[n]) + 1 < fence.cursor)
          THEN Refused(w) /\ UNCHANGED <<node, locked>>
          ELSE /\ StoreChange(n, r)
               /\ writer' = [writer EXCEPT ![w].pc = IF Fenced THEN "commit" ELSE "answer",
                                           ![w].result = {ChangeOf(r)}, ![w].fresh = TRUE]
               /\ locked' = IF Fenced THEN {w} ELSE {}
       /\ UNCHANGED <<fence, promotion, kept, cached, sessions, reader, results, answered, calls,
                      reads, work, now, faults>>

\* The published cursor and the renewed lease become visible.
FenceCommit(w) ==
    LET n == writer[w].at IN
    /\ writer[w].pc = "commit"
    /\ fence' = [fence EXCEPT !.cursor = Len(log[n]), !.expires = now + Lease]
    /\ locked' = {}
    /\ writer' = [writer EXCEPT ![w].pc = "answer"]
    /\ UNCHANGED <<node, promotion, kept, cached, sessions, reader, results, answered, calls,
                   reads, work, now, faults>>

\* The store process dies between the two commits.
StoreCrashes(w) ==
    /\ writer[w].pc = "commit"
    /\ Fault
    /\ locked' = {}
    /\ Again(w)
    /\ UNCHANGED <<node, fence, promotion, kept, cached, sessions, reader, results, answered,
                   calls, reads, work, now>>

\* The answer is lost: the balancer retries the same request id.
AnswerLost(w) ==
    /\ writer[w].pc = "answer"
    /\ Fault
    /\ Again(w)
    /\ UNCHANGED <<node, lease, cached, sessions, reader, results, answered, calls, reads, work,
                   now>>

---------------------------------------------------------------------------
(* The cache *)

FloorOf(u) == LET at == {f \in Range(floors) : f.user = u} IN
              IF at = {} THEN 0 ELSE (CHOOSE f \in at : TRUE).version

Without(s, u) == SelectSeq(s, LAMBDA x : x # u)

\* The entry goes, every ticket lapses, and the floor rises; old floors are forgotten.
CacheDelete(u, v) ==
    LET raised == Append(SelectSeq(floors, LAMBDA f : f.user # u),
                         [user |-> u, version |-> Max({v, FloorOf(u)})])
    IN /\ cache' = [cache EXCEPT ![u] = {}]
       /\ order' = Without(order, u)
       /\ ticket' = [ticket EXCEPT !.generation = @ + 1]
       /\ floors' = IF Len(raised) > FloorLimit THEN Tail(raised) ELSE raised
       /\ removed' = [removed EXCEPT ![u] = ticket']

\* The ticket of the probe must still be the current one.
FillAllowed(u, c, t) == t = ticket /\ c.version >= FloorOf(u)

\* The entry keeps its ticket as a history.
CachePut(u, c, t) ==
    IF /\ FillAllowed(u, c, t)
       /\ \A e \in cache[u] : \/ e.change.version < c.version
                              \/ e.change = c
    THEN LET filled == Append(Without(order, u), u)
             out    == IF Len(filled) > CacheSize THEN {Head(filled)} ELSE {}
         IN /\ cache' = [x \in Users |-> IF x \in out THEN {}
                                         ELSE IF x = u THEN {[change |-> c, ticket |-> t]}
                                         ELSE cache[x]]
            /\ order' = SelectSeq(filled, LAMBDA x : x \notin out)
    ELSE UNCHANGED <<cache, order>>

\* The time to live of an entry ends.
CacheExpires(u) ==
    /\ cache[u] # {}
    /\ now > 0
    /\ cache' = [cache EXCEPT ![u] = {}]
    /\ order' = Without(order, u)
    /\ UNCHANGED <<node, lease, floors, ticket, removed, client, work, now, faults>>

CacheRestarts ==
    /\ Fault
    /\ cache' = [u \in Users |-> {}] /\ order' = <<>> /\ floors' = <<>>
    /\ ticket' = [instance |-> ticket.instance + 1, generation |-> 0]
    /\ removed' = [u \in Users |-> ticket']
    /\ UNCHANGED <<node, lease, client, work, now>>

\* The web node invalidates after the write and answers; a failed call is
\* only counted.
Answer(w, reached) ==
    \E r \in writer[w].req, c \in writer[w].result :
       /\ writer[w].pc = "answer"
       /\ IF reached THEN CacheDelete(r.user, c.version) /\ UNCHANGED faults
          ELSE Fault /\ UNCHANGED cached
       /\ results' = results \cup {[req |-> r, change |-> c]}
       /\ kept' = IF Fenced /\ writer[w].fresh THEN kept \cup {c} ELSE kept
       /\ Refused(w)
       /\ UNCHANGED <<node, fence, locked, promotion, sessions, reader, answered, calls, reads,
                      work, now>>

---------------------------------------------------------------------------
(* Reads, through a web node *)

NoRead == [pc |-> "idle", user |-> {}, least |-> 0, floor |-> 0, ticket |-> {}, value |-> {}]

\* The cache is probed with the version the client asks for; a failed probe
\* leaves no ticket.
ReadBegins(x, u, least, reached) ==
    LET floor == Max({least, FloorOf(u)})
        hit   == {e.change : e \in {e \in cache[u] : e.change.version >= floor}}
    IN /\ reader[x].pc = "idle" /\ reads < MaxReads
       /\ Authorized(u)
       /\ reads' = reads + 1
       /\ \/ /\ reached /\ UNCHANGED faults
             /\ order' = IF hit = {} THEN order ELSE Append(Without(order, u), u)
             /\ reader' = [reader EXCEPT ![x] =
                   [pc |-> IF hit = {} THEN "replica" ELSE "answer", user |-> {u}, least |-> least,
                    floor |-> floor, ticket |-> {ticket}, value |-> hit]]
          \/ /\ ~reached /\ Fault /\ UNCHANGED order
             /\ reader' = [reader EXCEPT ![x] =
                   [NoRead EXCEPT !.pc = "replica", !.user = {u}, !.least = least, !.floor = least]]
       /\ UNCHANGED <<node, lease, cache, floors, ticket, removed, sessions, writer, results,
                      answered, calls, work, now>>

StrongRead(x, u, least) ==
    /\ reader[x].pc = "idle" /\ reads < MaxReads
    /\ Authorized(u)
    /\ ProfileIn(log["primary"], u) # {}
    /\ reads' = reads + 1
    /\ reader' = [reader EXCEPT ![x] = [NoRead EXCEPT !.pc = "answer", !.user = {u},
                     !.least = least, !.floor = least, !.value = ProfileIn(log["primary"], u)]]
    /\ UNCHANGED <<node, lease, cached, sessions, writer, results, answered, calls, work, now,
                   faults>>

\* The replica serves only what reaches the floor; otherwise the primary is asked.
ReadReplica(x) ==
    \E u \in reader[x].user :
       LET found == {c \in ProfileIn(log["replica"], u) : c.version >= reader[x].floor} IN
       /\ reader[x].pc = "replica"
       /\ reader' = [reader EXCEPT ![x].pc = IF found = {} THEN "primary" ELSE "fill",
                                   ![x].value = found]
       /\ UNCHANGED <<node, lease, cached, sessions, writer, results, answered, calls, reads,
                      work, now, faults>>

ReadPrimary(x) ==
    \E u \in reader[x].user :
       LET found == ProfileIn(log["primary"], u) IN
       /\ reader[x].pc = "primary"
       /\ reader' = [reader EXCEPT ![x] = IF found = {} THEN NoRead
                                          ELSE [@ EXCEPT !.pc = "fill", !.value = found]]
       /\ UNCHANGED <<node, lease, cached, sessions, writer, results, answered, calls, reads,
                      work, now, faults>>

ReadFill(x) ==
    \E u \in reader[x].user, c \in reader[x].value :
       /\ reader[x].pc = "fill"
       /\ IF reader[x].ticket = {} THEN UNCHANGED <<cache, order>>
          ELSE \E t \in reader[x].ticket : CachePut(u, c, t)
       /\ reader' = [reader EXCEPT ![x].pc = "answer"]
       /\ UNCHANGED <<node, lease, floors, ticket, removed, sessions, writer, results, answered,
                      calls, reads, work, now, faults>>

\* A value under the floor is an error, not an answer.
Serves(x, c) == c.version >= reader[x].floor

ReadAnswers(x) ==
    \E c \in reader[x].value :
       /\ reader[x].pc = "answer"
       /\ answered' = (answered /\ (Serves(x, c) => c.version >= reader[x].least))
       /\ reader' = [reader EXCEPT ![x] = NoRead]
       /\ UNCHANGED <<node, lease, cached, sessions, writer, results, calls, reads, work, now,
                      faults>>

---------------------------------------------------------------------------
(* Outbox jobs *)

NoClaim == [pc |-> "idle", job |-> {}]

Claim(k, i) ==
    LET free == {j \in DOMAIN jobs : \/ jobs[j].state = "pending"
                                     \/ jobs[j].state = "inflight" /\ jobs[j].lease <= now}
        row  == [state |-> "inflight", lease |-> now + Lease, attempts |-> jobs[i].attempts + 1]
    IN /\ consumer[k].pc = "idle"
       /\ free # {} /\ i = Min(free)
       /\ jobs[i].attempts < MaxFaults + 1
       /\ jobs' = [jobs EXCEPT ![i] = row]
       /\ consumer' = [consumer EXCEPT ![k] =
             [pc |-> "consume", job |-> {[at |-> i, row |-> row, from |-> identity["primary"],
                                          payload |-> log["primary"][i]]}]]
       /\ UNCHANGED <<log, requests, identity, source, feed, lineage, lease, cached, client,
                      inbox, loseAck, now, faults>>

\* The inbox is keyed by the source and the job.
Consume(k) ==
    \E j \in consumer[k].job :
       LET old == {e \in inbox : e.from = j.from /\ e.at = j.at}
           ok  == \A e \in old : e.payload = j.payload
       IN /\ consumer[k].pc = "consume"
          /\ inbox' = IF ok THEN inbox \cup {[from |-> j.from, at |-> j.at, payload |-> j.payload]}
                      ELSE inbox
          /\ consumer' = [consumer EXCEPT ![k] = IF ok /\ ~loseAck THEN [@ EXCEPT !.pc = "ack"]
                                                 ELSE NoClaim]
          /\ UNCHANGED <<node, lease, cached, client, loseAck, now, faults>>

\* The acknowledged row is the one that was claimed, within its lease.
Acks(j) ==
    /\ j.from = identity["primary"]
    /\ j.at \in DOMAIN jobs
    /\ jobs[j.at] = j.row
    /\ jobs[j.at].lease > now

Ack(k, reached) ==
    \E j \in consumer[k].job :
       /\ consumer[k].pc = "ack"
       /\ \/ /\ reached /\ UNCHANGED faults
             /\ jobs' = IF Acks(j) THEN [jobs EXCEPT ![j.at].state = "done", ![j.at].lease = 0]
                        ELSE jobs
          \/ ~reached /\ Fault /\ UNCHANGED jobs
       /\ consumer' = [consumer EXCEPT ![k] = NoClaim]
       /\ UNCHANGED <<log, requests, identity, source, feed, lineage, lease, cached, client,
                      inbox, loseAck, now>>

Control ==
    /\ Consumers # {}
    /\ Fault
    /\ loseAck' = ~loseAck
    /\ UNCHANGED <<node, lease, cached, client, consumer, inbox, now>>

Tick ==
    /\ now < MaxTime
    /\ now' = now + 1
    /\ UNCHANGED <<node, lease, cached, client, work, faults>>

---------------------------------------------------------------------------
Init ==
    /\ log = [n \in Nodes |-> <<>>]
    /\ requests = [n \in Nodes |-> {}]
    /\ jobs = <<>>
    /\ identity = [n \in Nodes |-> IF n = "primary" THEN 1 ELSE 2]
    /\ source = {} /\ feed = {}
    /\ fence = [holder |-> "", cursor |-> -1, expires |-> 0, epoch |-> 0]
    /\ locked = {} /\ promotion = {}
    /\ cache = [u \in Users |-> {}] /\ order = <<>> /\ floors = <<>>
    /\ ticket = [instance |-> 1, generation |-> 0]
    /\ sessions = {}
    /\ writer = [w \in Writers |-> NoWrite]
    /\ reader = [x \in Readers |-> NoRead]
    /\ consumer = [k \in Consumers |-> NoClaim]
    /\ inbox = {} /\ loseAck = FALSE
    /\ kept = {} /\ results = {} /\ answered = TRUE
    /\ lineage = (1 :> <<>>)
    /\ removed = [u \in Users |-> ticket]
    /\ calls = 0 /\ reads = 0 /\ now = 0 /\ faults = 0

Versions == {0} \cup UNION {{r.expect + 1, r.expect + 2} : r \in Requests}

StoreStep ==
    \/ ReplicaFetch \/ ReplicaApply \/ PrimaryReplaced
    \/ Heartbeat("primary") \/ Heartbeat("replica") \/ PromoteCalled \/ Promote

WriteStep ==
    \/ \E u \in Users : Login(u)
    \/ \E w \in Writers :
          \/ \E r \in Requests, n \in Nodes : WriteBegins(w, r, n)
          \/ StoreUpdate(w) \/ FenceCommit(w) \/ StoreCrashes(w) \/ AnswerLost(w)
          \/ \E reached \in BOOLEAN : Answer(w, reached)

ReadStep ==
    \/ \E x \in Readers :
          \/ \E u \in Users, v \in Versions :
                \/ \E reached \in BOOLEAN : ReadBegins(x, u, v, reached)
                \/ StrongRead(x, u, v)
          \/ ReadReplica(x) \/ ReadPrimary(x) \/ ReadFill(x) \/ ReadAnswers(x)
    \/ Readers # {} /\ (CacheRestarts \/ \E u \in Users : CacheExpires(u))

JobStep ==
    \/ \E k \in Consumers :
          \/ \E i \in DOMAIN jobs : Claim(k, i)
          \/ Consume(k)
          \/ \E reached \in BOOLEAN : Ack(k, reached)
    \/ Control

Next == StoreStep \/ WriteStep \/ ReadStep \/ JobStep \/ Tick

Spec == Init /\ [][Next]_vars

---------------------------------------------------------------------------
TypeOK ==
    /\ \A n \in Nodes : \A i \in DOMAIN log[n] : log[n][i].user \in Users
    /\ Len(jobs) = Len(log["primary"])
    /\ locked \subseteq Writers /\ Len(order) <= CacheSize /\ Len(floors) <= FloorLimit
    /\ {u \in Users : cache[u] # {}} = Range(order)
    /\ Cardinality(sessions) <= MaxSessions

\* A replica holds a prefix of what the database it is bound to had, never a
\* mixture of two databases, until it is promoted and writes itself
\* (replication.py apply_feed).
ReplicaIsPrefix ==
    requests["replica"] = {} =>
       /\ log["replica"] # <<>> => \E id \in source : IsPrefix(log["replica"], lineage[id])
       /\ source \subseteq DOMAIN lineage

\* Every change acknowledged when it was published is in the history of the
\* current lease holder: promotion does not truncate it (leadership.py promote,
\* profiles.py update).
PublishedKept ==
    fence.holder # "" =>
       /\ kept \subseteq Range(log[fence.holder])
       /\ fence.cursor <= Len(log[fence.holder])

\* A store applies a write once however often it is retried, and its history
\* numbers each user's versions without gaps (profiles.py update).
AppliedOnce ==
    /\ \A n \in Nodes : \A i \in DOMAIN log[n] :
          log[n][i].version = Cardinality({k \in 1..i : log[n][k].user = log[n][i].user})
    /\ ~Fenced /\ identity["primary"] = 1 =>
          \A a, b \in results : a.req = b.req => a = b

\* No entry was read before the last invalidation of its user, and none is under
\* the version floor (cache.py put, delete).
NoStaleFill ==
    \A u \in Users : \A e \in cache[u] :
       /\ e.change.version >= FloorOf(u)
       /\ e.ticket.instance = removed[u].instance
       /\ e.ticket.generation >= removed[u].generation

\* A job is done only after the consumer took it, once and unaltered (jobs.py
\* ack, consumer.py consume).
DoneIsConsumed ==
    /\ \A i \in DOMAIN jobs : jobs[i].state = "done" =>
          \E e \in inbox : e.from = identity["primary"] /\ e.at = i /\ e.payload = log["primary"][i]
    /\ \A e, f \in inbox : e.from = f.from /\ e.at = f.at => e = f

\* The profile service keeps published changes, its replica and its cache sound,
\* and answers no read under the version it was asked for (app.py get).
ScaleSound ==
    /\ TypeOK /\ ReplicaIsPrefix /\ PublishedKept /\ AppliedOnce /\ NoStaleFill /\ DoneIsConsumed
    /\ answered
==============================================================================
