------------------------------ MODULE NewsFeed ------------------------------
(***************************************************************************)
(* news-feed-system: posts with a publication outbox (storage.py,          *)
(* post_service.py), the social graph behind a cache (social_graph_cache), *)
(* fan-out on write for ordinary authors and on read for celebrities       *)
(* (fanout_service.py), the in-memory task queue and its workers, and the  *)
(* feed reader with its coverage of complete first pages                   *)
(* (news_feed_service.py).  One process; an await is a step boundary.      *)
(* Posts are numbered by their time, which they get before they are stored.*)
(***************************************************************************)
EXTENDS Integers, FiniteSets, FiniteSetsExt

CONSTANTS
  Users,              \* numbers, in the order of their names
  Authors, Readers, Actors,    \* who posts, reads, and changes what it follows and mutes
  Start,              \* the relation <<follower, followee>> at the start
  Audiences,          \* selective_sharing: sets of users, Users for everybody
  Workers,
  Threshold,          \* celebrity_threshold
  BatchSize, QueueSize, MaxRetries,
  MaxEntries,         \* entries kept for a user
  PageSize,
  MaxPosts, MaxChanges, MaxFaults, MaxReads    \* bounds of the model

VARIABLES
  issued, post,       \* posts: [Ids -> {row}, {} while it is not stored]
  follows, mutes,
  cache,              \* [Keys -> {value}, {} without an unexpired one]
  loads,              \* [Clients -> {the load it awaits}]
  mutation,           \* {the relationship change in progress}
  queue,              \* tasks, ready or claimed
  dead,               \* posts and readers of dead letters
  feeds, notified,    \* [Users -> post ids]
  disp, worker, reader,
  coverage,           \* [Users -> {complete first page}]
  pushed, shown,      \* history: readers a post was enqueued for; first pages
  changes, faults, reads

svars == <<issued, post>>
gvars == <<follows, mutes, cache, loads, mutation>>
qvars == <<queue, dead>>
hvars == <<pushed, shown>>
bvars == <<changes, faults, reads>>
vars == <<svars, gvars, qvars, feeds, notified, disp, worker, reader, coverage, hvars, bvars>>

Ids == 1 .. MaxPosts
Dispatcher == 0
Clients == Users \cup {Dispatcher}
Keys == {"following", "followers", "count"} \X Users
Assumption ==
  /\ Users \subseteq Nat \ {0} /\ Authors \cup Readers \cup Actors \subseteq Users
  /\ Start \subseteq Users \X Users /\ Audiences \subseteq SUBSET Users
  /\ {Threshold, BatchSize, QueueSize, MaxEntries, PageSize} \subseteq Nat \ {0}

IdleDispatcher == [pc |-> "idle", id |-> 0, to |-> {}]
IdleWorker == [pc |-> "idle"]
IdleReader == [pc |-> "idle"]
EmptyFeeds == [u \in Users |-> {}]
Init ==
  /\ issued = 0 /\ post = [i \in Ids |-> {}]
  /\ follows = Start /\ mutes = {} /\ cache = [k \in Keys |-> {}]
  /\ loads = [c \in Clients |-> {}] /\ mutation = {}
  /\ queue = {} /\ dead = {} /\ feeds = EmptyFeeds /\ notified = EmptyFeeds
  /\ disp = IdleDispatcher /\ worker = [w \in Workers |-> IdleWorker] /\ reader = [u \in Readers |-> IdleReader]
  /\ coverage = [u \in Users |-> {}]
  /\ pushed = [i \in Ids |-> {}] /\ shown = EmptyFeeds /\ changes = 0 /\ faults = 0 /\ reads = 0

Stored == {i \in Ids : post[i] # {}}
Row(i) == CHOOSE p \in post[i] : TRUE
Newest(S, n) == {i \in S : Cardinality({j \in S : j > i}) < n}
First(S) == {a \in S : \A b \in S : a <= b}
Fault == faults < MaxFaults /\ faults' = faults + 1

\* can_view
CanView(u, i) == <<u, Row(i).author>> \notin mutes /\ u \in Row(i).audience

-----------------------------------------------------------------------------
(***************************************************************************)
(* CachedSocialGraph.  A load and a mutation hold the locks of their keys. *)
(***************************************************************************)
Backend(k) == IF k[1] = "following" THEN {a \in Users : <<k[2], a>> \in follows}
                                    ELSE {f \in Users : <<f, k[2]>> \in follows}
KeysOf(m) == {<<"followers", m.followee>>, <<"following", m.follower>>, <<"count", m.followee>>}
Free(k) == (\A c \in Clients : \A l \in loads[c] : l.key # k) /\ (\A m \in mutation : k \notin KeysOf(m))

\* _get, get_follower_count: a miss reads the backend ...
Awaits(c) ==
  IF c = Dispatcher
  THEN (IF disp.pc \in {"count", "followers", "notify"}
        THEN {<<IF disp.pc = "count" THEN "count" ELSE "followers", Row(disp.id).author>>} ELSE {})
  ELSE IF c \notin Readers THEN {}
  ELSE CASE reader[c].pc \in {"following", "current"} -> {<<"following", c>>}
         [] reader[c].pc = "classify"                 -> {<<"count", a>> : a \in First(reader[c].left)}
         [] OTHER                                     -> {}
Load(c) ==
  /\ loads[c] = {}
  /\ \E k \in Awaits(c) :
       /\ Free(k) /\ cache[k] = {}
       /\ loads' = [loads EXCEPT ![c] = {[key |-> k, value |-> Backend(k), fresh |-> TRUE]}]
  /\ UNCHANGED <<svars, follows, mutes, cache, mutation, qvars, feeds, notified, disp, worker, reader, coverage, hvars, bvars>>
\* ... and its value is cached unless the key was invalidated meanwhile.
Value(c, k) == IF loads[c] # {} THEN {l.value : l \in loads[c]} ELSE IF Free(k) THEN cache[k] ELSE {}
Obtains(c, k) ==
  /\ cache' = IF \E l \in loads[c] : l.fresh THEN [cache EXCEPT ![k] = Value(c, k)] ELSE cache
  /\ loads' = [loads EXCEPT ![c] = {}]
  /\ UNCHANGED <<follows, mutes, mutation>>

\* A relationship change disturbs the reads in progress.
Disturbed == [u \in Readers |-> IF reader[u].pc = "idle" THEN reader[u] ELSE [reader[u] EXCEPT !.calm = FALSE]]
Mutate(u, a) ==
  LET m == [follower |-> u, followee |-> a, committed |-> FALSE] IN
  /\ u # a /\ mutation = {} /\ \A k \in KeysOf(m) : Free(k)
  /\ changes < MaxChanges /\ changes' = changes + 1
  /\ mutation' = {m} /\ reader' = Disturbed
  /\ UNCHANGED <<svars, follows, mutes, cache, loads, qvars, feeds, notified, disp, worker, coverage, hvars, faults, reads>>
MutateCommit(m) ==
  /\ ~ m.committed /\ mutation' = {[m EXCEPT !.committed = TRUE]}
  /\ follows' = IF <<m.follower, m.followee>> \in follows THEN follows \ {<<m.follower, m.followee>>}
                                                          ELSE follows \cup {<<m.follower, m.followee>>}
  /\ UNCHANGED <<svars, mutes, cache, loads, qvars, feeds, notified, disp, worker, reader, coverage, hvars, bvars>>
\* The caches are invalidated even if the change failed or was cancelled.
Dropped(m) == KeysOf(m)
MutateEnd(m) ==
  /\ m.committed \/ faults < MaxFaults
  /\ mutation' = {} /\ cache' = [k \in Keys |-> IF k \in Dropped(m) THEN {} ELSE cache[k]]
  /\ faults' = IF m.committed THEN faults ELSE faults + 1
  /\ UNCHANGED <<svars, follows, mutes, loads, qvars, feeds, notified, disp, worker, reader, coverage, hvars, changes, reads>>
\* invalidate, and a ttl that ran out
Invalidate(u) ==
  LET ks == {k \in Keys : k[2] = u} IN
  /\ \E k \in ks : cache[k] # {} \/ ~ Free(k)
  /\ cache' = [k \in Keys |-> IF k \in ks THEN {} ELSE cache[k]]
  /\ loads' = [c \in Clients |-> {IF l.key \in ks THEN [l EXCEPT !.fresh = FALSE] ELSE l : l \in loads[c]}]
  /\ UNCHANGED <<svars, follows, mutes, mutation, qvars, feeds, notified, disp, worker, reader, coverage, hvars, bvars>>
\* add_mute, remove_mute
Mute(u, a) ==
  /\ u # a /\ changes < MaxChanges /\ changes' = changes + 1
  /\ mutes' = IF <<u, a>> \in mutes THEN mutes \ {<<u, a>>} ELSE mutes \cup {<<u, a>>}
  /\ reader' = Disturbed
  /\ UNCHANGED <<svars, follows, cache, loads, mutation, qvars, feeds, notified, disp, worker, coverage, hvars, faults, reads>>

-----------------------------------------------------------------------------
(***************************************************************************)
(* Publication: the post and its outbox entry are one transaction.  Only   *)
(* the recovery task dispatches.                                           *)
(***************************************************************************)
Publish ==
  /\ issued < MaxPosts /\ issued' = issued + 1
  /\ UNCHANGED <<post, gvars, qvars, feeds, notified, disp, worker, reader, coverage, hvars, bvars>>
Store(i, a, s) ==
  /\ i <= issued /\ post[i] = {}
  /\ post' = [post EXCEPT ![i] = {[author |-> a, audience |-> s, pending |-> TRUE]}]
  /\ UNCHANGED <<issued, gvars, qvars, feeds, notified, disp, worker, reader, coverage, hvars, bvars>>

Dispatch(i) ==
  /\ disp.pc = "idle" /\ i \in Stored /\ Row(i).pending
  /\ disp' = [pc |-> "count", id |-> i, to |-> {}]
  /\ UNCHANGED <<svars, gvars, qvars, feeds, notified, worker, reader, coverage, hvars, bvars>>
\* fanout: is_celebrity, get_followers and _filter_followers
Classify ==
  LET k == <<"count", Row(disp.id).author>> IN
  /\ disp.pc = "count"
  /\ \E v \in Value(Dispatcher, k) :
       disp' = [disp EXCEPT !.pc = IF Cardinality(v) >= Threshold THEN "notify" ELSE "followers"]
  /\ Obtains(Dispatcher, k)
  /\ UNCHANGED <<svars, qvars, feeds, notified, worker, reader, coverage, hvars, bvars>>
Filtered(fs, i) == {f \in fs : CanView(f, i)}
Followers ==
  LET k == <<"followers", Row(disp.id).author>> IN
  /\ disp.pc = "followers"
  /\ \E v \in Value(Dispatcher, k) : disp' = [disp EXCEPT !.pc = "enqueue", !.to = Filtered(v, disp.id)]
  /\ Obtains(Dispatcher, k)
  /\ UNCHANGED <<svars, qvars, feeds, notified, worker, reader, coverage, hvars, bvars>>
\* _enqueue_batches: waits while the queue is full
Batch(S) == {u \in S : Cardinality({v \in S : v < u}) < BatchSize}
Enqueue ==
  /\ disp.pc = "enqueue" /\ (disp.to # {} => Cardinality(queue) < QueueSize)
  /\ IF disp.to = {}
     THEN disp' = [disp EXCEPT !.pc = "notify"] /\ UNCHANGED <<queue, pushed>>
     ELSE /\ disp' = [disp EXCEPT !.to = @ \ Batch(@)]
          /\ queue' = queue \cup {[id |-> disp.id, to |-> Batch(disp.to), attempts |-> 0, claimed |-> FALSE]}
          /\ pushed' = [pushed EXCEPT ![disp.id] = @ \cup Batch(disp.to)]
  /\ UNCHANGED <<svars, gvars, dead, feeds, notified, worker, reader, coverage, shown, bvars>>
\* notify_followers: the followers, then each relation again in the backend
Notify ==
  LET k == <<"followers", Row(disp.id).author>> IN
  /\ disp.pc = "notify"
  /\ \E v \in Value(Dispatcher, k) : disp' = [disp EXCEPT !.pc = "tell", !.to = v]
  /\ Obtains(Dispatcher, k)
  /\ UNCHANGED <<svars, qvars, feeds, notified, worker, reader, coverage, hvars, bvars>>
Tell ==
  /\ disp.pc = "tell" /\ disp.to # {}
  /\ LET f == Min(disp.to) IN
     /\ disp' = [disp EXCEPT !.to = @ \ {f}]
     /\ notified' = IF <<f, Row(disp.id).author>> \in follows /\ CanView(f, disp.id)
                    THEN [notified EXCEPT ![f] = @ \cup {disp.id}] ELSE notified
  /\ UNCHANGED <<svars, gvars, qvars, feeds, worker, reader, coverage, hvars, bvars>>
MarkDispatched ==
  /\ disp.pc = "tell" /\ disp.to = {}
  /\ post' = [post EXCEPT ![disp.id] = {[Row(disp.id) EXCEPT !.pending = FALSE]}]
  /\ disp' = IdleDispatcher
  /\ UNCHANGED <<issued, gvars, qvars, feeds, notified, worker, reader, coverage, hvars, bvars>>
\* An error, or the end of the recovery task: the post stays in the outbox.
Defer ==
  /\ disp.pc # "idle" /\ Fault
  /\ disp' = IdleDispatcher /\ loads' = [loads EXCEPT ![Dispatcher] = {}]
  /\ UNCHANGED <<svars, follows, mutes, cache, mutation, qvars, feeds, notified, worker, reader, coverage, hvars, changes, reads>>

\* FanoutWorker: the claim, one append at a time, and the end of the task.
Claim(w, t) ==
  /\ worker[w].pc = "idle" /\ ~ t.claimed
  /\ LET c == [t EXCEPT !.claimed = TRUE, !.attempts = @ + 1] IN
     /\ queue' = (queue \ {t}) \cup {c}
     /\ worker' = [worker EXCEPT ![w] = [pc |-> "append", task |-> c, left |-> t.to]]
  /\ UNCHANGED <<svars, gvars, dead, feeds, notified, disp, reader, coverage, hvars, bvars>>
Appended(u, i) == [feeds EXCEPT ![u] = Newest(@ \cup {i}, MaxEntries)]
AppendEntry(w) ==
  /\ worker[w].pc = "append" /\ worker[w].left # {}
  /\ LET u == Min(worker[w].left) IN
     feeds' = Appended(u, worker[w].task.id) /\ worker' = [worker EXCEPT ![w].left = @ \ {u}]
  /\ UNCHANGED <<svars, gvars, qvars, notified, disp, reader, coverage, hvars, bvars>>
Acknowledged(w) == worker[w].pc = "append" /\ worker[w].left = {}
Ack(w) ==
  /\ Acknowledged(w)
  /\ queue' = queue \ {worker[w].task} /\ worker' = [worker EXCEPT ![w] = IdleWorker]
  /\ UNCHANGED <<svars, gvars, dead, feeds, notified, disp, reader, coverage, hvars, bvars>>
\* An error is retried MaxRetries times; a cancelled worker returns its claim.
Retry(w, cancelled) ==
  LET t == worker[w].task
      again == cancelled \/ t.attempts <= MaxRetries
  IN
  /\ worker[w].pc = "append" /\ Fault
  /\ queue' = IF again THEN (queue \ {t}) \cup {[t EXCEPT !.claimed = FALSE]} ELSE queue \ {t}
  /\ dead' = IF again THEN dead ELSE dead \cup ({t.id} \X t.to)
  /\ worker' = [worker EXCEPT ![w] = IdleWorker]
  /\ UNCHANGED <<svars, gvars, feeds, notified, disp, reader, coverage, hvars, changes, reads>>

-----------------------------------------------------------------------------
(***************************************************************************)
(* retrieve.  Candidates come from the feed index, and from the authors:   *)
(* celebrities only, or everybody when the page needs repair.              *)
(***************************************************************************)
Visible(u, fs, i) == Row(i).author \in fs /\ CanView(u, i)
Merged(r, u, S) == Newest(r.found \cup {i \in S \cap Stored : Visible(u, r.following, i) /\ (r.before = 0 \/ i < r.before)},
                          PageSize + 1)
Retrieve(u, before) ==
  /\ reader[u].pc = "idle" /\ reads < MaxReads /\ reads' = reads + 1
  /\ reader' = [reader EXCEPT ![u] =
       [pc |-> "following", before |-> before, following |-> {}, found |-> {}, left |-> {}, celebrities |-> {},
        muted |-> {}, repair |-> FALSE, calm |-> mutation = {}, base |-> Stored, page |-> {}]]
  /\ UNCHANGED <<svars, gvars, qvars, feeds, notified, disp, worker, coverage, hvars, changes, faults>>
\* get_following, then _cached_posts and the mute list
CachedPosts(u) ==
  LET k == <<"following", u>> IN
  /\ reader[u].pc = "following"
  /\ \E v \in Value(u, k) :
       LET r == [reader[u] EXCEPT !.following = v]
           muted == {a \in Users : <<u, a>> \in mutes}
       IN reader' = [reader EXCEPT ![u] = [r EXCEPT !.pc = "classify", !.found = Merged(r, u, feeds[u]),
                                                    !.muted = muted, !.left = v \ muted]]
  /\ Obtains(u, k)
  /\ UNCHANGED <<svars, qvars, feeds, notified, disp, worker, coverage, hvars, bvars>>
ClassifyAuthor(u) ==
  LET a == Min(reader[u].left)
      k == <<"count", a>>
  IN
  /\ reader[u].pc = "classify" /\ reader[u].left # {}
  /\ \E v \in Value(u, k) :
       reader' = [reader EXCEPT ![u].left = @ \ {a},
                                ![u].celebrities = IF Cardinality(v) >= Threshold THEN @ \cup {a} ELSE @]
  /\ Obtains(u, k)
  /\ UNCHANGED <<svars, qvars, feeds, notified, disp, worker, coverage, hvars, bvars>>
\* _needs_repair; the deadline of the coverage may have passed
Signature(r) == <<r.following, r.muted, r.celebrities>>
Covered(r, c) ==
  /\ r.before = 0 /\ c.signature = Signature(r) /\ Cardinality(r.found) = PageSize + 1
  /\ c.floor # 0 => Min(r.found) >= c.floor
Plan(u) ==
  LET r == reader[u] IN
  /\ r.pc = "classify" /\ r.left = {}
  /\ \E repair \in BOOLEAN :
       /\ ~ repair => \E c \in coverage[u] : Covered(r, c)
       /\ reader' = [reader EXCEPT ![u].pc = "pull", ![u].repair = repair,
                                   ![u].left = IF repair THEN r.following \ r.muted ELSE r.celebrities]
  /\ UNCHANGED <<svars, gvars, qvars, feeds, notified, disp, worker, coverage, hvars, bvars>>
AuthorPosts(u, a) == {i \in Stored : Row(i).author = a}
PullAuthor(u) ==
  LET a == Min(reader[u].left) IN
  /\ reader[u].pc = "pull" /\ reader[u].left # {}
  /\ reader' = [reader EXCEPT ![u].left = @ \ {a}, ![u].found = Merged(reader[u], u, AuthorPosts(u, a))]
  /\ UNCHANGED <<svars, gvars, qvars, feeds, notified, disp, worker, coverage, hvars, bvars>>
\* _remember_result
Remember(u) ==
  LET r == reader[u] IN
  /\ r.pc = "pull" /\ r.left = {}
  /\ feeds' = [feeds EXCEPT ![u] = Newest(@ \cup r.found, MaxEntries)]
  /\ coverage' = IF r.before # 0 THEN coverage
                 ELSE [coverage EXCEPT ![u] = {[signature |-> Signature(r),
                                                floor |-> IF r.found = {} THEN 0 ELSE Min(r.found)]}]
  /\ reader' = [reader EXCEPT ![u].pc = "current"]
  /\ UNCHANGED <<svars, gvars, qvars, notified, disp, worker, hvars, bvars>>
\* The relations and mutes are applied again to the hydrated page.
Respond(u) ==
  LET k == <<"following", u>> IN
  /\ reader[u].pc = "current"
  /\ \E v \in Value(u, k) :
       LET entries == Newest({i \in reader[u].found : Visible(u, v, i)}, PageSize) IN
       /\ reader' = [reader EXCEPT ![u].pc = "done", ![u].page = entries]
       /\ shown' = IF reader[u].before = 0 /\ reader[u].repair THEN [shown EXCEPT ![u] = entries] ELSE shown
  /\ Obtains(u, k)
  /\ UNCHANGED <<svars, qvars, feeds, notified, disp, worker, coverage, pushed, bvars>>
Close(u) ==
  /\ reader[u].pc = "done" /\ reader' = [reader EXCEPT ![u] = IdleReader]
  /\ UNCHANGED <<svars, gvars, qvars, feeds, notified, disp, worker, coverage, hvars, bvars>>

\* remove_entry
RemoveEntry(u, i) ==
  /\ i \in feeds[u] /\ changes < MaxChanges /\ changes' = changes + 1
  /\ feeds' = [feeds EXCEPT ![u] = @ \ {i}]
  /\ pushed' = [pushed EXCEPT ![i] = @ \ {u}]
  /\ UNCHANGED <<svars, gvars, qvars, notified, disp, worker, reader, coverage, shown, faults, reads>>

\* The process restarts: rows, relations and mutes remain.
Restart ==
  /\ Fault
  /\ cache' = [k \in Keys |-> {}] /\ loads' = [c \in Clients |-> {}] /\ mutation' = {}
  /\ queue' = {} /\ dead' = {} /\ feeds' = EmptyFeeds /\ notified' = EmptyFeeds /\ coverage' = [u \in Users |-> {}]
  /\ disp' = IdleDispatcher /\ worker' = [w \in Workers |-> IdleWorker] /\ reader' = [u \in Readers |-> IdleReader]
  /\ pushed' = [i \in Ids |-> {}] /\ shown' = EmptyFeeds
  /\ UNCHANGED <<svars, follows, mutes, changes, reads>>

-----------------------------------------------------------------------------
GraphStep ==
  \/ \E c \in Clients : Load(c)
  \/ \E u \in Actors, a \in Authors : Mutate(u, a) \/ Mute(u, a)
  \/ \E m \in mutation : MutateCommit(m) \/ MutateEnd(m)
  \/ \E u \in Actors : Invalidate(u)
DispatchStep ==
  \/ Publish \/ (\E i \in Ids, a \in Authors, s \in Audiences : Store(i, a, s))
  \/ (\E i \in Ids : Dispatch(i)) \/ Classify \/ Followers \/ Enqueue \/ Notify \/ Tell \/ MarkDispatched \/ Defer
WorkerStep(w) ==
  \/ (\E t \in queue : Claim(w, t)) \/ AppendEntry(w) \/ Ack(w)
  \/ \E cancelled \in BOOLEAN : Retry(w, cancelled)
ReadStep(u) ==
  \/ \E i \in Ids : RemoveEntry(u, i)
  \/ \E before \in {0} \cup Stored : Retrieve(u, before)
  \/ CachedPosts(u) \/ ClassifyAuthor(u) \/ Plan(u) \/ PullAuthor(u) \/ Remember(u) \/ Respond(u) \/ Close(u)
Next == GraphStep \/ DispatchStep \/ (\E w \in Workers : WorkerStep(w)) \/ (\E u \in Readers : ReadStep(u)) \/ Restart
Spec == Init /\ [][Next]_vars

-----------------------------------------------------------------------------
TypeOK ==
  /\ Stored \subseteq 1 .. issued /\ Cardinality(queue) <= QueueSize /\ Cardinality(mutation) <= 1
  /\ \A u \in Users : Cardinality(feeds[u]) <= MaxEntries

\* What the cache answers is what the backend has, unless the key is being
\* changed: a slow load never brings an old relation back (CachedSocialGraph).
CacheCoherent == \A k \in Keys : Free(k) => \A v \in cache[k] : v = Backend(k)
\* Everybody a post was enqueued for has it, or a task for it is outstanding
\* or failed for good, or newer posts have displaced it (worker.py, queue.py).
FanoutKept ==
  \A i \in Ids : \A u \in pushed[i] :
    \/ i \in feeds[u]
    \/ \E t \in queue : t.id = i /\ u \in t.to
    \/ <<i, u>> \in dead
    \/ Cardinality(feeds[u]) = MaxEntries /\ \A j \in feeds[u] : j > i
\* A page shows nothing its reader may not see any more, whatever happened
\* while it was put together.  If nothing did, a repaired page is complete:
\* it misses a post stored before only if it is full of newer ones.  A warm
\* page keeps the posts of the last repaired page it reaches back to.
PagesRight ==
  \A u \in Readers : reader[u].pc = "done" =>
    LET r == reader[u]
        due == {i \in Stored : <<u, Row(i).author>> \in follows /\ CanView(u, i)}
    IN /\ r.calm => r.page \subseteq due
       /\ r.calm /\ r.repair =>
            \A i \in r.base \cap due : r.before = 0 \/ i < r.before =>
              i \in r.page \/ (Cardinality(r.page) = PageSize /\ \A j \in r.page : j > i)
       /\ r.calm /\ ~ r.repair =>
            \A i \in shown[u] \cap due : i \in r.page \/ \A j \in r.page : j > i
FeedSound == TypeOK /\ CacheCoherent /\ FanoutKept /\ PagesRight
=============================================================================
