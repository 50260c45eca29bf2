---------------------------- MODULE AdClicks ----------------------------
(***************************************************************************)
(* Ad-click aggregation: the partitioned raw log (log.py), the file tailer *)
(* with its checkpoint (tailer.py, checkpoints.py), the per-partition      *)
(* event-time aggregators and their polling loops (aggregate.py,           *)
(* lifecycle.py), the fan-out query (query_service.py), and reconciliation *)
(* and replay into a separate database (recovery.py).                      *)
(*                                                                         *)
(* Time counts minutes.  An event is [id, ad, t]; its hash and payload are *)
(* the record itself.  The raw log's lineage changes when its database is  *)
(* replaced.                                                               *)
(***************************************************************************)
EXTENDS Integers, Sequences, FiniteSets, SequencesExt, FiniteSetsExt

CONSTANTS Partitions,   \* partitions of the raw log
          PartOf,       \* event id -> partition
          Batches,      \* batches clients post directly
          Source,       \* lines a writer appends to the tailed file
          Other,        \* what the file holds after it was replaced
          Tailers,      \* processes that tail the file
          TailBatch,    \* lines of one tailer request
          Databases,    \* aggregation databases
          PartitionOf,  \* database -> its partition
          Serving,      \* databases the query service reads, one per partition
          Loops,        \* polling loops and replays
          DbOf,         \* loop -> its database
          PageSize,     \* entries of one log page
          Lateness,     \* allowed lateness, minutes
          MaxEvents,    \* raw log capacity
          Readers, Capacity, TopN, Ends,
          Auditors, MaxTime, MaxQueries, MaxFaults

VARIABLES lineage,      \* identity of the raw log
          log,          \* partition -> sequence of [event, accepted]
          file,         \* lines of the tailed file
          whole,        \* complete lines of it
          checkpoint,   \* durable tailer position
          holder,       \* {} or the tailer holding the checkpoint lock
          tailer,       \* tailer -> its position and request
          db,           \* database -> checkpoint row, seen events, positions
          loop,         \* loop -> fetched page
          reader,       \* reader -> query in progress
          answers,      \* history: answered queries
          auditor,      \* auditor -> captured audit
          verdicts,     \* history: reconciliation results
          now, queries, faults

tail == <<file, whole, checkpoint, holder, tailer>>
query == <<reader, answers, auditor, verdicts, queries>>
vars == <<lineage, log, tail, db, loop, query, now, faults>>

Assumption ==
    /\ TailBatch > 0 /\ PageSize > 0 /\ Lateness >= 0 /\ Capacity > 0 /\ TopN > 0
    /\ \A p \in Partitions : Cardinality({d \in Serving : PartitionOf[d] = p}) = 1

Fault == faults < MaxFaults /\ faults' = faults + 1

---------------------------------------------------------------------------
(* The raw log *)

LoggedIn(l) == UNION {{l[p][n].event : n \in DOMAIN l[p]} : p \in Partitions}
Logged == LoggedIn(log)

\* A batch is refused whole: an id with another payload, a click in the
\* future, or no room for its new events.
Admissible(batch) ==
    LET B == Range(batch)
        fresh == B \ Logged
    IN /\ \A e \in B, f \in B \cup Logged : e.id = f.id => e = f
       /\ \A e \in fresh : e.t <= now
       /\ Cardinality(Logged) + Cardinality(fresh) <= MaxEvents

AppendOne(l, e) ==
    IF e \in LoggedIn(l) THEN l
    ELSE [l EXCEPT ![PartOf[e.id]] = Append(@, [event |-> e, accepted |-> now])]

Appended(batch) == FoldLeft(AppendOne, log, batch)

PostEvents(batch) ==
    /\ Admissible(batch)
    /\ log' = Appended(batch)
    /\ log' # log
    /\ UNCHANGED <<lineage, tail, db, loop, query, now, faults>>

\* Someone starts ingress on an empty database.
LogReplaced ==
    /\ Fault
    /\ lineage' = lineage + 1
    /\ log' = [p \in Partitions |-> <<>>]
    /\ UNCHANGED <<tail, db, loop, query, now>>

---------------------------------------------------------------------------
(* The tailed file *)

\* A line is visible before its newline is.
WriterAppends ==
    /\ whole = Len(file) /\ Len(file) < Len(Source) /\ file = SubSeq(Source, 1, Len(file))
    /\ file' = SubSeq(Source, 1, Len(file) + 1)
    /\ UNCHANGED <<lineage, log, whole, checkpoint, holder, tailer, db, loop, query, now, faults>>

WriterCompletes ==
    /\ whole < Len(file)
    /\ whole' = Len(file)
    /\ UNCHANGED <<lineage, log, file, checkpoint, holder, tailer, db, loop, query, now, faults>>

FileReplaced ==
    /\ Fault
    /\ file' = Other /\ whole' = Len(Other)
    /\ UNCHANGED <<lineage, log, checkpoint, holder, tailer, db, loop, query, now>>

NoTail == [pc |-> "idle", offset |-> 0, prefix |-> <<>>, lineage |-> 0, batch |-> <<>>,
           acked |-> 0]

\* The lock admits one owner; the checkpointed prefix must still be there.
TailStart(t) ==
    /\ holder = {}
    /\ tailer[t].pc = "idle"
    /\ checkpoint.offset <= Len(file)
    /\ SubSeq(file, 1, checkpoint.offset) = checkpoint.prefix
    /\ holder' = {t}
    /\ tailer' = [tailer EXCEPT ![t] =
          [NoTail EXCEPT !.pc = "ready", !.offset = checkpoint.offset,
                         !.prefix = checkpoint.prefix, !.lineage = checkpoint.lineage]]
    /\ UNCHANGED <<lineage, log, file, whole, checkpoint, db, loop, query, now, faults>>

\* Read complete lines and post them.  lost: ingress took the batch and the
\* answer does not arrive.
TailPost(t, outcome) ==
    LET upto  == Min({whole, tailer[t].offset + TailBatch})
        batch == SubSeq(file, tailer[t].offset + 1, upto)
    IN /\ tailer[t].pc = "ready"
       /\ batch # <<>>
       /\ IF ~Admissible(batch)
          THEN outcome = "refused" /\ UNCHANGED <<log, faults>>
          ELSE /\ log' = Appended(batch)
               /\ \/ outcome = "ok" /\ UNCHANGED faults
                  \/ outcome = "lost" /\ Fault
       /\ IF outcome = "ok" /\ tailer[t].lineage \in {0, lineage}
          THEN /\ tailer' = [tailer EXCEPT ![t].pc = "acked", ![t].batch = batch,
                                           ![t].acked = lineage]
               /\ UNCHANGED holder
          ELSE /\ tailer' = [tailer EXCEPT ![t] = NoTail]
               /\ holder' = {}
       /\ UNCHANGED <<lineage, file, whole, checkpoint, db, loop, query, now>>

\* The position moves only after the acknowledgement.
TailCheckpoint(t) ==
    LET prefix == tailer[t].prefix \o tailer[t].batch IN
    /\ tailer[t].pc = "acked"
    /\ checkpoint' = [offset |-> Len(prefix), prefix |-> prefix, lineage |-> tailer[t].acked]
    /\ tailer' = [tailer EXCEPT ![t] = [NoTail EXCEPT
          !.pc = "ready", !.offset = Len(prefix), !.prefix = prefix, !.lineage = tailer[t].acked]]
    /\ UNCHANGED <<lineage, log, file, whole, holder, db, loop, query, now, faults>>

\* Nothing left to read, or the process dies: the lock is free again.
TailEnds(t) ==
    /\ tailer[t].pc # "idle"
    /\ \/ tailer[t].pc = "ready" /\ tailer[t].offset >= whole /\ UNCHANGED faults
       \/ Fault
    /\ tailer' = [tailer EXCEPT ![t] = NoTail]
    /\ holder' = {}
    /\ UNCHANGED <<lineage, log, file, whole, checkpoint, db, loop, query, now>>

---------------------------------------------------------------------------
(* Aggregation *)

Newer(a, b) == IF a > b THEN a ELSE b

\* Mutant: the minute that ends at the watermark is taken for open.
IsLate_Strict(d, e) == e.t + 1 < d.watermark

\* An event of a minute the watermark has passed is a late correction.
IsLate(d, e) == e.t + 1 <= d.watermark

\* One entry beyond the checkpoint.
ApplyOne(d, x) ==
    LET e == x.event
        known == e \in d.seen
    IN [d EXCEPT !.seq = @ + 1,
                 !.seen = @ \cup {e},
                 !.buckets = IF known THEN @ ELSE @ \cup {e},
                 !.late = IF ~known /\ IsLate(d, e) THEN @ \cup {e} ELSE @,
                 !.positions = Append(@, x),
                 !.maxEvent = Newer(@, e.t),
                 !.watermark = Newer(Newer(@, Newer(d.maxEvent, e.t) - Lateness),
                                     x.accepted - Lateness)]

\* A page is taken whole or not at all: the lineage is bound on first use,
\* positions already taken must hold what they held, and no gap is allowed.
Fits(d, page) ==
    /\ d.lineage \in {0, page.lineage}
    /\ page.after <= d.seq
    /\ \A n \in DOMAIN page.entries :
          LET q == page.after + n IN
          /\ q <= d.seq => d.positions[q] = page.entries[n]
          /\ \A f \in d.seen : f.id = page.entries[n].event.id => f = page.entries[n].event

Applied(d, page) ==
    LET rest == SubSeq(page.entries, d.seq - page.after + 1, Len(page.entries)) IN
    FoldLeft(ApplyOne, [d EXCEPT !.lineage = page.lineage], rest)

NoPage == [pc |-> "idle", page |-> {}]

\* The loop reads its durable position and asks for the page after it; a
\* position ahead of the log is refused.
PollFetch(l) ==
    LET p == PartitionOf[DbOf[l]]
        after == db[DbOf[l]].seq
        upto == Min({Len(log[p]), after + PageSize})
    IN /\ loop[l].pc = "idle"
       /\ after <= Len(log[p])
       /\ loop' = [loop EXCEPT ![l] =
             [pc |-> "fetched",
              page |-> {[lineage |-> lineage, after |-> after,
                         entries |-> SubSeq(log[p], after + 1, upto)]}]]
       /\ UNCHANGED <<lineage, log, tail, db, query, now, faults>>

\* Aggregator.apply is one transaction; an empty page is followed by idle().
PollApply(l) ==
    \E page \in loop[l].page :
       LET d == DbOf[l] IN
       /\ loop[l].pc = "fetched"
       /\ db' = IF Fits(db[d], page) THEN [db EXCEPT ![d] = Applied(@, page)] ELSE db
       /\ loop' = [loop EXCEPT ![l] =
             IF Fits(db[d], page) /\ page.entries = <<>> THEN [NoPage EXCEPT !.pc = "idling"]
             ELSE NoPage]
       /\ UNCHANGED <<lineage, log, tail, query, now, faults>>

PollIdle(l) ==
    LET d == DbOf[l] IN
    /\ loop[l].pc = "idling"
    /\ db' = [db EXCEPT ![d].watermark =
                 IF db[d].lineage # 0 THEN Newer(@, now - Lateness) ELSE @]
    /\ loop' = [loop EXCEPT ![l] = NoPage]
    /\ UNCHANGED <<lineage, log, tail, query, now, faults>>

\* A crash inside the transaction leaves the database as it was.
LoopCrashes(l) ==
    /\ Fault
    /\ loop[l].pc # "idle"
    /\ loop' = [loop EXCEPT ![l] = NoPage]
    /\ UNCHANGED <<lineage, log, tail, db, query, now>>

---------------------------------------------------------------------------
(* Queries and reconciliation *)

Totals(E, to) == {e \in E : e.t < to}
Count(E, a) == Cardinality({e \in E : e.ad = a})

NoQuery == [pc |-> "idle", lineage |-> 0, to |-> 0, parts |-> {}]

\* Admission is bounded; the raw log's identity is read first.
QueryStart(r, to) ==
    /\ reader[r].pc = "idle"
    /\ queries < MaxQueries
    /\ Cardinality({x \in Readers : reader[x].pc # "idle"}) < Capacity
    /\ reader' = [reader EXCEPT ![r] = [NoQuery EXCEPT !.pc = "reading", !.to = to,
                                                      !.lineage = lineage]]
    /\ queries' = queries + 1
    /\ UNCHANGED <<lineage, log, tail, db, loop, answers, auditor, verdicts, now, faults>>

QueryPart(r, d) ==
    /\ reader[r].pc = "reading"
    /\ d \in Serving /\ ~\E x \in reader[r].parts : x.db = d
    /\ reader' = [reader EXCEPT ![r].parts = @ \cup
          {[db |-> d, lineage |-> db[d].lineage, seq |-> db[d].seq,
            rows |-> Totals(db[d].buckets, reader[r].to),
            late |-> db[d].late, closed |-> reader[r].to <= db[d].watermark]}]
    /\ UNCHANGED <<lineage, log, tail, db, loop, answers, auditor, verdicts, queries, now, faults>>

\* The exact top ads over every worker's candidates; a worker of another
\* lineage fails the query.
TopAds(rows) ==
    LET ads == SetToSeq({e.ad : e \in rows})
        ranked == SortSeq(ads, LAMBDA a, b : Count(rows, a) > Count(rows, b))
    IN {<<ranked[n], Count(rows, ranked[n])>> : n \in 1..Min({TopN, Len(ranked)})}

QueryReduce(r) ==
    LET parts == reader[r].parts
        rows == UNION {x.rows : x \in parts}
    IN /\ reader[r].pc = "reading"
       /\ \A d \in Serving : \E x \in parts : x.db = d
       /\ answers' = IF \E x \in parts : x.lineage # reader[r].lineage THEN answers
                     ELSE answers \cup {[lineage |-> reader[r].lineage, to |-> reader[r].to,
                                         parts |-> parts, ads |-> TopAds(rows),
                                         closed |-> \A x \in parts : x.closed]}
       /\ reader' = [reader EXCEPT ![r] = NoQuery]
       /\ UNCHANGED <<lineage, log, tail, db, loop, auditor, verdicts, queries, now, faults>>

NoAudit == [pc |-> "idle", lineage |-> 0, db |-> {}, seq |-> 0, buckets |-> {}]

AuditRead(a, d) ==
    /\ auditor[a].pc = "idle"
    /\ queries < MaxQueries
    /\ db[d].lineage = lineage
    /\ auditor' = [auditor EXCEPT ![a] =
          [pc |-> "audited", lineage |-> lineage, db |-> {d}, seq |-> db[d].seq,
           buckets |-> db[d].buckets]]
    /\ queries' = queries + 1
    /\ UNCHANGED <<lineage, log, tail, db, loop, reader, answers, verdicts, now, faults>>

\* Pages of another lineage, or a log too short, end the job.
PagesServed(a, p) == auditor[a].lineage = lineage /\ auditor[a].seq <= Len(log[p])

\* The independent batch count of the same log prefix.
Reconcile(a) ==
    \E d \in auditor[a].db :
       LET p == PartitionOf[d]
           n == auditor[a].seq
       IN /\ auditor[a].pc = "audited"
          /\ verdicts' = IF ~PagesServed(a, p) THEN verdicts
                         ELSE verdicts \cup
                              {auditor[a].buckets = {log[p][k].event : k \in 1..n}}
          /\ auditor' = [auditor EXCEPT ![a] = NoAudit]
          /\ UNCHANGED <<lineage, log, tail, db, loop, reader, answers, queries, now, faults>>

Tick ==
    /\ now < MaxTime
    /\ now' = now + 1
    /\ UNCHANGED <<lineage, log, tail, db, loop, query, faults>>

---------------------------------------------------------------------------
Init ==
    /\ lineage = 1 /\ log = [p \in Partitions |-> <<>>]
    /\ file = <<>> /\ whole = 0 /\ holder = {}
    /\ checkpoint = [offset |-> 0, prefix |-> <<>>, lineage |-> 0]
    /\ tailer = [t \in Tailers |-> NoTail]
    /\ db = [d \in Databases |->
                [lineage |-> 0, seq |-> 0, watermark |-> 0, maxEvent |-> 0, late |-> {},
                 seen |-> {}, buckets |-> {}, positions |-> <<>>]]
    /\ loop = [l \in Loops |-> NoPage]
    /\ reader = [r \in Readers |-> NoQuery] /\ answers = {}
    /\ auditor = [a \in Auditors |-> NoAudit] /\ verdicts = {}
    /\ now = 0 /\ queries = 0 /\ faults = 0

IngestStep ==
    \/ \E b \in Batches : PostEvents(b)
    \/ LogReplaced \/ WriterAppends \/ WriterCompletes \/ FileReplaced
    \/ \E t \in Tailers : TailStart(t) \/ TailCheckpoint(t) \/ TailEnds(t)
    \/ \E t \in Tailers, o \in {"ok", "lost", "refused"} : TailPost(t, o)

WorkerStep ==
    \E l \in Loops : PollFetch(l) \/ PollApply(l) \/ PollIdle(l) \/ LoopCrashes(l)

QueryStep ==
    \/ \E r \in Readers : \/ \E to \in Ends : QueryStart(r, to)
                          \/ \E d \in Serving : QueryPart(r, d)
                          \/ QueryReduce(r)
    \/ \E a \in Auditors : Reconcile(a) \/ \E d \in Databases : AuditRead(a, d)

Next == IngestStep \/ WorkerStep \/ QueryStep \/ Tick

Spec == Init /\ [][Next]_vars

---------------------------------------------------------------------------
(* Properties *)

TypeOK ==
    /\ holder \subseteq Tailers /\ Cardinality(holder) <= 1
    /\ \A d \in Databases : Len(db[d].positions) = db[d].seq
    /\ whole \in 0..Len(file) /\ verdicts \subseteq BOOLEAN

\* An event id is in the raw log once; every line the durable tailer position
\* has passed is in the log it was acknowledged by.
LinesKept ==
    /\ \A p, q \in Partitions : \A m \in DOMAIN log[p], n \in DOMAIN log[q] :
          log[p][m].event.id = log[q][n].event.id => p = q /\ m = n
    /\ checkpoint.lineage = lineage => Range(checkpoint.prefix) \subseteq Logged

\* Whatever is refetched, replayed or crashed, a database of the current log
\* counts exactly the events of the prefix its position names, and a
\* reconciliation that ends says so.
CountsExact ==
    /\ \A d \in Databases : db[d].lineage = lineage =>
          LET p == PartitionOf[d] IN
          /\ db[d].seq <= Len(log[p])
          /\ db[d].buckets = {log[p][k].event : k \in 1..db[d].seq}
    /\ verdicts \subseteq {TRUE}

\* An answer is exact for the positions it reports, from one log; and what it
\* reported as closed changes only by events counted as late corrections.
AnswersHold ==
    \A a \in answers :
        LET rows == UNION {x.rows : x \in a.parts} IN
        /\ \A x \in a.parts : db[x.db].lineage = a.lineage =>
              /\ x.rows \subseteq db[x.db].buckets
              /\ a.closed => Totals(db[x.db].buckets, a.to) \ x.rows
                                \subseteq db[x.db].late \ x.late
        /\ a.lineage = lineage => \A x \in a.parts :
              x.rows = Totals({log[PartitionOf[x.db]][k].event : k \in 1..x.seq}, a.to)
        /\ \A y \in a.ads : y[2] = Count(rows, y[1])
        /\ \A e \in rows : \A y \in a.ads :
              (~\E z \in a.ads : z[1] = e.ad) => Count(rows, e.ad) <= y[2]

ClicksSound == TypeOK /\ LinesKept /\ CountsExact /\ AnswersHold
===========================================================================
