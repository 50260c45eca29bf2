------------------------------ MODULE FileSync ------------------------------
(***************************************************************************)
(* file-sync-system: the drive's uploads, revisions, content-addressed     *)
(* blocks and event log (service.py, notifications.py, storage.py), and    *)
(* the devices that push and pull one folder (client.py, watcher.py).      *)
(* A file is its path: path 0 is the one users edit, path u the conflict   *)
(* copy of upload u.  A transaction, and a request the server answers in   *)
(* one, is a step; block transfers and commits read the store before their *)
(* transaction and go on when the device has given up waiting.             *)
(***************************************************************************)
EXTENDS Integers, Sequences, FiniteSets, FiniteSetsExt, SequencesExt

CONSTANTS
  Devices, Guests,     \* Guests: devices of a user the space is shared with
  BlocksOf,            \* [1 .. MaxEdits -> sequences of digests], the manifest of each content
  Quota, Keep,         \* in blocks; revisions prune keeps
  BatchLimit,
  MaxEdits, MaxUploads, MaxFaults, MaxAdmin    \* bounds of the model

VARIABLES
  rev,         \* revisions: <<[path, content, base, pruned]>>; content 0 is a tombstone
  uploads,     \* [Uploads -> {row}, {} without one]
  refs,        \* blocks: [Digests -> {refs}, {} without a row]
  store,       \* [Digests -> "none", "hot" or "cold"]
  events,      \* <<[rev, to]>>
  members,
  calls,       \* requests the server works on
  delivered, acked,
  file,        \* [Devices -> [Paths -> content, 0 if absent]]
  copies,      \* [Devices -> contents moved aside as local conflicts]
  known,       \* [Devices -> [Paths -> revision it has, 0 for none]]
  pending,     \* [Devices -> [Paths -> {declaration of an unfinished push}]]
  cursor, op,
  edits, issued, faults, admin,
  superseded   \* history: contents a user replaced or removed

svars == <<rev, uploads, refs, store, events, members>>
dvars == <<file, copies, known, pending, cursor>>
bvars == <<edits, issued, faults, admin>>
vars == <<svars, calls, delivered, acked, dvars, op, bvars, superseded>>

Uploads == 1 .. MaxUploads
Paths == 0 .. MaxUploads
Manifest(c) == IF c = 0 THEN <<>> ELSE BlocksOf[c]
Size(c) == Len(Manifest(c))
Digests == UNION {Range(BlocksOf[c]) : c \in 1 .. MaxEdits}
Assumption ==
  /\ Guests \subseteq Devices /\ BlocksOf \in [1 .. MaxEdits -> Seq(Nat)]
  /\ {Keep, BatchLimit} \subseteq Nat \ {0} /\ Quota \in Nat
Idle == [pc |-> "idle"]

DriveInit ==
  /\ rev = <<>> /\ uploads = [u \in Uploads |-> {}] /\ refs = [b \in Digests |-> {}]
  /\ store = [b \in Digests |-> "none"] /\ events = <<>> /\ members = Devices
  /\ calls = {} /\ delivered = [d \in Devices |-> 0] /\ acked = [d \in Devices |-> 0]
DeviceInit ==
  /\ file = [d \in Devices |-> [p \in Paths |-> 0]] /\ copies = [d \in Devices |-> {}]
  /\ known = [d \in Devices |-> [p \in Paths |-> 0]] /\ pending = [d \in Devices |-> [p \in Paths |-> {}]]
  /\ cursor = [d \in Devices |-> 0] /\ op = [d \in Devices |-> Idle]
Init ==
  /\ DriveInit /\ DeviceInit
  /\ edits = 0 /\ issued = 0 /\ faults = 0 /\ admin = 0 /\ superseded = {}

Revs == 1 .. Len(rev)
RevsOf(p) == {r \in Revs : rev[r].path = p}
Head0(p) == IF RevsOf(p) = {} THEN 0 ELSE Max(RevsOf(p))
Content(r) == IF r = 0 THEN 0 ELSE rev[r].content
Up(u) == CHOOSE x \in uploads[u] : TRUE
Open == {u \in Uploads : \E x \in uploads[u] : x.state = "OPEN"}
Pinned == UNION {Range(Manifest(Up(u).content)) : u \in Open}
Usage == MapThenSumSet(LAMBDA r : IF rev[r].pruned THEN 0 ELSE Size(rev[r].content), Revs)
         + MapThenSumSet(LAMBDA u : Size(Up(u).content), Open)
Fault == faults < MaxFaults /\ faults' = faults + 1
Admin == admin < MaxAdmin /\ admin' = admin + 1

-----------------------------------------------------------------------------
(***************************************************************************)
(* The drive.                                                              *)
(***************************************************************************)
\* begin: an upload is new, found again by its request, or refused.
Refused(q) == IF uploads[q.id] = {} THEN Usage + Size(q.content) > Quota ELSE Up(q.id).state = "CANCELLED"
Begun(q, p) == IF uploads[q.id] # {} THEN uploads
               ELSE [uploads EXCEPT ![q.id] = {[path |-> p, base |-> q.base, content |-> q.content,
                                                state |-> "OPEN", result |-> 0]}]
\* upload_status
Missing(q) == {b \in Range(Manifest(q.content)) : refs[b] = {} \/ store[b] = "none"}

\* cancel, and the uploads cleanup finds too old
Cancelled(u) == IF u \in Open THEN [uploads EXCEPT ![u] = {[Up(u) EXCEPT !.state = "CANCELLED"]}] ELSE uploads

Answer(c, ok) == calls' = (calls \ {c}) \cup (IF c.dev = {} THEN {} ELSE {[c EXCEPT !.stage = IF ok THEN "done" ELSE "failed"]})
\* put: the block is written outside the lock ...
PutWrite(c) ==
  /\ c.kind = "put" /\ c.stage = "read"
  /\ LET archived == refs[c.block] # {} /\ store[c.block] = "cold" IN
     IF c.id \in Open /\ ~ archived
     THEN store' = [store EXCEPT ![c.block] = "hot"] /\ calls' = (calls \ {c}) \cup {[c EXCEPT !.stage = "write"]}
     ELSE Answer(c, FALSE) /\ UNCHANGED store
  /\ UNCHANGED <<rev, uploads, refs, events, members, delivered, acked, dvars, op, bvars, superseded>>
\* ... and its row is accepted if the upload is still open and the object there.
PutAccept(c) ==
  LET ok == c.id \in Open /\ store[c.block] # "none" IN
  /\ c.kind = "put" /\ c.stage = "write" /\ Answer(c, ok)
  /\ refs' = IF ok /\ refs[c.block] = {} THEN [refs EXCEPT ![c.block] = {0}] ELSE refs
  /\ UNCHANGED <<rev, uploads, store, events, members, delivered, acked, dvars, op, bvars, superseded>>

\* commit: the blocks are verified outside the lock ...
CommitVerify(c) ==
  /\ c.kind = "commit" /\ c.stage = "read"
  /\ IF Up(c.id).state = "DONE" THEN Answer(c, TRUE)
     ELSE IF c.id \in Open /\ \A b \in Range(Manifest(Up(c.id).content)) : store[b] = "hot"
     THEN calls' = (calls \ {c}) \cup {[c EXCEPT !.stage = "write"]}
     ELSE Answer(c, FALSE)
  /\ UNCHANGED <<svars, delivered, acked, dvars, op, bvars, superseded>>
\* ... and their rows checked again.  A base that is not the head any more
\* makes the upload a conflict copy.
Referenced(c, by) == [b \in Digests |-> {n + by * Cardinality({i \in 1 .. Size(c) : Manifest(c)[i] = b}) : n \in refs[b]}]
Target(u) == IF Head0(Up(u).path) = Up(u).base THEN Up(u).path ELSE u
Emit(r, to) == events' = IF to = {} THEN events ELSE Append(events, [rev |-> r, to |-> to])
CommitWrite(c) ==
  LET row == Up(c.id)
      r == Len(rev) + 1
      ready == \A b \in Range(Manifest(row.content)) : refs[b] # {} /\ store[b] # "none"
  IN
  /\ c.kind = "commit" /\ c.stage = "write"
  /\ IF c.id \in Open /\ ready
     THEN /\ rev' = Append(rev, [path |-> Target(c.id), content |-> row.content, pruned |-> FALSE,
                                 base |-> IF Target(c.id) = row.path THEN row.base ELSE 0])
          /\ refs' = Referenced(row.content, 1)
          /\ uploads' = [uploads EXCEPT ![c.id] = {[row EXCEPT !.state = "DONE", !.result = r]}]
          /\ Emit(r, members) /\ Answer(c, TRUE)
     ELSE Answer(c, row.state = "DONE") /\ UNCHANGED <<rev, refs, uploads, events>>
  /\ UNCHANGED <<store, members, delivered, acked, dvars, op, bvars, superseded>>

\* delete appends a tombstone
Tombstone(p, base) == /\ rev' = Append(rev, [path |-> p, content |-> 0, base |-> base, pruned |-> FALSE])
                      /\ Emit(Len(rev) + 1, members)

\* restore: an upload of an old revision's content against the present head
RestoreRevision(r) ==
  LET u == issued + 1
      q == [id |-> u, base |-> Head0(rev[r].path), content |-> rev[r].content]
  IN
  /\ Admin /\ u \in Uploads /\ ~ rev[r].pruned /\ rev[r].content # 0 /\ ~ Refused(q)
  /\ uploads' = Begun(q, rev[r].path) /\ issued' = u
  /\ calls' = calls \cup {[dev |-> {}, kind |-> "commit", id |-> u, block |-> 0, stage |-> "read"]}
  /\ UNCHANGED <<rev, refs, store, events, members, delivered, acked, dvars, op, edits, faults, superseded>>
\* prune
Prunable(p) == {r \in RevsOf(p) : ~ rev[r].pruned /\ Cardinality({s \in RevsOf(p) : s > r /\ ~ rev[s].pruned}) >= Keep}
Prune(p) ==
  /\ Admin /\ Prunable(p) # {}
  /\ LET r == Min(Prunable(p)) IN
     rev' = [rev EXCEPT ![r].pruned = TRUE] /\ refs' = Referenced(rev[r].content, -1)
  /\ UNCHANGED <<uploads, store, events, members, calls, delivered, acked, dvars, op, edits, issued, faults, superseded>>
\* cleanup: old open uploads, then old blocks nobody references and old objects without a row
Expire(u) ==
  /\ Admin /\ u \in Open /\ uploads' = Cancelled(u)
  /\ UNCHANGED <<rev, refs, store, events, members, calls, delivered, acked, dvars, op, edits, issued, faults, superseded>>
Garbage(b) == refs[b] = {} \/ (refs[b] = {0} /\ b \notin Pinned)
Collect(b) ==
  /\ Admin /\ store[b] # "none" /\ Garbage(b)
  /\ refs' = [refs EXCEPT ![b] = {}] /\ store' = [store EXCEPT ![b] = "none"]
  /\ UNCHANGED <<rev, uploads, events, members, calls, delivered, acked, dvars, op, edits, issued, faults, superseded>>
\* archive and restore of the cold tier
Move(b) ==
  /\ Admin /\ store[b] # "none"
  /\ store' = [store EXCEPT ![b] = IF @ = "hot" THEN "cold" ELSE "hot"]
  /\ UNCHANGED <<rev, uploads, refs, events, members, calls, delivered, acked, dvars, op, edits, issued, faults, superseded>>
\* share: a guest is told the head of every file again
Share(g) ==
  /\ Admin
  /\ IF g \in members
     THEN members' = members \ {g} /\ UNCHANGED events
     ELSE /\ members' = members \cup {g}
          /\ events' = events \o SetToSeq({[rev |-> Head0(p), to |-> {g}] : p \in {q \in Paths : Head0(q) # 0}})
  /\ UNCHANGED <<rev, uploads, refs, store, calls, delivered, acked, dvars, op, edits, issued, faults, superseded>>

-----------------------------------------------------------------------------
(***************************************************************************)
(* A device runs one operation at a time; its user edits meanwhile.        *)
(***************************************************************************)
Edit(d) ==
  /\ edits < MaxEdits /\ edits' = edits + 1
  /\ superseded' = superseded \cup ({file[d][0]} \ {0}) /\ file' = [file EXCEPT ![d][0] = edits + 1]
  /\ UNCHANGED <<svars, calls, delivered, acked, copies, known, pending, cursor, op, issued, faults, admin>>
RemoveFile(d) ==
  /\ file[d][0] # 0 /\ Admin
  /\ superseded' = superseded \cup {file[d][0]} /\ file' = [file EXCEPT ![d][0] = 0]
  /\ UNCHANGED <<svars, calls, delivered, acked, copies, known, pending, cursor, op, edits, issued, faults>>

Done(d) == op' = [op EXCEPT ![d] = Idle]
Goto(d, pc) == op' = [op EXCEPT ![d].pc = pc]
\* An error, a timeout or a crash: what is on disk stays, and so do requests.
Abort(d) ==
  /\ op[d].pc # "idle" /\ Fault /\ Done(d)
  /\ calls' = {IF c.dev = {d} THEN [c EXCEPT !.dev = {}] ELSE c : c \in calls}
  /\ UNCHANGED <<svars, delivered, acked, dvars, edits, issued, admin, superseded>>

PushStart(d, p) ==
  /\ op[d].pc = "idle" /\ file[d][p] # 0
  /\ op' = [op EXCEPT ![d] = [pc |-> "reconcile", path |-> p, content |-> file[d][p], missing |-> {}, call |-> ""]]
  /\ UNCHANGED <<svars, calls, delivered, acked, dvars, bvars, superseded>>
Decl(d) == CHOOSE q \in pending[d][op[d].path] : TRUE
NoPending(d) == [pending EXCEPT ![d][op[d].path] = {}]
Remembered(d, r) == [known EXCEPT ![d][rev[r].path] = IF r >= @ THEN r ELSE @]
\* apply(event) and what follows it: the rest of a push, a pull or a delete
Applying(d, r, after, more) == op' = [op EXCEPT ![d] = [pc |-> "fetch", path |-> 0, rev |-> r, seen |-> 0,
                                                        after |-> after, more |-> more]]

\* _reconcile_done
Reconcile(d) ==
  LET p == op[d].path
      q == Decl(d)
      r == Up(q.id).result
  IN
  /\ op[d].pc = "reconcile"
  /\ \/ pending[d][p] = {} /\ Goto(d, "compare") /\ UNCHANGED <<uploads, known, pending>>
     \/ pending[d][p] # {} /\ d \notin members /\ Done(d) /\ UNCHANGED <<uploads, known, pending>>
     \/ /\ pending[d][p] # {} /\ d \in members
        /\ IF Refused(q)
           THEN pending' = NoPending(d) /\ Goto(d, "compare") /\ UNCHANGED <<uploads, known>>
           ELSE /\ uploads' = Begun(q, p)
                /\ IF uploads[q.id] = {} \/ r = 0
                   THEN Goto(d, "compare") /\ UNCHANGED <<known, pending>>
                   ELSE IF rev[r].pruned
                   THEN Done(d) /\ UNCHANGED <<known, pending>>
                   ELSE IF rev[r].path # p
                   THEN Applying(d, r, "push", op[d]) /\ UNCHANGED <<known, pending>>
                   ELSE /\ known' = Remembered(d, r) /\ pending' = NoPending(d)
                        /\ IF rev[r].content = op[d].content /\ known[d][p] <= r THEN Done(d) ELSE Goto(d, "compare")
  /\ UNCHANGED <<rev, refs, store, events, members, calls, delivered, acked, file, copies, cursor, bvars, superseded>>

\* The local content is the one it has; or a declaration is made or found.
Unchanged(d) == Content(known[d][op[d].path]) = op[d].content
Declared(d, q) == q.base = known[d][op[d].path] /\ q.content = op[d].content
Declare(d) ==
  /\ issued + 1 \in Uploads /\ issued' = issued + 1
  /\ pending' = [pending EXCEPT ![d][op[d].path] =
       {[id |-> issued + 1, base |-> known[d][op[d].path], content |-> op[d].content]}]
  /\ Goto(d, "begin")
Compare(d) ==
  LET p == op[d].path IN
  /\ op[d].pc = "compare"
  /\ \/ pending[d][p] = {} /\ Unchanged(d) /\ Done(d) /\ UNCHANGED <<pending, issued>>
     \/ pending[d][p] = {} /\ ~ Unchanged(d) /\ Declare(d)
     \/ /\ pending[d][p] # {} /\ UNCHANGED <<pending, issued>>
        /\ IF ~ Unchanged(d) /\ Declared(d, Decl(d)) THEN Goto(d, "begin")
           ELSE IF d \in members /\ ~ Refused(Decl(d)) THEN Goto(d, "cancel") ELSE Done(d)
  /\ UNCHANGED <<svars, calls, delivered, acked, file, copies, known, cursor, edits, faults, admin, superseded>>
CancelOld(d) ==
  /\ op[d].pc = "cancel" /\ d \in members
  /\ uploads' = Cancelled(Decl(d).id)
  /\ IF Unchanged(d) THEN pending' = NoPending(d) /\ Done(d) /\ UNCHANGED issued ELSE Declare(d)
  /\ UNCHANGED <<rev, refs, store, events, members, calls, delivered, acked, file, copies, known, cursor, edits, faults, admin,
                superseded>>
Begin(d) ==
  LET q == Decl(d) IN
  /\ op[d].pc = "begin"
  /\ IF d \notin members \/ Refused(q) THEN Done(d) /\ UNCHANGED uploads
     ELSE /\ uploads' = Begun(q, op[d].path)
          /\ op' = [op EXCEPT ![d].pc = "blocks", ![d].missing =
               IF \E x \in uploads'[q.id] : x.state = "OPEN" THEN Missing(q) ELSE {}]
  /\ UNCHANGED <<rev, refs, store, events, members, calls, delivered, acked, dvars, bvars, superseded>>
\* The missing blocks the file still has, then the commit if it has not changed.
Call(d, kind, b) ==
  /\ calls' = calls \cup {[dev |-> {d}, kind |-> kind, id |-> Decl(d).id, block |-> b, stage |-> "read"]}
  /\ op' = [op EXCEPT ![d].pc = "await", ![d].call = kind, ![d].missing = @ \ {b}]
Transfer(d) ==
  LET left == op[d].missing \cap Range(Manifest(file[d][op[d].path])) IN
  /\ op[d].pc = "blocks" /\ d \in members
  /\ \/ left # {} /\ Call(d, "put", Min(left))
     \/ left = {} /\ file[d][op[d].path] = op[d].content /\ Call(d, "commit", 0)
     \/ left = {} /\ file[d][op[d].path] # op[d].content /\ Done(d) /\ UNCHANGED calls
  /\ UNCHANGED <<svars, delivered, acked, dvars, bvars, superseded>>
Receive(d, c) ==
  /\ op[d].pc = "await" /\ c.dev = {d} /\ c.stage \in {"done", "failed"}
  /\ calls' = calls \ {c}
  /\ IF c.stage = "failed" THEN Done(d) ELSE Goto(d, IF c.kind = "put" THEN "blocks" ELSE "copy")
  /\ UNCHANGED <<svars, delivered, acked, dvars, bvars, superseded>>
\* The end of a push: a conflict copy, the revision, and no pending push.
CopyConflict(d) ==
  LET r == Up(Decl(d).id).result
      t == rev[r].path
  IN
  /\ op[d].pc = "copy"
  /\ IF rev[r].pruned \/ d \notin members
        \/ (t # op[d].path /\ (file[d][t] \notin {0, rev[r].content} \/ (file[d][t] = 0 /\ file[d][op[d].path] # rev[r].content)))
     THEN Done(d) /\ UNCHANGED file
     ELSE Goto(d, "remember") /\ file' = IF t # op[d].path THEN [file EXCEPT ![d][t] = rev[r].content] ELSE file
  /\ UNCHANGED <<svars, calls, delivered, acked, copies, known, pending, cursor, bvars, superseded>>
RememberPush(d) ==
  /\ op[d].pc = "remember" /\ known' = Remembered(d, Up(Decl(d).id).result) /\ Goto(d, "clear")
  /\ UNCHANGED <<svars, calls, delivered, acked, file, copies, pending, cursor, bvars, superseded>>
ClearPending(d) ==
  /\ op[d].pc = "clear" /\ pending' = NoPending(d) /\ Done(d)
  /\ UNCHANGED <<svars, calls, delivered, acked, file, copies, known, cursor, bvars, superseded>>

\* delete: a stale base is an error unless somebody else deleted the file.
DeleteStart(d, p) ==
  LET h == Head0(p) IN
  /\ op[d].pc = "idle" /\ file[d][p] = 0 /\ Content(known[d][p]) # 0 /\ d \in members
  /\ IF h = known[d][p] THEN Tombstone(p, h) ELSE Content(h) = 0 /\ UNCHANGED <<rev, events>>
  /\ Applying(d, IF h = known[d][p] THEN Len(rev) + 1 ELSE h, "idle", Idle)
  /\ UNCHANGED <<uploads, refs, store, members, calls, delivered, acked, dvars, bvars, superseded>>

\* pull: a batch of visible events, applied one after the other
VisibleTo(d) == IF d \in members THEN {i \in 1 .. Len(events) : i > cursor[d] /\ d \in events[i].to} ELSE {}
Batch(d) == {i \in VisibleTo(d) : Cardinality({j \in VisibleTo(d) : j < i}) < BatchLimit}
PullStart(d) ==
  LET end == IF Batch(d) = {} THEN Len(events) ELSE Max(Batch(d)) IN
  /\ op[d].pc = "idle" /\ cursor[d] < Len(events)
  /\ delivered' = [delivered EXCEPT ![d] = Max({@, end})]
  /\ op' = [op EXCEPT ![d] = [pc |-> "pull", left |-> {events[i].rev : i \in Batch(d)}, end |-> end]]
  /\ UNCHANGED <<svars, calls, acked, dvars, bvars, superseded>>
\* Events of one path are applied in order; the others are about other files.
PullNext(d) ==
  /\ op[d].pc = "pull" /\ op[d].left # {}
  /\ Applying(d, Min(op[d].left), "pull", [op[d] EXCEPT !.left = @ \ {Min(@)}])
  /\ UNCHANGED <<svars, calls, delivered, acked, dvars, bvars, superseded>>
PullEnd(d) ==
  /\ op[d].pc = "pull" /\ op[d].left = {}
  /\ cursor' = [cursor EXCEPT ![d] = op[d].end] /\ op' = [op EXCEPT ![d] = [pc |-> "ack", end |-> op[d].end]]
  /\ UNCHANGED <<svars, calls, delivered, acked, file, copies, known, pending, bvars, superseded>>
Ack(d) ==
  /\ op[d].pc = "ack" /\ op[d].end <= delivered[d]
  /\ acked' = [acked EXCEPT ![d] = Max({@, op[d].end})] /\ Done(d)
  /\ UNCHANGED <<svars, calls, delivered, dvars, bvars, superseded>>

\* apply.  A pruned revision is replaced by the head; a revision that is not
\* newer is skipped; no access, nothing to do.
Applied(d) ==
  LET m == op[d].more
      r == op[d].rev
      pushed == op[d].after = "push"
  IN
  /\ pending' = IF pushed THEN [pending EXCEPT ![d][m.path] = {}] ELSE pending
  /\ op' = [op EXCEPT ![d] =
       IF ~ pushed THEN m
       ELSE IF rev[r].content = m.content /\ known[d][rev[r].path] <= r THEN Idle ELSE [m EXCEPT !.pc = "compare"]]
Fetch(d) ==
  LET r == IF rev[op[d].rev].pruned THEN Head0(rev[op[d].rev].path) ELSE op[d].rev
      p == rev[r].path
  IN
  /\ op[d].pc = "fetch"
  /\ IF d \notin members \/ known[d][p] >= r THEN Applied(d)
     ELSE /\ UNCHANGED pending
          /\ IF \A b \in Range(Manifest(rev[r].content)) : store[b] = "hot"
             THEN op' = [op EXCEPT ![d].pc = "preserve", ![d].path = p, ![d].rev = r] ELSE Done(d)
  /\ UNCHANGED <<svars, calls, delivered, acked, file, copies, known, cursor, bvars, superseded>>
Dirty(d, p, r) == file[d][p] \notin {0, rev[r].content} /\ (known[d][p] = 0 \/ file[d][p] # Content(known[d][p]))
Preserve(d) ==
  LET p == op[d].path IN
  /\ op[d].pc = "preserve"
  /\ IF Dirty(d, p, op[d].rev)
     THEN /\ copies' = [copies EXCEPT ![d] = @ \cup {file[d][p]}] /\ file' = [file EXCEPT ![d][p] = 0]
          /\ op' = [op EXCEPT ![d].pc = "replace", ![d].seen = 0]
     ELSE op' = [op EXCEPT ![d].pc = "replace", ![d].seen = file[d][p]] /\ UNCHANGED <<copies, file>>
  /\ UNCHANGED <<svars, calls, delivered, acked, known, pending, cursor, bvars, superseded>>
Replace(d) ==
  LET p == op[d].path IN
  /\ op[d].pc = "replace" /\ Goto(d, "record")
  /\ superseded' = superseded \cup (IF file[d][p] = op[d].seen THEN {} ELSE {file[d][p]} \ {0})
  /\ file' = [file EXCEPT ![d][p] = rev[op[d].rev].content]
  /\ UNCHANGED <<svars, calls, delivered, acked, copies, known, pending, cursor, bvars>>
Record(d) ==
  /\ op[d].pc = "record" /\ known' = Remembered(d, op[d].rev) /\ Applied(d)
  /\ UNCHANGED <<svars, calls, delivered, acked, file, copies, cursor, bvars, superseded>>

-----------------------------------------------------------------------------
ServerStep ==
  \/ \E c \in calls : PutWrite(c) \/ PutAccept(c) \/ CommitVerify(c) \/ CommitWrite(c)
  \/ \E r \in Revs : RestoreRevision(r)
  \/ \E p \in Paths : Prune(p)
  \/ \E u \in Uploads : Expire(u)
  \/ \E b \in Digests : Collect(b) \/ Move(b)
  \/ \E g \in Guests : Share(g)
PushStep(d) ==
  \/ (\E p \in Paths : PushStart(d, p)) \/ Reconcile(d) \/ Compare(d) \/ CancelOld(d) \/ Begin(d) \/ Transfer(d)
  \/ (\E c \in calls : Receive(d, c)) \/ CopyConflict(d) \/ RememberPush(d) \/ ClearPending(d)
PullStep(d) ==
  \/ PullStart(d) \/ PullNext(d) \/ PullEnd(d) \/ Ack(d) \/ Fetch(d) \/ Preserve(d) \/ Replace(d) \/ Record(d)
  \/ \E p \in Paths : DeleteStart(d, p)
Next == ServerStep \/ \E d \in Devices : Edit(d) \/ RemoveFile(d) \/ Abort(d) \/ PushStep(d) \/ PullStep(d)
Spec == Init /\ [][Next]_vars

-----------------------------------------------------------------------------
TypeOK ==
  /\ \A d \in Devices : acked[d] <= delivered[d] /\ acked[d] <= cursor[d] /\ delivered[d] <= Len(events)
  /\ \A d \in Devices, p \in Paths : known[d][p] \in {0} \cup RevsOf(p)
  /\ \A u \in Uploads : \A x \in uploads[u] : (x.state = "DONE") = (x.result # 0)

\* Every revision that is not pruned can be read, its blocks count exactly its
\* references, and revisions and reservations stay within the quota.
BlocksKept ==
  /\ \A r \in Revs : ~ rev[r].pruned => \A b \in Range(Manifest(rev[r].content)) : store[b] # "none" /\ refs[b] # {}
  /\ \A b \in Digests : \A n \in refs[b] :
       n = MapThenSumSet(LAMBDA r : Cardinality({i \in 1 .. Size(rev[r].content) : Manifest(rev[r].content)[i] = b}),
                         {r \in Revs : ~ rev[r].pruned})
  /\ Usage <= Quota
\* A revision follows the one its author had: nobody's revision is overwritten
\* unseen; and what a user wrote is in the folder, in a copy or in a revision.
NothingLost ==
  /\ \A r \in Revs : rev[r].base = Max({s \in RevsOf(rev[r].path) : s < r} \cup {0})
  /\ \A c \in 1 .. edits :
       \/ c \in superseded
       \/ \E d \in Devices : c \in copies[d] \/ \E p \in Paths : file[d][p] = c
       \/ \E r \in Revs : rev[r].content = c
\* A device that has applied all events has the head of every file, whatever
\* was interrupted, pruned or revoked meanwhile; a file that differs from the
\* revision it has is one its user wrote.
Converges ==
  \A d \in members : op[d].pc = "idle" /\ cursor[d] = Len(events) =>
    \A p \in Paths : known[d][p] = Head0(p) /\ (p # 0 => file[d][p] \in {0, Content(known[d][p])})
SyncSound == TypeOK /\ BlocksKept /\ NothingLost /\ Converges
=============================================================================
