--------------------------- MODULE ObjectStorage ---------------------------
(***************************************************************************)
(* object-storage-system: one coordinator (service.py, catalog.py), the    *)
(* metadata shard that owns one key of one bucket (metadata.py) and the    *)
(* data nodes seen as sets of verified chunks with a collection            *)
(* generation (node.py; their pack files are the subject of ObjectNode).   *)
(*                                                                         *)
(* A PUT stores chunks on a quorum of nodes, records a durable publication *)
(* intent, sends the publication to the metadata shard and closes the      *)
(* intent.  A multipart upload pins its parts, freezes itself as           *)
(* "completing" and publishes the same way.  Maintenance replays what is   *)
(* pending, marks what is referenced and sweeps the rest.  A remote call   *)
(* may fail, may be executed with its answer lost, or may be executed long *)
(* after the caller gave up (the set late).                                *)
(***************************************************************************)
EXTENDS Integers, Sequences, FiniteSets

CONSTANTS
    Chunks,     \* contents, named by their hash
    Nodes,      \* data nodes
    Quorum,     \* write_quorum
    Requests,   \* idempotency keys of PUT
    Deletes,    \* idempotency keys of DELETE (they may be keys of PUT too)
    Uploads,    \* multipart sessions that may be started
    UploadKey,  \* UploadKey[u]: the idempotency key an upload was started with
    Declared,   \* Declared[u]: the sequence of chunks the declared sha256 stands for
    Clients,    \* coordinator threads serving callers
    None,
    MaxLate,    \* bound: remote calls executing after their caller gave up
    MaxLost,    \* bound: copies lost to damage
    MaxCrashes  \* bound: coordinator restarts

\* What the constants may be: None is neither an upload nor an intent.
Assumption ==
    /\ IsFiniteSet(Nodes) /\ Quorum \in 1..Cardinality(Nodes)
    /\ \A u \in Uploads : Declared[u] \in Seq(Chunks)
    /\ None \notin Uploads
    /\ None \notin [manifest : Seq(Chunks), marker : BOOLEAN, done : BOOLEAN]

Keys == Requests \cup Deletes \cup {UploadKey[u] : u \in Uploads}

VARIABLES
    bucket,    \* "open" or "deleted"
    pubs,      \* catalog table publications: key -> None or the intent
    versions,  \* metadata tables versions and receipts, in seq order
    uploads,   \* catalog tables uploads and parts
    stored,    \* node -> chunks it serves with a matching hash
    gen,       \* node -> gc_generation
    late,      \* remote calls their callers no longer wait for
    ops,       \* client threads, each inside Runtime.guard(shared)
    admin,     \* the thread that takes Runtime.guard(exclusive)
    lost,      \* damaged copies so far
    crashes

vars == <<bucket, pubs, versions, uploads, stored, gen, late, ops, admin, lost, crashes>>

Idle == [phase |-> "idle"]

RangeOf(s) == {s[i] : i \in 1..Len(s)}
PartsOf(u) == {uploads[u].parts[n] : n \in DOMAIN uploads[u].parts}

Init ==
    /\ bucket = "open"
    /\ pubs = [k \in Keys |-> None]
    /\ versions = <<>>
    /\ uploads = [u \in Uploads |-> [state |-> "none", expired |-> FALSE, parts |-> <<>>]]
    /\ stored = [n \in Nodes |-> {}]
    /\ gen = [n \in Nodes |-> 0]
    /\ late = {}
    /\ ops = [c \in Clients |-> Idle]
    /\ admin = Idle
    /\ lost = 0
    /\ crashes = 0

-----------------------------------------------------------------------------
(* Data nodes. *)

\* A uuid4 differs from every generation anybody still compares with the node's.
Held(n) ==
    {m.gen : m \in {x \in late : x.kind = "collect" /\ x.node = n}}
    \cup (IF admin.phase \in {"mark", "repair", "sweep"}
          THEN {admin.gens[n]} ELSE {})
FreshGen(n) == CHOOSE g \in 0..Cardinality(Held(n)) :
                 g \notin Held(n) /\ \A h \in 0..(g - 1) : h \in Held(n)

PutOn_DuplicateKeepsGeneration(S, chunk) ==
    /\ stored' = [n \in Nodes |-> IF n \in S THEN stored[n] \cup {chunk} ELSE stored[n]]
    /\ gen' = [n \in Nodes |->
                 IF n \in S /\ chunk \notin stored[n] THEN FreshGen(n) ELSE gen[n]]

\* PUT /chunks/{hash} executed by the nodes of S, duplicates included.
PutOn(S, chunk) ==
    /\ stored' = [n \in Nodes |-> IF n \in S THEN stored[n] \cup {chunk} ELSE stored[n]]
    /\ gen' = [n \in Nodes |-> IF n \in S THEN FreshGen(n) ELSE gen[n]]

CollectOn_Unfenced(S, live, generations) ==
    /\ \E kept \in SUBSET (Chunks \ live) :
         stored' = [n \in Nodes |-> IF n \in S THEN stored[n] \cap (live \cup kept) ELSE stored[n]]
    /\ gen' = [n \in Nodes |-> IF n \in S THEN FreshGen(n) ELSE gen[n]]

\* POST /collect executed by the nodes of S: each compares generations under its
\* write lock.  Chunks younger than grace, and those left when one removal
\* fails, stay.
CollectOn(S, live, generations) ==
    LET Accepts(n) == n \in S /\ generations[n] = gen[n] IN
    /\ \E kept \in SUBSET (Chunks \ live) :
         stored' = [n \in Nodes |-> IF Accepts(n) THEN stored[n] \cap (live \cup kept) ELSE stored[n]]
    /\ gen' = [n \in Nodes |-> IF Accepts(n) THEN FreshGen(n) ELSE gen[n]]

\* recover() at a restart, and compact(): same chunks, new generation.
NodeRestart(n) ==
    /\ gen' = [gen EXCEPT ![n] = FreshGen(n)]
    /\ UNCHANGED <<bucket, pubs, versions, uploads, stored, late, ops, admin, lost, crashes>>

\* A copy no longer matches its hash, so get() refuses it.
Damage(n) ==
    /\ lost < MaxLost
    /\ \E chunk \in stored[n] : stored' = [stored EXCEPT ![n] = @ \ {chunk}]
    /\ lost' = lost + 1
    /\ UNCHANGED <<bucket, pubs, versions, uploads, gen, late, ops, admin, crashes>>

Holders(chunk) == {n \in DOMAIN stored : chunk \in stored[n]}

-----------------------------------------------------------------------------
(* Metadata shard. *)

Published(k) == \E i \in 1..Len(versions) : versions[i].key = k

MetaPublish_NoReceipt(k) ==
    Append(versions, [key |-> k, chunks |-> RangeOf(pubs[k].manifest),
                      marker |-> pubs[k].marker, removed |-> FALSE])

\* Metadata.publish: a receipt of the same key answers as a duplicate.  The
\* receipt's content cannot differ: the intent of a key never changes.
MetaPublish(k) ==
    IF Published(k) THEN versions
    ELSE Append(versions, [key |-> k, chunks |-> RangeOf(pubs[k].manifest),
                           marker |-> pubs[k].marker, removed |-> FALSE])

LiveVersions == {i \in 1..Len(versions) : ~versions[i].removed}

-----------------------------------------------------------------------------
(* Catalog: publication intents. *)

Intent(manifest, marker) == [manifest |-> manifest, marker |-> marker, done |-> FALSE]

SameContent(intent, manifest, marker) ==
    intent.manifest = manifest /\ intent.marker = marker

\* prepare_publication: insert, accept the same content, refuse another.
Prepare(k, manifest, marker) ==
    pubs' = IF pubs[k] = None THEN [pubs EXCEPT ![k] = Intent(manifest, marker)] ELSE pubs

Conflicts(k, manifest, marker) == pubs[k] # None /\ ~SameContent(pubs[k], manifest, marker)

Pending == {k \in Keys : pubs[k] # None /\ ~pubs[k].done}

LatePublish(k) == [kind |-> "publish", key |-> k]

(* Service.publish after the intent is durable: /publish, then             *)
(* finish_publication.  "ok": both happened.  "lost": executed, the answer *)
(* did not arrive.  "late": the shard will execute it later.  "fail": it   *)
(* never arrived.                                                          *)
\* finish_publication before the receipt is verified.
SendPublication_ClosesEarly(k, outcome) ==
    /\ outcome \in {"ok", "lost", "late", "fail"}
    /\ versions' = IF outcome \in {"ok", "lost"} THEN MetaPublish(k) ELSE versions
    /\ pubs' = [pubs EXCEPT ![k].done = TRUE]
    /\ IF outcome = "late"
       THEN Cardinality(late) < MaxLate /\ late' = late \cup {LatePublish(k)}
       ELSE UNCHANGED late

SendPublication(k, outcome) ==
    /\ outcome \in {"ok", "lost", "late", "fail"}
    /\ versions' = IF outcome \in {"ok", "lost"} THEN MetaPublish(k) ELSE versions
    /\ pubs' = IF outcome = "ok" THEN [pubs EXCEPT ![k].done = TRUE] ELSE pubs
    /\ IF outcome = "late"
       THEN Cardinality(late) < MaxLate /\ late' = late \cup {LatePublish(k)}
       ELSE UNCHANGED late

-----------------------------------------------------------------------------
(* Client threads.  Every ordinary request holds the shared guard from its *)
(* first to its last step.                                                 *)

SharedFree_IgnoresWaiting == admin.phase \in {"idle", "waiting"}

\* Runtime.guard(False): no exclusive owner, and none waiting.
SharedFree == admin.phase = "idle"
Enter(c, op) ==
    /\ ops[c].phase = "idle"
    /\ SharedFree
    /\ bucket = "open"
    /\ ops' = [ops EXCEPT ![c] = op]

Leave(c) == ops' = [ops EXCEPT ![c] = Idle]

PutRequest(c, k, chunk) ==
    /\ Enter(c, [phase |-> "store", chunk |-> chunk, key |-> k, upload |-> None,
                 manifest |-> <<chunk>>, marker |-> FALSE])
    /\ UNCHANGED <<bucket, pubs, versions, uploads, stored, gen, late, admin, lost, crashes>>

DeleteRequest(c, k) ==
    /\ Enter(c, [phase |-> "prepare", key |-> k, upload |-> None,
                 manifest |-> <<>>, marker |-> TRUE])
    /\ UNCHANGED <<bucket, pubs, versions, uploads, stored, gen, late, admin, lost, crashes>>

\* Any acknowledgement at all counts as durable.
Store_OneCopy(c) ==
    /\ ops[c].phase = "store"
    /\ \E S \in SUBSET Nodes : \E L \in SUBSET (Nodes \ S) :
         /\ PutOn(S, ops[c].chunk)
         /\ late' = late \cup {[kind |-> "put", node |-> n, chunk |-> ops[c].chunk] : n \in L}
         /\ Cardinality(late') <= MaxLate
         /\ IF Cardinality(S) < 1
            THEN Leave(c)
            ELSE ops' = [ops EXCEPT ![c].phase = IF ops[c].upload = None THEN "prepare" ELSE "add"]
    /\ UNCHANGED <<bucket, pubs, versions, uploads, admin, lost, crashes>>

\* ChunkIO.write: the nodes of S execute and acknowledge, those of L execute later.
Store(c) ==
    /\ ops[c].phase = "store"
    /\ \E S \in SUBSET Nodes : \E L \in SUBSET (Nodes \ S) :
         /\ PutOn(S, ops[c].chunk)
         /\ late' = late \cup {[kind |-> "put", node |-> n, chunk |-> ops[c].chunk] : n \in L}
         /\ Cardinality(late') <= MaxLate
         /\ IF Cardinality(S) < Quorum
            THEN Leave(c)
            ELSE ops' = [ops EXCEPT ![c].phase = IF ops[c].upload = None THEN "prepare" ELSE "add"]
    /\ UNCHANGED <<bucket, pubs, versions, uploads, admin, lost, crashes>>

PrepareRequest(c) ==
    /\ ops[c].phase = "prepare"
    /\ LET o == ops[c] IN
         IF Conflicts(o.key, o.manifest, o.marker)
         THEN Leave(c) /\ UNCHANGED pubs
         ELSE /\ Prepare(o.key, o.manifest, o.marker)
              /\ ops' = [ops EXCEPT ![c].phase = "send"]
    /\ UNCHANGED <<bucket, versions, uploads, stored, gen, late, admin, lost, crashes>>

\* An upload is marked complete whatever became of its publication.
PublishRequest_MarksAnyway(c, outcome) ==
    /\ ops[c].phase = "send"
    /\ SendPublication(ops[c].key, outcome)
    /\ IF ops[c].upload # None
       THEN ops' = [ops EXCEPT ![c].phase = "complete"]
       ELSE Leave(c)
    /\ UNCHANGED <<bucket, uploads, stored, gen, admin, lost, crashes>>

PublishRequest(c, outcome) ==
    /\ ops[c].phase = "send"
    /\ SendPublication(ops[c].key, outcome)
    /\ IF outcome = "ok" /\ ops[c].upload # None
       THEN ops' = [ops EXCEPT ![c].phase = "complete"]
       ELSE Leave(c)
    /\ UNCHANGED <<bucket, uploads, stored, gen, admin, lost, crashes>>

\* Service.get: the descriptor is read first, the chunks afterwards.
GetRequest(c) ==
    /\ \E i \in LiveVersions :
         /\ ~versions[i].marker
         /\ Enter(c, [phase |-> "reading", chunks |-> versions[i].chunks])
    /\ UNCHANGED <<bucket, pubs, versions, uploads, stored, gen, late, admin, lost, crashes>>

GetAnswer(c) ==
    /\ ops[c].phase = "reading"
    /\ Leave(c)
    /\ UNCHANGED <<bucket, pubs, versions, uploads, stored, gen, late, admin, lost, crashes>>

\* DELETE of one version, and POST .../retention with keep = 1.
RemoveVersion(i) ==
    /\ SharedFree /\ bucket = "open"
    /\ i \in LiveVersions
    /\ versions' = [versions EXCEPT ![i].removed = TRUE]
    /\ UNCHANGED <<bucket, pubs, uploads, stored, gen, late, ops, admin, lost, crashes>>

Prune ==
    /\ SharedFree /\ bucket = "open"
    /\ Cardinality(LiveVersions) > 1
    /\ versions' = [i \in 1..Len(versions) |->
                      [versions[i] EXCEPT !.removed = @ \/ \E j \in LiveVersions : j > i]]
    /\ UNCHANGED <<bucket, pubs, uploads, stored, gen, late, ops, admin, lost, crashes>>

-----------------------------------------------------------------------------
(* Multipart uploads; serialized_upload admits one request per upload. *)

UploadFree(u) == \A c \in Clients : ops[c].phase # "idle" /\ ops[c].phase # "reading" => ops[c].upload # u

Active(u) == uploads[u].state = "active" /\ ~uploads[u].expired

StartUpload(u) ==
    /\ SharedFree /\ bucket = "open"
    /\ uploads[u].state = "none"
    /\ uploads' = [uploads EXCEPT ![u].state = "active"]
    /\ UNCHANGED <<bucket, pubs, versions, stored, gen, late, ops, admin, lost, crashes>>

PartRequest(c, u, number, chunk) ==
    /\ UploadFree(u) /\ Active(u)
    /\ Enter(c, [phase |-> "store", chunk |-> chunk, key |-> UploadKey[u], upload |-> u,
                 number |-> number])
    /\ UNCHANGED <<bucket, pubs, versions, uploads, stored, gen, late, admin, lost, crashes>>

\* Catalog.add_part checks the session again under the writer lock.
AddPart(c) ==
    /\ ops[c].phase = "add"
    /\ LET u == ops[c].upload
           n == ops[c].number
           parts == uploads[u].parts IN
         uploads' =
           IF Active(u) /\ n \notin DOMAIN parts
              /\ Cardinality(DOMAIN parts) < Len(Declared[u])
           THEN [uploads EXCEPT ![u].parts =
                   [m \in DOMAIN parts \cup {n} |-> IF m = n THEN ops[c].chunk ELSE parts[m]]]
           ELSE uploads
    /\ Leave(c)
    /\ UNCHANGED <<bucket, pubs, versions, stored, gen, late, admin, lost, crashes>>

\* complete(): parts contiguous from one, the whole content as declared.
CompleteRequest(c, u) ==
    /\ UploadFree(u)
    /\ \/ /\ Active(u)
          /\ uploads[u].parts = Declared[u]
          /\ \A chunk \in PartsOf(u) : Holders(chunk) # {}
          /\ Enter(c, [phase |-> "freeze", key |-> UploadKey[u], upload |-> u,
                       manifest |-> Declared[u], marker |-> FALSE])
       \/ /\ uploads[u].state = "completing"
          /\ Enter(c, [phase |-> "prepare", key |-> UploadKey[u], upload |-> u,
                       manifest |-> Declared[u], marker |-> FALSE])
    /\ UNCHANGED <<bucket, pubs, versions, uploads, stored, gen, late, admin, lost, crashes>>

Freeze(c) ==
    /\ ops[c].phase = "freeze"
    /\ IF Active(ops[c].upload)
       THEN /\ uploads' = [uploads EXCEPT ![ops[c].upload].state = "completing"]
            /\ ops' = [ops EXCEPT ![c].phase = "prepare"]
       ELSE Leave(c) /\ UNCHANGED uploads
    /\ UNCHANGED <<bucket, pubs, versions, stored, gen, late, admin, lost, crashes>>

MarkComplete(c) ==
    /\ ops[c].phase = "complete"
    /\ uploads' = [uploads EXCEPT ![ops[c].upload].state = "complete"]
    /\ Leave(c)
    /\ UNCHANGED <<bucket, pubs, versions, stored, gen, late, admin, lost, crashes>>

AbortUpload(u) ==
    /\ SharedFree /\ UploadFree(u)
    /\ uploads[u].state \in {"active", "aborted"}
    /\ uploads' = [uploads EXCEPT ![u].state = "aborted"]
    /\ UNCHANGED <<bucket, pubs, versions, stored, gen, late, ops, admin, lost, crashes>>

\* Session clock: expires <= clock() from now on.
ExpireUpload(u) ==
    /\ uploads[u].state # "none" /\ ~uploads[u].expired
    /\ uploads' = [uploads EXCEPT ![u].expired = TRUE]
    /\ UNCHANGED <<bucket, pubs, versions, stored, gen, late, ops, admin, lost, crashes>>

-----------------------------------------------------------------------------
(* Exclusive requests: maintenance and bucket deletion. *)

AdminWaits(task) ==
    /\ admin.phase = "idle"
    /\ task = "drop" => bucket = "open"
    /\ admin' = [phase |-> "waiting", task |-> task]
    /\ UNCHANGED <<bucket, pubs, versions, uploads, stored, gen, late, ops, lost, crashes>>

\* Enters while shared owners are still inside.
AdminEnters_Early ==
    /\ admin.phase = "waiting"
    /\ admin' = [phase |-> admin.task]
    /\ UNCHANGED <<bucket, pubs, versions, uploads, stored, gen, late, ops, lost, crashes>>

\* Runtime.guard(True): the last shared owner has left.
AdminEnters ==
    /\ admin.phase = "waiting"
    /\ \A c \in Clients : ops[c].phase = "idle"
    /\ admin' = [phase |-> admin.task]
    /\ UNCHANGED <<bucket, pubs, versions, uploads, stored, gen, late, ops, lost, crashes>>

\* Deadline, cancellation, or an error that maintenance does not catch.  Its
\* 60 s budget outlasts every shared owner (15 s), so it does not expire waiting.
AdminGivesUp ==
    /\ admin.phase # "idle"
    /\ admin.phase = "waiting" => admin.task = "drop"
    /\ admin' = Idle
    /\ UNCHANGED <<bucket, pubs, versions, uploads, stored, gen, late, ops, lost, crashes>>

ReplayPublication(k, outcome) ==
    /\ admin.phase = "replay"
    /\ k \in Pending
    /\ SendPublication(k, outcome)
    /\ admin' = IF outcome = "ok" THEN admin ELSE Idle
    /\ UNCHANGED <<bucket, uploads, stored, gen, ops, lost, crashes>>

\* Marks without replaying the pending publications.
ReplayDone_Skipped ==
    /\ admin.phase = "replay"
    /\ admin' = [phase |-> "resume"]
    /\ UNCHANGED <<bucket, pubs, versions, uploads, stored, gen, late, ops, lost, crashes>>

ReplayDone ==
    /\ admin.phase = "replay" /\ Pending = {}
    /\ admin' = [phase |-> "resume"]
    /\ UNCHANGED <<bucket, pubs, versions, uploads, stored, gen, late, ops, lost, crashes>>

\* Resumes only the uploads whose session has not expired.
Completing_Unexpired ==
    {u \in Uploads : uploads[u].state = "completing" /\ ~uploads[u].expired}

Completing == {u \in Uploads : uploads[u].state = "completing"}

\* complete() of a frozen upload.  An intent of the same key with another
\* content makes prepare_publication raise, and maintenance stops there.
ResumeUpload(u, outcome) ==
    /\ admin.phase = "resume"
    /\ u \in Completing
    /\ LET k == UploadKey[u] IN
         IF Conflicts(k, Declared[u], FALSE)
         THEN admin' = Idle /\ UNCHANGED <<pubs, versions, uploads, late>>
         ELSE IF pubs[k] = None
         THEN Prepare(k, Declared[u], FALSE) /\ UNCHANGED <<admin, versions, uploads, late>>
         ELSE /\ SendPublication(k, outcome)
              /\ admin' = IF outcome = "ok" THEN admin ELSE Idle
              /\ uploads' = IF outcome = "ok"
                            THEN [uploads EXCEPT ![u].state = "complete"] ELSE uploads
    /\ UNCHANGED <<bucket, stored, gen, ops, lost, crashes>>

\* The expiry update, then /status of every node (one that does not answer is
\* left out of the sweep below).
ExpireAndCapture ==
    /\ admin.phase = "resume" /\ Completing = {}
    /\ uploads' = [u \in Uploads |->
         IF uploads[u].state = "active" /\ uploads[u].expired
         THEN [uploads[u] EXCEPT !.state = "aborted"] ELSE uploads[u]]
    /\ admin' = [phase |-> "mark", gens |-> gen]
    /\ UNCHANGED <<bucket, pubs, versions, stored, gen, late, ops, lost, crashes>>

\* /references, then the parts of unfinished uploads.  A version removed within
\* grace (the set G) is still referenced.
PinnedParts == UNION {PartsOf(u) : u \in {v \in Uploads : uploads[v].state \in {"active", "completing"}}}

References(G) == UNION {versions[i].chunks : i \in LiveVersions \cup G}

\* Forgets the parts of uploads that are not complete.
Mark_VersionsOnly ==
    /\ admin.phase = "mark"
    /\ \E G \in SUBSET ((1..Len(versions)) \ LiveVersions) :
         admin' = [phase |-> "repair", gens |-> admin.gens, live |-> References(G)]
    /\ UNCHANGED <<bucket, pubs, versions, uploads, stored, gen, late, ops, lost, crashes>>

Mark ==
    /\ admin.phase = "mark"
    /\ \E G \in SUBSET ((1..Len(versions)) \ LiveVersions) :
         admin' = [phase |-> "repair", gens |-> admin.gens,
                   live |-> References(G) \cup PinnedParts]
    /\ UNCHANGED <<bucket, pubs, versions, uploads, stored, gen, late, ops, lost, crashes>>

\* Readable live chunks are copied to the nodes of R(chunk) that lack them.
Repair ==
    /\ admin.phase = "repair"
    /\ LET Lacks(n) == {chunk \in admin.live : Holders(chunk) # {} /\ chunk \notin stored[n]} IN
         \E R \in [Nodes -> SUBSET admin.live] :
           /\ \A n \in Nodes : R[n] \subseteq Lacks(n)
           /\ stored' = [n \in Nodes |-> stored[n] \cup R[n]]
           /\ gen' = [n \in Nodes |-> IF R[n] # {} THEN FreshGen(n) ELSE gen[n]]
    /\ admin' = [admin EXCEPT !.phase = "sweep"]
    /\ UNCHANGED <<bucket, pubs, versions, uploads, late, ops, lost, crashes>>

\* /collect: the nodes of S execute it, those of L will, the others failed.
Sweep(S, L) ==
    /\ admin.phase = "sweep"
    /\ CollectOn(S, admin.live, admin.gens)
    /\ late' = late \cup {[kind |-> "collect", node |-> n, live |-> admin.live,
                            gen |-> admin.gens[n]] : n \in L}
    /\ Cardinality(late') <= MaxLate
    /\ admin' = Idle
    /\ UNCHANGED <<bucket, pubs, versions, uploads, ops, lost, crashes>>

\* DELETE of the bucket: every shard lists no version, then one transaction.
ListBeforeDelete ==
    /\ admin.phase = "drop"
    /\ admin' = IF LiveVersions = {} THEN [phase |-> "dropping"] ELSE Idle
    /\ UNCHANGED <<bucket, pubs, versions, uploads, stored, gen, late, ops, lost, crashes>>

\* Does not look for pending publications.
DropBucket_WithPending ==
    /\ admin.phase = "dropping"
    /\ bucket' = IF \A u \in Uploads : uploads[u].state \notin {"active", "completing"}
                 THEN "deleted" ELSE bucket
    /\ admin' = Idle
    /\ UNCHANGED <<pubs, versions, uploads, stored, gen, late, ops, lost, crashes>>

DropBucket ==
    /\ admin.phase = "dropping"
    /\ bucket' = IF Pending = {} /\ \A u \in Uploads : uploads[u].state \notin {"active", "completing"}
                 THEN "deleted" ELSE bucket
    /\ admin' = Idle
    /\ UNCHANGED <<pubs, versions, uploads, stored, gen, late, ops, lost, crashes>>

-----------------------------------------------------------------------------
(* The network and the coordinator process. *)

Deliver(m) ==
    /\ m \in late
    /\ late' = late \ {m}
    /\ \/ /\ m.kind = "put" /\ PutOn({m.node}, m.chunk) /\ UNCHANGED versions
       \/ /\ m.kind = "collect" /\ CollectOn({m.node}, m.live, [n \in Nodes |-> m.gen]) /\ UNCHANGED versions
       \/ /\ m.kind = "publish" /\ versions' = MetaPublish(m.key) /\ UNCHANGED <<stored, gen>>
    /\ UNCHANGED <<bucket, pubs, uploads, ops, admin, lost, crashes>>

Crash ==
    /\ crashes < MaxCrashes
    /\ crashes' = crashes + 1
    /\ ops' = [c \in Clients |-> Idle]
    /\ admin' = Idle
    /\ UNCHANGED <<bucket, pubs, versions, uploads, stored, gen, late, lost>>

Outcomes == {"ok", "lost", "late", "fail"}

ClientNext(c) ==
    \/ \E k \in Requests, chunk \in Chunks : PutRequest(c, k, chunk)
    \/ \E k \in Deletes : DeleteRequest(c, k)
    \/ Store(c)
    \/ PrepareRequest(c)
    \/ \E o \in Outcomes : PublishRequest(c, o)
    \/ GetRequest(c)
    \/ GetAnswer(c)
    \/ \E u \in Uploads, n \in 1..2, chunk \in Chunks : PartRequest(c, u, n, chunk)
    \/ AddPart(c)
    \/ \E u \in Uploads : CompleteRequest(c, u)
    \/ Freeze(c)
    \/ MarkComplete(c)

AdminNext ==
    \/ \E task \in {"replay", "drop"} : AdminWaits(task)
    \/ AdminEnters
    \/ AdminGivesUp
    \/ \E k \in Keys, o \in Outcomes : ReplayPublication(k, o)
    \/ ReplayDone
    \/ \E u \in Uploads, o \in Outcomes : ResumeUpload(u, o)
    \/ ExpireAndCapture
    \/ Mark
    \/ Repair
    \/ \E S \in SUBSET Nodes : \E L \in SUBSET (Nodes \ S) : Sweep(S, L)
    \/ ListBeforeDelete
    \/ DropBucket

Next ==
    \/ \E c \in Clients : ClientNext(c)
    \/ AdminNext
    \/ \E i \in 1..Len(versions) : RemoveVersion(i)
    \/ Prune
    \/ \E u \in Uploads : StartUpload(u) \/ AbortUpload(u) \/ ExpireUpload(u)
    \/ \E m \in late : Deliver(m)
    \/ \E n \in Nodes : NodeRestart(n) \/ Damage(n)
    \/ Crash

Spec == Init /\ [][Next]_vars

(***************************************************************************)
(* Fairness.  Requests in progress run to their end (threads are scheduled *)
(* and every call has a deadline); maintenance is invoked again and again  *)
(* and an attempt that could succeed infinitely often is not refused       *)
(* forever.                                                                *)
(***************************************************************************)
Fairness ==
    /\ \A c \in Clients :
         WF_vars(Store(c) \/ PrepareRequest(c) \/ GetAnswer(c) \/ AddPart(c) \/ Freeze(c)
                 \/ MarkComplete(c) \/ \E o \in Outcomes : PublishRequest(c, o))
    /\ WF_vars(ListBeforeDelete \/ DropBucket)
    /\ SF_vars(AdminWaits("replay"))
    /\ SF_vars(AdminEnters)
    /\ SF_vars(AdminEnters /\ admin.task = "replay")
    /\ SF_vars(ReplayDone)
    /\ \A k \in Keys : SF_vars(ReplayPublication(k, "ok"))
    /\ \A u \in Uploads : SF_vars(ResumeUpload(u, "ok"))

FairSpec == Spec /\ Fairness

-----------------------------------------------------------------------------
TypeOK ==
    /\ bucket \in {"open", "deleted"}
    /\ \A k \in Keys : pubs[k] = None \/ /\ pubs[k].manifest \in Seq(Chunks)
                                         /\ pubs[k].marker \in BOOLEAN /\ pubs[k].done \in BOOLEAN
    /\ versions \in Seq([key : Keys, chunks : SUBSET Chunks, marker : BOOLEAN, removed : BOOLEAN])
    /\ \A u \in Uploads :
         /\ uploads[u].state \in {"none", "active", "completing", "complete", "aborted"}
         /\ uploads[u].expired \in BOOLEAN /\ PartsOf(u) \subseteq Chunks
    /\ stored \in [Nodes -> SUBSET Chunks] /\ gen \in [Nodes -> Nat]
    /\ \A m \in late : m.kind \in {"put", "collect", "publish"}
    /\ \A c \in Clients : ops[c].phase \in {"idle", "store", "prepare", "send", "reading", "add",
                                            "freeze", "complete"}
    /\ admin.phase \in {"idle", "waiting", "replay", "resume", "mark", "repair", "sweep",
                        "drop", "dropping"}
    /\ admin.phase \notin {"idle", "waiting"} => \A c \in Clients : ops[c].phase = "idle"

Durable(chunk) == Cardinality(Holders(chunk)) + lost >= Quorum

(* Every chunk a live version names is on as many nodes as acknowledged    *)
(* it, less the copies damage took: no sweep, however late its request is  *)
(* executed, removes a chunk that was written again or published since the *)
(* references were read (node.py collect, service.py maintenance).         *)
VersionsDurable == \A i \in LiveVersions : \A chunk \in versions[i].chunks : Durable(chunk)

(* The bytes of an upload that can still complete are pinned until it      *)
(* does (service.py maintenance, the scan of parts).                       *)
PartsDurable ==
    \A u \in DOMAIN uploads : uploads[u].state \in {"active", "completing"} =>
        \A chunk \in PartsOf(u) : Durable(chunk)

(* A download that has read its descriptor finds every chunk, even when    *)
(* the version is removed and swept meanwhile (Runtime.guard).             *)
ReadersSafe ==
    \A c \in DOMAIN ops : ops[c].phase = "reading" =>
        \A chunk \in ops[c].chunks : Durable(chunk)

(* An intent is closed only when the shard holds its version, whatever     *)
(* answers were lost (catalog.py finish_publication).                      *)
ClosedIntentsPublished ==
    \A k \in DOMAIN pubs : pubs[k] # None /\ pubs[k].done => Published(k)

(* A retried, replayed or late publication never makes a second version    *)
(* (metadata.py publish).                                                  *)
PublishedOnce ==
    \A i, j \in 1..Len(versions) : versions[i].key = versions[j].key => i = j

(* No live version ever appears in a deleted bucket, not even by a         *)
(* publication executed after its caller gave up (http.py bucket DELETE).  *)
NoVersionInDeletedBucket == bucket = "deleted" => LiveVersions = {}

(* A complete upload's content is the published one, whichever of the      *)
(* caller and maintenance finished it (service.py complete).               *)
CompleteUploadsPublished ==
    \A u \in DOMAIN uploads : uploads[u].state = "complete" =>
        \E i \in 1..Len(versions) : /\ versions[i].key = UploadKey[u]
                                    /\ versions[i].chunks = RangeOf(Declared[u])

(* No sweep removes a chunk that a live version, a download under way or   *)
(* an upload that can complete needs, whatever requests are late           *)
(* (Service.maintenance, node.py).                                         *)
ReferencedKept == VersionsDurable /\ PartsDurable /\ ReadersSafe

(* A publication makes one version, its intent is closed only when the     *)
(* version exists, a complete upload is the published one, and no live     *)
(* version appears in a deleted bucket (catalog.py, metadata.py,           *)
(* Service.complete).                                                      *)
PublicationsSound ==
    /\ PublishedOnce /\ ClosedIntentsPublished
    /\ NoVersionInDeletedBucket /\ CompleteUploadsPublished

(* A pending publication is eventually settled: maintenance gets its turn  *)
(* although clients keep arriving, and replays it (service.py maintenance, *)
(* service_runtime.py guard).                                              *)
PendingSettled == \A k \in Keys : (k \in Pending) ~> (k \notin Pending)

(* README.md: "A durable completing intent precedes publication; retry or  *)
(* maintenance resumes interrupted completion idempotently."               *)
CompletionResumed == \A u \in Uploads : (u \in Completing) ~> (uploads[u].state = "complete")
=============================================================================
