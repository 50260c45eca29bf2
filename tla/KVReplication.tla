---------------------------- MODULE KVReplication ----------------------------
(***************************************************************************)
(* One key of the replicated key-value store: causal sibling records       *)
(* (replication/records.py), the network coordinator with sloppy quorums   *)
(* (replication/service.py), the hint journal (cluster/repair.py) and      *)
(* Merkle repair between two nodes (cluster/anti_entropy.py).              *)
(*                                                                         *)
(* A merge is one durable storage commit.  A coordinator's belief about    *)
(* which nodes are alive is gossip and may be wrong, so every operation    *)
(* picks it anew.  A node may stop at any time; its records and hints are  *)
(* on disk, its tasks are not.                                             *)
(***************************************************************************)
EXTENDS Integers, FiniteSets, Sequences, FiniteSetsExt

CONSTANTS
  Nodes,
  Order,       \* the preference list of the key over all nodes
  N, W, R,     \* replicas, write and read quorum
  MaxEntries,  \* vector_clock_max_entries
  None,
  Coordinators, \* the nodes that clients use
  Repairing,    \* whether nodes run Merkle repair
  MaxVersions, MaxReads, MaxOutages   \* bounds

\* What the constants may be.
ReplicaAssumption ==
  /\ IsFiniteSet(Nodes)
  /\ Order \in [1..Cardinality(Nodes) -> Nodes]
  /\ Nodes = {Order[i] : i \in 1..Cardinality(Nodes)}
  /\ N \in 1..Cardinality(Nodes)
  /\ W \in 1..N /\ R \in 1..N
  /\ MaxEntries \in Nat \ {0}
  /\ None \notin Nodes
  /\ Coordinators \subseteq Nodes
  /\ Repairing \in BOOLEAN
  /\ MaxVersions \in Nat /\ MaxReads \in Nat /\ MaxOutages \in Nat

VARIABLES
  alive,        \* alive[n]
  rec,       \* rec[n]: the sibling versions stored by n
  hints,     \* hints[n]: rows of n's hint journal
  wr,        \* wr[n]: the write that holds the key's write lock of coordinator n
  tasks,     \* replica writes that run, owned by their coordinator
  rd,        \* the latest read
  acked,     \* writes that were acknowledged to a client
  contexts,  \* what clients have read: sets of versions
  syncing,   \* syncing[n]: the peer n still has to push to, and its own record then
  writes, reads, faults

kvVars == <<alive, rec, hints, wr, tasks, rd, acked, contexts, syncing, writes, reads, faults>>

-----------------------------------------------------------------------------
(***************************************************************************)
(* Vector clocks and sibling records.  An entry that a clock lacks is 0.   *)
(***************************************************************************)

Zero        == [n \in Nodes |-> 0]
Geq(a, b)   == \A n \in DOMAIN a : a[n] >= b[n]
Dominates(a, b) == Geq(a, b) /\ a # b
Join(C)     == [n \in Nodes |-> Max({0} \cup {c[n] : c \in C})]

Reconcile_KeepLatest(V) == {v \in V : \A w \in V : w.id <= v.id}
Reconcile(V) == {v \in V : ~\E w \in V : Dominates(w.clock, v.clock)}

Merged(n, V) == [rec EXCEPT ![n] = Reconcile(@ \cup V)]

\* The clock of a write at c: the client's context, c's own counter as stored,
\* pruned to MaxEntries (the smallest entries of other nodes first), incremented.
OwnCounter_ContextOnly(c, client) == client[c]
OwnCounter(c, client) == Max({client[c]} \cup {v.clock[c] : v \in rec[c]})

Pruned(c, clock) ==
  LET used == {n \in Nodes : clock[n] > 0} \cup {c}
      Kept == {K \in SUBSET used : /\ c \in K
                                   /\ Cardinality(K) = Min({Cardinality(used), MaxEntries})
                                   /\ \A k \in K \ {c}, x \in used \ K : clock[k] >= clock[x]}
  IN  {[n \in Nodes |-> IF n \in K THEN clock[n] ELSE 0] : K \in Kept}

NextClocks(c, client) ==
  {[clock EXCEPT ![c] = @ + 1] :
     clock \in Pruned(c, [client EXCEPT ![c] = OwnCounter(c, client)])}

-----------------------------------------------------------------------------
(***************************************************************************)
(* Placement.                                                              *)
(***************************************************************************)

Primary == {Order[i] : i \in 1..N}

\* Pairs <<target, original>>: a primary that is believed dead is replaced by
\* the next node of the preference list that is believed alive, if there is one:
\* the first such primary by the first such node, and so on.
Targets(down) ==
  LET dead  == {i \in 1..N : Order[i] \in down}
      spare == {i \in (N + 1)..Cardinality(Nodes) : Order[i] \notin down}
      subst == {p \in spare \X dead :
                  Cardinality({i \in spare : i < p[1]}) = Cardinality({i \in dead : i < p[2]})}
  IN  {<<Order[i], None>> : i \in {j \in 1..N : \A p \in subst : p[2] # j}}
        \cup {<<Order[p[1]], Order[p[2]]>> : p \in subst}

-----------------------------------------------------------------------------
(***************************************************************************)
(* Writes.                                                                 *)
(***************************************************************************)

NoWrite == [phase |-> "idle"]

\* The coordinator takes the write lock, reads its own record and derives the
\* version.  seen: the versions whose merged clock the client passes.
WriteBegin(c, seen) ==
  /\ alive[c] /\ wr[c] = NoWrite
  /\ writes < MaxVersions
  /\ writes' = writes + 1
  /\ \E clock \in NextClocks(c, Join({v.clock : v \in seen})) :
       wr' = [wr EXCEPT ![c] =
                [phase |-> "derived",
                 ver |-> [id |-> writes + 1, clock |-> clock]]]
  /\ UNCHANGED <<alive, rec, hints, tasks, rd, acked, contexts, syncing, reads, faults>>

\* The local commit and the fan-out.
WriteFanOut(c, down) ==
  /\ wr[c].phase = "derived"
  /\ rec' = Merged(c, {wr[c].ver})
  /\ tasks' = tasks \cup
       {[coord |-> c, node |-> t[1], original |-> t[2], ver |-> wr[c].ver,
         phase |-> IF t[2] = None THEN "send" ELSE "hint"] : t \in Targets(down)}
  /\ wr' = [wr EXCEPT ![c] = [phase |-> "waiting", ver |-> wr[c].ver, acks |-> {}]]
  /\ UNCHANGED <<alive, hints, rd, acked, contexts, syncing, writes, reads, faults>>

\* A write to a substitute first saves the hint for the original.
SaveHint_NotBefore(t) ==
  /\ t.phase = "hint"
  /\ tasks' = (tasks \ {t}) \cup {[t EXCEPT !.phase = "send"]}
  /\ UNCHANGED <<alive, rec, hints, wr, rd, acked, contexts, syncing, writes, reads, faults>>

SaveHint(t) ==
  /\ t.phase = "hint"
  /\ hints' = [hints EXCEPT ![t.coord] = @ \cup {[target |-> t.original, ver |-> t.ver]}]
  /\ tasks' = (tasks \ {t}) \cup {[t EXCEPT !.phase = "send"]}
  /\ UNCHANGED <<alive, rec, wr, rd, acked, contexts, syncing, writes, reads, faults>>

\* _collect: the W-th acknowledgement answers the client and releases the lock,
\* and so does the last task without it; the other tasks go on.
Collect(t, acks) ==
  LET c == t.coord
      w == wr[c]
      mine == w.phase = "waiting" /\ w.ver = t.ver
      now  == IF mine THEN w.acks \cup acks ELSE {}
  IN  IF ~mine THEN UNCHANGED <<wr, acked, contexts>>
      ELSE IF Cardinality(now) >= W
      THEN /\ wr' = [wr EXCEPT ![c] = NoWrite]
           /\ acked' = acked \cup {[ver |-> w.ver, acks |-> now, coord |-> c]}
           /\ contexts' = contexts \cup {{w.ver}}
      ELSE /\ wr' = [wr EXCEPT ![c] = IF \E s \in tasks \ {t} : s.coord = c /\ s.ver = t.ver
                                      THEN [w EXCEPT !.acks = now] ELSE NoWrite]
           /\ UNCHANGED <<acked, contexts>>

Replicate(t) ==
  /\ t.phase = "send"
  /\ alive[t.node]
  /\ rec' = Merged(t.node, {t.ver})
  /\ tasks' = tasks \ {t}
  /\ Collect(t, {<<t.node, t.original>>})
  /\ UNCHANGED <<alive, hints, rd, syncing, writes, reads, faults>>

\* The call fails, executed or not, and the version becomes a hint.
ReplicateFails(t, executed) ==
  /\ t.phase = "send"
  /\ t.node # t.coord
  /\ executed => alive[t.node]
  /\ alive[t.node] => faults < MaxOutages
  /\ faults' = IF alive[t.node] THEN faults + 1 ELSE faults
  /\ rec' = IF executed THEN Merged(t.node, {t.ver}) ELSE rec
  /\ hints' = [hints EXCEPT ![t.coord] = @ \cup
                 {[target |-> IF t.original = None THEN t.node ELSE t.original, ver |-> t.ver]}]
  /\ tasks' = tasks \ {t}
  /\ Collect(t, {})
  /\ UNCHANGED <<alive, rd, syncing, writes, reads>>

-----------------------------------------------------------------------------
(***************************************************************************)
(* Reads.                                                                  *)
(***************************************************************************)

\* strict: only primaries were asked.  must: what was acknowledged before by
\* primaries alone.
ReadBegin(c, down) ==
  /\ alive[c] /\ rd.phase # "open"
  /\ reads < MaxReads
  /\ reads' = reads + 1
  /\ rd' = [phase |-> "open", coord |-> c, todo |-> {t[1] : t \in Targets(down)}, got |-> 0,
            found |-> {}, strict |-> \A t \in Targets(down) : t[2] = None,
            must |-> {a.ver : a \in {x \in acked : \A k \in x.acks : k[2] = None}}]
  /\ UNCHANGED <<alive, rec, hints, wr, tasks, acked, contexts, syncing, writes, faults>>

\* The R-th answer completes the read.
ReadReply_OneFewer(n) ==
  /\ rd.phase = "open" /\ n \in rd.todo /\ alive[n]
  /\ LET found == rd.found \cup rec[n]
         last  == rd.got + 2 >= R
     IN  /\ rd' = [rd EXCEPT !.todo = @ \ {n}, !.got = @ + 1, !.found = IF last THEN Reconcile(found) ELSE found,
                             !.phase = IF last THEN "done" ELSE "open"]
         /\ contexts' = IF last THEN contexts \cup {Reconcile(found)} ELSE contexts
  /\ UNCHANGED <<alive, rec, hints, wr, tasks, acked, syncing, writes, reads, faults>>

ReadReply(n) ==
  /\ rd.phase = "open" /\ n \in rd.todo /\ alive[n]
  /\ LET found == rd.found \cup rec[n]
         last  == rd.got + 1 = R
     IN  /\ rd' = [rd EXCEPT !.todo = @ \ {n}, !.got = @ + 1, !.found = IF last THEN Reconcile(found) ELSE found,
                             !.phase = IF last THEN "done" ELSE "open"]
         /\ contexts' = IF last THEN contexts \cup {Reconcile(found)} ELSE contexts
  /\ UNCHANGED <<alive, rec, hints, wr, tasks, acked, syncing, writes, reads, faults>>

\* An answer fails; without enough of them the read fails.
ReadFails(n) ==
  /\ rd.phase = "open" /\ n \in rd.todo
  /\ alive[n] => faults < MaxOutages
  /\ faults' = IF alive[n] THEN faults + 1 ELSE faults
  /\ rd' = [rd EXCEPT !.todo = @ \ {n}, !.phase = IF rd.todo = {n} THEN "failed" ELSE "open"]
  /\ UNCHANGED <<alive, rec, hints, wr, tasks, acked, contexts, syncing, writes, reads>>

-----------------------------------------------------------------------------
(***************************************************************************)
(* Hinted handoff and Merkle repair.                                       *)
(***************************************************************************)

\* A row is deleted after its target acknowledged it.
DeliverHint(n, h) ==
  /\ alive[n] /\ alive[h.target]
  /\ rec' = Merged(h.target, {h.ver})
  /\ hints' = [hints EXCEPT ![n] = @ \ {h}]
  /\ UNCHANGED <<alive, wr, tasks, rd, acked, contexts, syncing, writes, reads, faults>>

NoSync == [peer |-> None]

\* Merkle trees hold a digest of each stored record: equal roots, equal records.
RootsDiffer_ByCount(n, peer) == Cardinality(rec[n]) # Cardinality(rec[peer])
RootsDiffer(n, peer) == rec[n] # rec[peer]

\* The versions that a peer serves; it aborts when its root changes meanwhile.
Page(peer) == rec[peer]

\* A round begins only on different Merkle roots; the pull precedes the push.
SyncPull(n, peer) ==
  /\ Repairing
  /\ alive[n] /\ alive[peer] /\ n # peer
  /\ syncing[n] = NoSync
  /\ RootsDiffer(n, peer)
  /\ rec' = IF n \in Primary THEN Merged(n, Page(peer)) ELSE rec
  /\ syncing' = [syncing EXCEPT ![n] = [peer |-> peer, view |-> rec'[n]]]
  /\ UNCHANGED <<alive, hints, wr, tasks, rd, acked, contexts, writes, reads, faults>>

\* A changed local view aborts the push.
SyncPush(n) ==
  LET peer == syncing[n].peer
  IN  /\ peer # None
      /\ IF rec[n] = syncing[n].view /\ alive[peer] /\ peer \in Primary
         THEN rec' = Merged(peer, rec[n])
         ELSE UNCHANGED rec
      /\ syncing' = [syncing EXCEPT ![n] = NoSync]
      /\ UNCHANGED <<alive, hints, wr, tasks, rd, acked, contexts, writes, reads, faults>>

-----------------------------------------------------------------------------

NodeCrash_TasksSurvive(n) ==
  /\ alive[n] /\ faults < MaxOutages
  /\ faults' = faults + 1
  /\ alive' = [alive EXCEPT ![n] = FALSE]
  /\ UNCHANGED <<rec, hints, wr, tasks, rd, acked, contexts, syncing, writes, reads>>

NodeCrash(n) ==
  /\ alive[n] /\ faults < MaxOutages
  /\ faults' = faults + 1
  /\ alive' = [alive EXCEPT ![n] = FALSE]
  /\ tasks' = {t \in tasks : t.coord # n}
  /\ wr' = [wr EXCEPT ![n] = NoWrite]
  /\ syncing' = [syncing EXCEPT ![n] = NoSync]
  /\ rd' = IF rd.phase = "open" /\ rd.coord = n THEN [rd EXCEPT !.phase = "failed"] ELSE rd
  /\ UNCHANGED <<rec, hints, acked, contexts, writes, reads>>

\* start: storage replays its log and the Merkle tree is rebuilt from it.
Restart(n) ==
  /\ ~alive[n]
  /\ alive' = [alive EXCEPT ![n] = TRUE]
  /\ UNCHANGED <<rec, hints, wr, tasks, rd, acked, contexts, syncing, writes, reads, faults>>

KVInit ==
  /\ alive = [n \in Nodes |-> TRUE]
  /\ rec = [n \in Nodes |-> {}]
  /\ hints = [n \in Nodes |-> {}]
  /\ wr = [n \in Nodes |-> NoWrite]
  /\ tasks = {}
  /\ rd = [phase |-> "none"]
  /\ acked = {}
  /\ contexts = {{}}
  /\ syncing = [n \in Nodes |-> NoSync]
  /\ writes = 0 /\ reads = 0 /\ faults = 0

KVNext ==
  \/ \E c \in Coordinators :
       \/ \E seen \in contexts : WriteBegin(c, seen)
       \/ \E down \in SUBSET (Nodes \ {c}) : WriteFanOut(c, down) \/ ReadBegin(c, down)
  \/ \E t \in tasks : SaveHint(t) \/ Replicate(t) \/ ReplicateFails(t, TRUE) \/ ReplicateFails(t, FALSE)
  \/ \E n \in Nodes : ReadReply(n) \/ ReadFails(n)
  \/ \E n \in Nodes : \E h \in hints[n] : DeliverHint(n, h)
  \/ \E n, peer \in Nodes : SyncPull(n, peer)
  \/ \E n \in Nodes : SyncPush(n) \/ NodeCrash(n) \/ Restart(n)

KVSpec == KVInit /\ [][KVNext]_kvVars

\* Tasks run, stopped nodes are started again, and the repair loop of every
\* node comes to each of its peers (stated for the pairs that replicate the key).
KVFairness ==
  /\ WF_kvVars(\E t \in tasks : SaveHint(t) \/ Replicate(t))
  /\ WF_kvVars(\E n \in Nodes : Restart(n))
  /\ \A n \in Nodes : WF_kvVars(SyncPush(n))
  /\ SF_kvVars(\E n, peer \in Primary : SyncPull(n, peer))

KVFairSpec == KVSpec /\ KVFairness

-----------------------------------------------------------------------------
(***************************************************************************)
(* Properties.                                                             *)
(***************************************************************************)

Version  == [id : 1..MaxVersions, clock : [Nodes -> Nat]]
Acks     == Nodes \X (Nodes \cup {None})
Writing  == {NoWrite} \cup [phase : {"derived"}, ver : Version]
              \cup [phase : {"waiting"}, ver : Version, acks : SUBSET Acks]
Task     == [coord : Nodes, node : Nodes, original : Nodes \cup {None}, ver : Version,
             phase : {"hint", "send"}]
Read     == [phase : {"open", "done", "failed"}, coord : Nodes, todo : SUBSET Nodes, got : Nat,
             found : SUBSET Version, strict : BOOLEAN, must : SUBSET Version]

\* The types; a hint is for another node, and a node that is down runs no write
\* and no task.
KVTypeOK ==
  /\ alive \in [Nodes -> BOOLEAN]
  /\ rec \in [Nodes -> SUBSET Version]
  /\ hints \in [Nodes -> SUBSET [target : Nodes, ver : Version]]
  /\ \A n \in Nodes : \A h \in hints[n] : h.target # n
  /\ wr \in [Nodes -> Writing]
  /\ \A n \in Nodes : wr[n] # NoWrite => alive[n]
  /\ tasks \in SUBSET Task
  /\ \A t \in tasks : alive[t.coord]
  /\ rd \in {[phase |-> "none"]} \cup Read
  /\ acked \in SUBSET [ver : Version, acks : SUBSET Acks, coord : Nodes]
  /\ contexts \in SUBSET SUBSET Version
  /\ syncing \in [Nodes -> {NoSync} \cup [peer : Nodes, view : SUBSET Version]]
  /\ writes \in 0..MaxVersions /\ reads \in 0..MaxReads /\ faults \in 0..MaxOutages

\* Every version that is stored, sent, kept as a hint, acknowledged or being written.
Everywhere ==
  (UNION {rec[n] : n \in DOMAIN rec}) \cup {t.ver : t \in tasks} \cup {a.ver : a \in acked}
    \cup (UNION {{h.ver : h \in hints[n]} : n \in DOMAIN hints})
    \cup {wr[n].ver : n \in {m \in DOMAIN wr : wr[m] # NoWrite}}

\* Two writes never get the same clock, also across crashes, pruning and stale
\* client contexts: the coordinator's own counter is read back from its record.
ClocksUnique == \A v, w \in Everywhere : v.clock = w.clock => v = w

Covered(v, V) == \E w \in V : Geq(w.clock, v.clock)

\* A node that acknowledged a write keeps it or a version that dominates it.
AckedDurable == \A a \in acked : \A k \in a.acks : Covered(a.ver, rec[k[1]])

\* A write that a substitute acknowledged is not forgotten for the owner of the
\* key: the coordinator's journal has the hint until the owner covers it.
SloppyAckHasHint ==
  \A a \in acked : \A k \in a.acks :
    k[2] # None => \/ Covered(a.ver, rec[k[2]])
                   \/ [target |-> k[2], ver |-> a.ver] \in hints[a.coord]

\* With W + R > N, a read that asked primaries only returns every write that
\* primaries acknowledged before it began, or what dominates it.
ReadsSeeAcked ==
  W + R > N /\ rd.phase = "done" /\ rd.strict => \A v \in rd.must : Covered(v, rd.found)

\* No two writes share a clock, every acknowledged write is covered by what its
\* replicas store, one that a substitute took leaves a hint, and a quorum read that
\* met no fault returns every write acknowledged before it began, or what
\* superseded it (replication/service.py, records.py).
WritesKept == ClocksUnique /\ AckedDurable /\ SloppyAckHasHint /\ ReadsSeeAcked

\* Once nothing new is written, all replicas of the key end with the same siblings.
Converges == <>[](\A n, m \in Primary : rec[n] = rec[m])
=============================================================================
