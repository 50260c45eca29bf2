--------------------------- MODULE QueuePartition ---------------------------
(***************************************************************************)
(* One partition of the message queue: the coordinator's metadata and      *)
(* pending journal (message_queue/coordinator.py), leader election and     *)
(* replication (coordinator_replication.py), retention                     *)
(* (coordinator_retention.py) and the brokers' logs (log.py).              *)
(*                                                                         *)
(* An envelope carries the hash of its predecessor, so a hash stands for   *)
(* the prefix that ends in it, and a log is the whole history of which a   *)
(* broker still stores the offsets from its base on.  Offsets are counts:  *)
(* hwm + 1 is Len(hist).  A request that the coordinator stopped waiting   *)
(* for stays in net and may execute at any later time.                     *)
(***************************************************************************)
EXTENDS Integers, Sequences, FiniteSets

CONSTANTS
  Brokers,     \* the replicas of the partition
  Producers,   \* producer identities
  Bodies,      \* payloads
  NoBatch,     \* no pending batch
  NoTx,        \* the producer of a transactional output
  MaxHist,     \* bound: committed batches
  MaxSeq,      \* bound: producer sequences
  MaxPid,      \* bound: producer epochs
  MaxEpoch,    \* bound: leader epochs
  MaxLate,     \* bound: requests in flight that nobody waits for
  MaxFloor,    \* bound: expired records
  MaxAborts,   \* bound: transactional stages that are abandoned
  MaxCrashes   \* bound: restarts of the coordinator and torn writes

Batch == [producer : Producers \cup {NoTx}, pid : 0..MaxPid, seq : 0..MaxSeq, body : Bodies]

\* What the constants may be.
PartitionAssumption ==
  /\ IsFiniteSet(Brokers) /\ Brokers # {}
  /\ NoTx \notin Producers /\ NoBatch \notin Batch
  /\ {MaxHist, MaxSeq, MaxPid, MaxEpoch, MaxLate, MaxFloor, MaxAborts, MaxCrashes} \subseteq Nat

VARIABLES
  hist,      \* the committed records: what the records table and hwm stand for
  floor,     \* records below it are expired
  leader, epoch,
  pending,   \* the journalled batch of the partition, or NoBatch
  pid,       \* pid[p]: current epoch of producer p, -1 before it is opened
  receipts,  \* the batches whose receipts are retained
  cleanup,   \* cleanup[b]: floor that broker b has yet to be told, 0 for none
  broker,    \* broker[b]: its log
  pop,        \* the operation that holds the partition's lock
  net,       \* requests that may still execute on a broker
  aborts, crashes

meta  == <<hist, floor, leader, epoch, pending, pid, receipts, cleanup>>
bound == <<aborts, crashes>>
pvars  == <<meta, broker, pop, net, bound>>

Log   == [log : Seq(Batch), base : Nat, committed : Nat, epoch : Nat]
Request == [kind : {"sync", "install"}, to : Brokers, epoch : Nat,
            base : Nat, committed : Nat, log : Seq(Batch)]

NoRequest == [kind |-> "none"]
Idle == [pc |-> "idle", acks |-> "all", todo |-> {}, synced |-> {}, call |-> NoRequest]

Majority == Cardinality(Brokers) \div 2 + 1

-----------------------------------------------------------------------------
(***************************************************************************)
(* PartitionLog.                                                           *)
(***************************************************************************)

\* hash_at of the last of the first k records equals that of log l.
HashAt(b, k, l) ==
  /\ b.base <= k /\ k <= Len(b.log) /\ k <= Len(l)
  /\ SubSeq(b.log, 1, k) = SubSeq(l, 1, k)

\* synchronize: align to the committed prefix, then append.
SyncAccepts(b, m) ==
  /\ b.base <= m.base /\ m.base <= m.committed
  /\ HashAt(b, m.base, m.log)
  /\ b.epoch <= m.epoch
  /\ b.committed <= m.committed
  /\ HashAt(b, m.committed, m.log)

InstallAccepts(b, m) ==
  /\ b.epoch <= m.epoch
  /\ b.committed <= m.committed
  /\ m.base <= b.committed => SubSeq(m.log, 1, b.committed) = SubSeq(b.log, 1, b.committed)

Accepts_AnyCheckpoint(b, m) == b.epoch <= m.epoch

Accepts(b, m) == IF m.kind = "sync" THEN SyncAccepts(b, m) ELSE InstallAccepts(b, m)

Written_CheckpointAtTail(m) ==
  [log |-> m.log, base |-> m.base, committed |-> Len(m.log), epoch |-> m.epoch]

Written(m) == [log |-> m.log, base |-> m.base, committed |-> m.committed, epoch |-> m.epoch]

BrokerAfter(m) ==
  IF Accepts(broker[m.to], m) THEN [broker EXCEPT ![m.to] = Written(m)] ELSE broker

\* The broker stops after it truncated its tail and before the batch is complete.
Torn(m) == [Written(m) EXCEPT !.log = SubSeq(m.log, 1, m.committed)]

RetainAccepts(b, k) == b.base <= k /\ HashAt(b, k, hist)

Retained(b, k) == [b EXCEPT !.base = k, !.committed = IF b.committed < k THEN k ELSE b.committed]

-----------------------------------------------------------------------------
(***************************************************************************)
(* Requests in flight.                                                     *)
(***************************************************************************)

DeliverLate(m) ==
  /\ m # pop.call
  /\ broker' = BrokerAfter(m)
  /\ net' = net \ {m}
  /\ UNCHANGED <<meta, pop, bound>>

TearLate(m) ==
  /\ crashes < MaxCrashes
  /\ m.kind = "sync"
  /\ SyncAccepts(broker[m.to], m)
  /\ broker' = [broker EXCEPT ![m.to] = Torn(m)]
  /\ net' = net \ {m}
  /\ pop' = IF pop.call = m THEN [pop EXCEPT !.call = NoRequest, !.todo = @ \ {m.to}] ELSE pop
  /\ crashes' = crashes + 1
  /\ UNCHANGED <<meta, aborts>>

-----------------------------------------------------------------------------
(***************************************************************************)
(* Election and replication, under the partition's lock.                   *)
(***************************************************************************)

Eligible(b) ==
  /\ HashAt(broker[b], Len(hist), hist)
  /\ broker[b].base <= floor

\* The current leader when it answers and is eligible, else any that is: which
\* candidates answer is up to the network.
Elects(b) ==
  /\ Eligible(b)
  /\ b # leader => epoch < MaxEpoch
  /\ leader' = b
  /\ epoch' = IF b = leader THEN epoch ELSE epoch + 1

Elect(b) ==
  /\ pop.pc = "elect"
  /\ Elects(b)
  /\ pop' = [pop EXCEPT !.pc = "send", !.todo = Brokers, !.synced = {}]
  /\ UNCHANGED <<hist, floor, pending, pid, receipts, cleanup, broker, net, bound>>

RequestTo(b, kind) ==
  [kind |-> kind, to |-> b, epoch |-> epoch, base |-> floor,
   committed |-> Len(hist), log |-> Append(hist, pending)]

\* The leader comes first.  A broker that is not eligible gets the whole
\* retained prefix, read from the leader and verified against the metadata.
Send(b) ==
  /\ pop.pc = "send"
  /\ pop.call = NoRequest
  /\ b \in pop.todo
  /\ leader \in pop.todo => b = leader
  /\ Eligible(b) \/ Eligible(leader)
  /\ LET m == RequestTo(b, IF Eligible(b) THEN "sync" ELSE "install")
     IN  /\ pop' = [pop EXCEPT !.call = m]
         /\ net' = net \cup {m}
  /\ UNCHANGED <<meta, broker, bound>>

\* A leader-only publication returns as soon as the leader has acknowledged.
Acknowledge ==
  LET m == pop.call
  IN  /\ m # NoRequest
      /\ m \in net
      /\ Accepts(broker[m.to], m)
      /\ broker' = BrokerAfter(m)
      /\ net' = net \ {m}
      /\ pop' = IF pop.acks = "leader" /\ m.to = leader
               THEN Idle
               ELSE [pop EXCEPT !.call = NoRequest, !.todo = @ \ {m.to}, !.synced = @ \cup {m.to}]
      /\ UNCHANGED <<meta, bound>>

\* The status or the request fails, is refused, or its answer does not come in
\* time; in the last case it may still execute later.
GiveUp(b) ==
  /\ pop.pc = "send"
  /\ b \in pop.todo
  /\ leader \in pop.todo => b = leader
  /\ pop.call # NoRequest => pop.call.to = b
  /\ net' \in {net \ {pop.call}, net}
  /\ Cardinality(net') <= MaxLate
  /\ pop' = [pop EXCEPT !.call = NoRequest, !.todo = @ \ {b}]
  /\ UNCHANGED <<meta, broker, bound>>

IsTx == pending # NoBatch /\ pending.producer = NoTx

Replicated_Half == pop.pc = "send" /\ pop.todo = {} /\ 2 * Cardinality(pop.synced) >= Cardinality(Brokers) - 1
Replicated == pop.pc = "send" /\ pop.todo = {} /\ Cardinality(pop.synced) >= Majority

\* _finalize: the records become visible and the receipt is stored.
Finalize ==
  /\ Replicated
  /\ pop.acks = "all"
  /\ hist' = Append(hist, pending)
  /\ receipts' = IF IsTx THEN receipts ELSE receipts \cup {pending}
  /\ pending' = NoBatch
  /\ pop' = Idle
  /\ UNCHANGED <<floor, leader, epoch, pid, cleanup, broker, net, bound>>

\* No quorum or no leader, or a leader-only publication that the leader did not
\* acknowledge.  An ordinary batch stays journalled.
Fails ==
  /\ \/ pop.pc = "elect"
     \/ pop.pc = "send" /\ pop.todo = {} /\ (~Replicated \/ pop.acks = "leader")
  /\ ~IsTx
  /\ pop' = Idle
  /\ UNCHANGED <<meta, broker, net, bound>>

\* A transactional stage is deleted when its replication, or the validation of
\* its input cursor after it, fails.
AbortTx ==
  /\ IsTx
  /\ pop.pc = "elect" \/ (pop.pc = "send" /\ pop.todo = {})
  /\ aborts < MaxAborts
  /\ aborts' = aborts + 1
  /\ pending' = NoBatch
  /\ pop' = Idle
  /\ UNCHANGED <<hist, floor, leader, epoch, pid, receipts, cleanup, broker, net, crashes>>

-----------------------------------------------------------------------------
(***************************************************************************)
(* Coordinator operations.                                                 *)
(***************************************************************************)

OpenProducer(p) ==
  /\ pid[p] < MaxPid
  /\ pop.pc # "idle" /\ pending # NoBatch => pending.producer # p
  /\ pid' = [pid EXCEPT ![p] = @ + 1]
  /\ UNCHANGED <<hist, floor, leader, epoch, pending, receipts, cleanup, broker, pop, net, bound>>

SameSequence(x, y) == x.producer = y.producer /\ x.pid = y.pid /\ x.seq = y.seq

Expected_FromReceipts(p, e) ==
  Cardinality({r \in receipts : r.producer = p /\ r.pid = e})

\* sequences.last + 1: the table outlives the receipts.
Expected(p, e) ==
  Cardinality({i \in 1..Len(hist) : hist[i].producer = p /\ hist[i].pid = e})

Replicating(acks) == [Idle EXCEPT !.pc = "elect", !.acks = acks]

\* A new batch: current epoch, no receipt, nothing pending, next in sequence.
Produce(x, acks) ==
  /\ pop.pc = "idle"
  /\ Len(hist) < MaxHist
  /\ pid[x.producer] = x.pid
  /\ ~\E r \in receipts : SameSequence(r, x)
  /\ pending = NoBatch
  /\ x.seq = Expected(x.producer, x.pid)
  /\ pending' = x
  /\ pop' = Replicating(acks)
  /\ UNCHANGED <<hist, floor, leader, epoch, pid, receipts, cleanup, broker, net, bound>>

\* A retry of the pending batch replicates it again; any other batch flushes
\* it first, and so does the maintenance pass.  All but the retry with
\* acks = "leader" are a replication to a majority.
Republish(acks) ==
  /\ pop.pc = "idle"
  /\ pending # NoBatch
  /\ ~IsTx
  /\ acks = "leader" => pid[pending.producer] = pending.pid
  /\ pop' = Replicating(acks)
  /\ UNCHANGED <<meta, broker, net, bound>>

\* process() stages an output of a transaction.
Stage(v) ==
  /\ pop.pc = "idle"
  /\ Len(hist) < MaxHist
  /\ aborts < MaxAborts
  /\ pending = NoBatch
  /\ pending' = [producer |-> NoTx, pid |-> 0, seq |-> 0, body |-> v]
  /\ pop' = Replicating("all")
  /\ UNCHANGED <<hist, floor, leader, epoch, pid, receipts, cleanup, broker, net, bound>>

\* A fetch may find that the leader no longer answers.
Fetch(b) ==
  /\ pop.pc = "idle"
  /\ b # leader
  /\ floor < Len(hist)
  /\ Elects(b)
  /\ UNCHANGED <<hist, floor, pending, pid, receipts, cleanup, broker, pop, net, bound>>

Retain_CleanupPastFloor(k) ==
  /\ pop.pc = "idle"
  /\ floor < k /\ k <= MaxFloor
  /\ floor' = k
  /\ receipts' = {r \in receipts : \E i \in (k + 1)..Len(hist) : hist[i] = r}
  /\ cleanup' = [b \in Brokers |-> k + 1]
  /\ UNCHANGED <<hist, leader, epoch, pending, pid, broker, pop, net, bound>>

\* The floor moves in the metadata, with the receipts below it; the brokers are
\* told afterwards.
Retain(k) ==
  /\ pop.pc = "idle"
  /\ floor < k /\ k <= MaxFloor
  /\ floor' = k
  /\ receipts' = {r \in receipts : \E i \in (k + 1)..Len(hist) : hist[i] = r}
  /\ cleanup' = [b \in Brokers |-> k]
  /\ UNCHANGED <<hist, leader, epoch, pending, pid, broker, pop, net, bound>>

\* The broker applies the floor; its acknowledgement may be lost.
RetryRetention(b, acked) ==
  /\ pop.pc = "idle"
  /\ cleanup[b] > 0
  /\ RetainAccepts(broker[b], cleanup[b])
  /\ broker' = [broker EXCEPT ![b] = Retained(@, cleanup[b])]
  /\ cleanup' = IF acked THEN [cleanup EXCEPT ![b] = 0] ELSE cleanup
  /\ UNCHANGED <<hist, floor, leader, epoch, pending, pid, receipts, pop, net, bound>>

PartitionRestart_DropsJournal ==
  /\ crashes < MaxCrashes
  /\ crashes' = crashes + 1
  /\ pop' = Idle
  /\ pending' = NoBatch
  /\ UNCHANGED <<hist, floor, leader, epoch, pid, receipts, cleanup, broker, net, aborts>>

\* Unfinished transactional stages are abandoned at the next start.
PartitionRestart ==
  /\ crashes < MaxCrashes
  /\ crashes' = crashes + 1
  /\ pop' = Idle
  /\ pending' = IF IsTx THEN NoBatch ELSE pending
  /\ UNCHANGED <<hist, floor, leader, epoch, pid, receipts, cleanup, broker, net, aborts>>

-----------------------------------------------------------------------------

PartitionInit ==
  /\ hist = <<>>
  /\ floor = 0
  /\ leader \in Brokers
  /\ epoch = 0
  /\ pending = NoBatch
  /\ pid = [p \in Producers |-> -1]
  /\ receipts = {}
  /\ cleanup = [b \in Brokers |-> 0]
  /\ broker = [b \in Brokers |-> [log |-> <<>>, base |-> 0, committed |-> 0, epoch |-> 0]]
  /\ pop = Idle
  /\ net = {}
  /\ aborts = 0
  /\ crashes = 0

Replicate ==
  \/ \E b \in Brokers : Elect(b) \/ Send(b) \/ GiveUp(b)
  \/ Acknowledge
  \/ Finalize
  \/ Fails
  \/ AbortTx

PartitionNext ==
  \/ Replicate
  \/ \E m \in net : DeliverLate(m) \/ TearLate(m)
  \/ \E p \in Producers : OpenProducer(p)
  \/ \E p \in Producers, e \in 0..MaxPid, s \in 0..MaxSeq, v \in Bodies, acks \in {"all", "leader"} :
        Produce([producer |-> p, pid |-> e, seq |-> s, body |-> v], acks)
  \/ \E acks \in {"all", "leader"} : Republish(acks)
  \/ \E v \in Bodies : Stage(v)
  \/ \E b \in Brokers : Fetch(b)
  \/ \E k \in 1..Len(hist) : Retain(k)
  \/ \E b \in Brokers, acked \in BOOLEAN : RetryRetention(b, acked)
  \/ PartitionRestart

PartitionSpec == PartitionInit /\ [][PartitionNext]_pvars

-----------------------------------------------------------------------------
(***************************************************************************)
(* Properties.                                                             *)
(***************************************************************************)

PartitionTypeOK ==
  /\ hist \in Seq(Batch)
  /\ floor \in 0..Len(hist)
  /\ leader \in Brokers
  /\ epoch \in 0..MaxEpoch
  /\ pending \in Batch \cup {NoBatch}
  /\ pid \in [Producers -> -1..MaxPid]
  /\ receipts \subseteq Batch
  /\ cleanup \in [Brokers -> 0..floor]
  /\ broker \in [Brokers -> Log]
  /\ pop.pc \in {"idle", "elect", "send"} /\ pop.todo \subseteq Brokers /\ pop.synced \subseteq Brokers
  /\ pop.call \in net \cup {NoRequest}
  /\ net \subseteq Request
  /\ aborts \in 0..MaxAborts
  /\ crashes \in 0..MaxCrashes

\* Broker b stores, or has expired, the first k committed records.
Stores(b, k) ==
  /\ k <= Len(broker[b].log)
  /\ SubSeq(broker[b].log, 1, k) = SubSeq(hist, 1, k)

OnMajority(k) == Cardinality({b \in Brokers : Stores(b, k)}) >= Majority

\* Until a transactional stage is abandoned or a write is torn, every committed
\* record is on a majority of the brokers, whatever requests execute late
\* (Replication._replicate, PartitionLog.synchronize).
CommittedOnMajority == aborts = 0 /\ crashes = 0 => OnMajority(Len(hist))

\* Late requests and torn writes, also those of abandoned transactions, can
\* reach the last committed batch only: all the others stay on a majority.
SettledOnMajority == hist # <<>> => OnMajority(Len(hist) - 1)

\* What a broker has once seen committed is the coordinator's history: no late
\* request, snapshot or new leader forks the log below a checkpoint.
CheckpointsAgree ==
  \A b \in Brokers :
    /\ broker[b].base <= broker[b].committed
    /\ broker[b].committed <= Len(hist)
    /\ SubSeq(broker[b].log, 1, broker[b].committed) = SubSeq(hist, 1, broker[b].committed)

\* A producer's batches are committed exactly once and in sequence, epoch after
\* epoch, whatever is retried, flushed by others or expired (_produce).
ExactlyOnceInOrder ==
  \A i, j \in 1..Len(hist) :
    /\ i < j
    /\ hist[i].producer = hist[j].producer
    /\ hist[i].producer # NoTx
    => \/ hist[i].pid < hist[j].pid
       \/ hist[i].pid = hist[j].pid /\ hist[i].seq < hist[j].seq

\* An ordinary batch that was journalled is committed before any other batch of
\* the partition: a failed publication never loses its place (_flush).
JournalFirst ==
  [][\/ pending = NoBatch
     \/ pending.producer = NoTx
     \/ pending' = pending
     \/ hist' = Append(hist, pending)]_pvars

\* All of it: a majority stores every committed record; once a stage was abandoned
\* or a write torn, all but the last batch; and no log forks below a checkpoint,
\* whatever requests are late (log.py, coordinator_replication.py).
LogsKept == PartitionTypeOK /\ CommittedOnMajority /\ SettledOnMajority /\ CheckpointsAgree

\* A broker only ever drops records that are not committed
\* (tests/test_log.py, test_fencing_truncates_only_uncommitted_suffix).
KeepsCommitted == \A b \in Brokers, k \in 1..Len(hist) : Stores(b, k) => Stores(b, k)'
OnlyUncommittedTruncated == [][KeepsCommitted]_pvars

=============================================================================
