---------------------------- MODULE WalletJournal ---------------------------
(***************************************************************************)
(* The wallet's journal (digital_wallet/journal.py): one authority disk    *)
(* whose events are pushed to replicas, and committed once a quorum of     *)
(* them acknowledged a snapshot of the log.                                *)
(*                                                                         *)
(* A row carries the hash of its predecessor, so a row stands for the      *)
(* whole prefix that ends in it: prefixes are compared where the code      *)
(* compares hashes.  A push whose caller gave up stays in net and may      *)
(* execute at any later time, also after a restart of the coordinator.     *)
(***************************************************************************)
EXTENDS Integers, Sequences, FiniteSets

CONSTANTS
  Replicas,           \* the journal replicas (three in the code)
  Quorum,             \* acknowledgements that commit (two in the code)
  Events,             \* coordinator events
  NoRow,              \* no event to append
  MaxLog,             \* bound: events in the log
  MaxJournalEpoch,    \* bound: fencing epochs
  MaxJournalCrashes   \* bound: restarts of the coordinator

\* What the constants may be.
Assumption ==
  /\ IsFiniteSet(Replicas)
  /\ Quorum \in Nat \ {0}
  /\ NoRow \notin Events
  /\ MaxLog \in Nat
  /\ MaxJournalEpoch \in Nat \ {0}
  /\ MaxJournalCrashes \in Nat

VARIABLES
  log,        \* the rows on the authority disk, in order
  committed,  \* how many of them are marked committed
  replica,    \* replica[r]: the rows of replica r
  jfence,     \* jfence[r]: the epoch persisted on replica r
  jepoch,     \* the epoch in the coordinator's configuration
  jnet,       \* pushed rows that may still execute on a replica
  op,         \* what holds the writer lock: "none", "sync", "first", "write", "second"
  want,       \* the event that the running append writes
  rows,       \* the length of the snapshot that the running _sync replicates
  task,       \* task[r]: state of the replication task of replica r
  next,       \* next[r]: the row that this task pushes
  jcrashes    \* restarts so far

rvars == <<replica, jfence>>
tvars == <<op, want, rows, task, next>>
logvars == <<log, committed, replica, jfence, jepoch, jnet, op, want, rows, task, next, jcrashes>>

Prefix(k) == SubSeq(log, 1, k)
TaskStates == {"off", "status", "push", "wait", "ok", "failed"}

-----------------------------------------------------------------------------
(***************************************************************************)
(* Replica.                                                                *)
(***************************************************************************)

\* A push: the prefix that ends in the row, and the credentials.
Push == [to : Replicas, prefix : Seq(Events), epoch : 1..MaxJournalEpoch]

FencedPush(m) == m.epoch # jfence[m.to]

\* Replica.append: a row that is already there, or the row after the tail.
Accepts(m) ==
  LET have == replica[m.to]
      seq  == Len(m.prefix)
  IN  /\ ~FencedPush(m)
      /\ seq >= 1
      /\ \/ seq <= Len(have) /\ m.prefix = SubSeq(have, 1, seq)
         \/ seq = Len(have) + 1 /\ SubSeq(m.prefix, 1, seq - 1) = have

ReplicaAfter_Overwrites(m) ==
  IF FencedPush(m) THEN replica ELSE [replica EXCEPT ![m.to] = m.prefix]

ReplicaAfter_Unfenced(m) ==
  IF Len(m.prefix) = Len(replica[m.to]) + 1
  THEN [replica EXCEPT ![m.to] = m.prefix] ELSE replica

ReplicaAfter(m) ==
  IF Accepts(m) /\ Len(m.prefix) > Len(replica[m.to])
  THEN [replica EXCEPT ![m.to] = m.prefix]
  ELSE replica

\* A push whose sender no longer waits executes.
DeliverPush(m) ==
  /\ replica' = ReplicaAfter(m)
  /\ UNCHANGED <<log, committed, jfence, jepoch, jnet, tvars, jcrashes>>

LosePush(m) ==
  /\ jnet' = jnet \ {m}
  /\ UNCHANGED <<log, committed, rvars, jepoch, tvars, jcrashes>>

\* Fence.fence on one replica.
FenceReplica(r, e) ==
  /\ e > jfence[r]
  /\ jfence' = [jfence EXCEPT ![r] = e]
  /\ UNCHANGED <<log, committed, replica, jepoch, jnet, tvars, jcrashes>>

-----------------------------------------------------------------------------
(***************************************************************************)
(* _sync: snapshot the log, run one task per replica, wait for all of      *)
(* them, then commit.                                                      *)
(***************************************************************************)

StartTasks(n) ==
  /\ rows' = n
  /\ task' = [r \in Replicas |-> "status"]
  /\ next' = [r \in Replicas |-> 0]

StopTasks ==
  /\ op' = "none"
  /\ want' = NoRow
  /\ rows' = 0
  /\ task' = [r \in Replicas |-> "off"]
  /\ next' = [r \in Replicas |-> 0]

BeginSync ==
  /\ op = "none"
  /\ op' = "sync"
  /\ StartTasks(Len(log))
  /\ UNCHANGED <<log, committed, rvars, jepoch, jnet, want, jcrashes>>

BeginAppend(e) ==
  /\ op = "none"
  /\ Len(log) < MaxLog
  /\ op' = "first"
  /\ want' = e
  /\ StartTasks(Len(log))
  /\ UNCHANGED <<log, committed, rvars, jepoch, jnet, jcrashes>>

SetTask(r, s) == task' = [task EXCEPT ![r] = s]

\* The status request finds where the replica is, if it is a prefix.
TaskStatus(r) ==
  /\ task[r] = "status"
  /\ jepoch = jfence[r]
  /\ Len(replica[r]) <= rows
  /\ replica[r] = Prefix(Len(replica[r]))
  /\ next' = [next EXCEPT ![r] = Len(replica[r]) + 1]
  /\ SetTask(r, IF Len(replica[r]) = rows THEN "ok" ELSE "push")
  /\ UNCHANGED <<log, committed, rvars, jepoch, jnet, op, want, rows, jcrashes>>

PushOf(r) == [to |-> r, prefix |-> Prefix(next[r]), epoch |-> jepoch]

TaskPush(r) ==
  /\ task[r] = "push"
  /\ jnet' = jnet \cup {PushOf(r)}
  /\ SetTask(r, "wait")
  /\ UNCHANGED <<log, committed, rvars, jepoch, op, want, rows, next, jcrashes>>

\* The awaited push executes and its acknowledgement arrives.
TaskAck(r) ==
  /\ task[r] = "wait"
  /\ PushOf(r) \in jnet
  /\ Accepts(PushOf(r))
  /\ replica' = ReplicaAfter(PushOf(r))
  /\ jnet' = jnet \ {PushOf(r)}
  /\ SetTask(r, IF next[r] = rows THEN "ok" ELSE "push")
  /\ next' = [next EXCEPT ![r] = next[r] + 1]
  /\ UNCHANGED <<log, committed, jfence, jepoch, op, want, rows, jcrashes>>

\* Any request of the task fails, is refused or times out.
TaskFail(r) ==
  /\ task[r] \in {"status", "push", "wait"}
  /\ SetTask(r, "failed")
  /\ UNCHANGED <<log, committed, rvars, jepoch, jnet, op, want, rows, next, jcrashes>>

TasksDone    == op \in {"sync", "first", "second"} /\ \A r \in Replicas : task[r] \in {"ok", "failed"}
Acknowledged == Cardinality({r \in Replicas : task[r] = "ok"}) >= Quorum

\* The snapshot is committed.  An append then writes its row and synchronises
\* a second time; anything else is finished.
MarkCommitted_OffByOne == committed' = IF rows > committed THEN rows + 1 ELSE committed
MarkCommitted == committed' = IF rows > committed THEN rows ELSE committed

SyncCommits_AnyAck ==
  /\ TasksDone
  /\ op # "first"
  /\ \E r \in Replicas : task[r] = "ok"
  /\ MarkCommitted
  /\ StopTasks
  /\ UNCHANGED <<log, rvars, jepoch, jnet, jcrashes>>

SyncCommits ==
  /\ TasksDone
  /\ op # "first"
  /\ Acknowledged
  /\ MarkCommitted
  /\ StopTasks
  /\ UNCHANGED <<log, rvars, jepoch, jnet, jcrashes>>

FirstSyncCommits_Skipped ==
  /\ TasksDone
  /\ op = "first"
  /\ UNCHANGED committed
  /\ op' = "write"
  /\ UNCHANGED <<log, rvars, jepoch, jnet, want, rows, task, next, jcrashes>>

FirstSyncCommits ==
  /\ TasksDone
  /\ op = "first"
  /\ Acknowledged
  /\ MarkCommitted
  /\ op' = "write"
  /\ UNCHANGED <<log, rvars, jepoch, jnet, want, rows, task, next, jcrashes>>

\* The row is durable on the authority disk, uncommitted.
AppendRow ==
  /\ op = "write"
  /\ log' = Append(log, want)
  /\ op' = "second"
  /\ StartTasks(Len(log) + 1)
  /\ UNCHANGED <<committed, rvars, jepoch, jnet, want, jcrashes>>

\* No quorum, or the deadline passed: the rows stay as they are.
SyncFails ==
  /\ TasksDone
  /\ StopTasks
  /\ UNCHANGED <<log, committed, rvars, jepoch, jnet, jcrashes>>

JournalRestart_DropsPending(e) ==
  /\ jcrashes < MaxJournalCrashes
  /\ e >= jepoch
  /\ jcrashes' = jcrashes + 1
  /\ jepoch' = e
  /\ StopTasks
  /\ log' = Prefix(committed)
  /\ UNCHANGED <<committed, rvars, jnet>>

\* The process stops at any point and restarts on the same disk.
JournalRestart(e) ==
  /\ jcrashes < MaxJournalCrashes
  /\ e >= jepoch
  /\ jcrashes' = jcrashes + 1
  /\ jepoch' = e
  /\ StopTasks
  /\ UNCHANGED <<log, committed, rvars, jnet>>

-----------------------------------------------------------------------------

JournalInit ==
  /\ log = <<>>
  /\ committed = 0
  /\ replica = [r \in Replicas |-> <<>>]
  /\ jfence = [r \in Replicas |-> 1]
  /\ jepoch = 1
  /\ jnet = {}
  /\ op = "none"
  /\ want = NoRow
  /\ rows = 0
  /\ task = [r \in Replicas |-> "off"]
  /\ next = [r \in Replicas |-> 0]
  /\ jcrashes = 0

JournalNext ==
  \/ BeginSync
  \/ \E e \in Events : BeginAppend(e)
  \/ \E r \in Replicas : TaskStatus(r) \/ TaskPush(r) \/ TaskAck(r) \/ TaskFail(r)
  \/ SyncCommits
  \/ FirstSyncCommits
  \/ AppendRow
  \/ SyncFails
  \/ \E m \in jnet : DeliverPush(m)
  \/ \E m \in jnet : LosePush(m)
  \/ \E r \in Replicas, e \in 1..MaxJournalEpoch : FenceReplica(r, e)
  \/ \E e \in 1..MaxJournalEpoch : JournalRestart(e)

JournalSpec == JournalInit /\ [][JournalNext]_logvars

-----------------------------------------------------------------------------
(***************************************************************************)
(* Properties.                                                             *)
(***************************************************************************)

JournalTypeOK ==
  /\ log \in Seq(Events)
  /\ committed \in 0..Len(log)
  /\ replica \in [Replicas -> Seq(Events)]
  /\ jfence \in [Replicas -> 1..MaxJournalEpoch]
  /\ jepoch \in 1..MaxJournalEpoch
  /\ jnet \subseteq Push
  /\ op \in {"none", "sync", "first", "write", "second"}
  /\ want \in Events \cup {NoRow}
  /\ rows \in 0..Len(log)
  /\ task \in [Replicas -> TaskStates]
  /\ next \in [Replicas -> 0..(Len(log) + 1)]
  /\ jcrashes \in 0..MaxJournalCrashes

Holds(r, k) == Len(replica[r]) >= k /\ SubSeq(replica[r], 1, k) = Prefix(k)

\* A committed event is on a quorum of replicas, as the same prefix, whatever
\* happened to the pushes and to the coordinator since (Journal._sync).
CommittedOnQuorum ==
  Cardinality({r \in Replicas : Holds(r, committed)}) >= Quorum \/ committed = 0

\* No replica ever holds a row that is not on the authority disk, in the same
\* place: the 409 "log prefix conflict; operator recovery required" of
\* Replica.append cannot happen.
ReplicasArePrefixes ==
  \A r \in Replicas : /\ Len(replica[r]) <= Len(log)
                      /\ replica[r] = Prefix(Len(replica[r]))

\* A replica fenced above the coordinator's epoch accepts nothing more, not even
\* a push that was sent before it was fenced (Fence.check_fence).
FencedReplicaFrozen ==
  [][\A r \in Replicas : jfence[r] > jepoch => replica'[r] = replica[r]]_logvars

\* The journal is the abstract log that the coordinator relies on: at most one
\* event is durable and uncommitted, and it is committed or still pending, never
\* lost or overtaken, after any failure.
Abstract == INSTANCE QuorumLog WITH
  history <- Prefix(committed),
  pending <- IF Len(log) > committed THEN log[Len(log)] ELSE NoRow,
  NoEvent <- NoRow

ImplementsQuorumLog == Abstract!Spec

\* All of it: what the coordinator of the wallet relies on (journal.py).
JournalRefines ==
  /\ ImplementsQuorumLog
  /\ [](CommittedOnQuorum /\ ReplicasArePrefixes)
  /\ FencedReplicaFrozen

=============================================================================
