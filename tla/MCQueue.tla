------------------------------- MODULE MCQueue ------------------------------
(***************************************************************************)
(* The message queue.  A behaviour exercises one part; the variables of    *)
(* the other component stay in their initial state:                        *)
(*   produce  a partition with three replicas, late requests and expiry    *)
(*   stages   the same with elections, abandoned transactional stages,     *)
(*            torn writes and restarts                                     *)
(*   sequence two payloads, retried sequences, a new epoch of the producer *)
(*            and expired receipts                                         *)
(*   groups   two members, two partitions and two transactions: the        *)
(*            constants of QueueGroups, which this module extends          *)
(*   sessions two clients that join one after the other as one member      *)
(***************************************************************************)
EXTENDS QueueGroups, QueuePartition, TLC

CONSTANTS b1, b2, b3, p1, v1, v2, c1, c2, t1, t2

VARIABLE part

\* The clients of part groups and the member that each of them joins as.
MCMemberOf == [c \in {c1, c2} |-> IF c = c1 THEN 1 ELSE 2]

Produces == INSTANCE QueuePartition WITH
  Bodies <- {v1}, MaxHist <- 2, MaxSeq <- 1,
  MaxPid <- 0, MaxEpoch <- 0, MaxLate <- 1, MaxFloor <- 1, MaxAborts <- 0, MaxCrashes <- 0
Stages == INSTANCE QueuePartition WITH
  Bodies <- {v1}, MaxHist <- 2, MaxSeq <- 1,
  MaxPid <- 0, MaxEpoch <- 1, MaxLate <- 1, MaxFloor <- 0, MaxAborts <- 1, MaxCrashes <- 1
Abandons == INSTANCE QueuePartition WITH
  Bodies <- {v1}, MaxHist <- 2, MaxSeq <- 1,
  MaxPid <- 0, MaxEpoch <- 0, MaxLate <- 1, MaxFloor <- 0, MaxAborts <- 1, MaxCrashes <- 0
Sequence == INSTANCE QueuePartition WITH
  Bodies <- {v1, v2}, MaxHist <- 3, MaxSeq <- 2,
  MaxPid <- 1, MaxEpoch <- 0, MaxLate <- 0, MaxFloor <- 1, MaxAborts <- 0, MaxCrashes <- 0
Sessions == INSTANCE QueueGroups WITH
  Clients <- {c1, c2}, MemberOf <- [c \in {c1, c2} |-> 1],
  MaxParts <- 1, Txids <- {t1}, MaxRecords <- 2, MaxSessions <- 2, MaxResets <- 1

ASSUME QueueAssumption ==
  /\ PartitionAssumption /\ Produces!PartitionAssumption /\ Stages!PartitionAssumption /\ Sequence!PartitionAssumption
  /\ Assumption /\ Sessions!Assumption

MCInit ==
  \/ part \in {"produce", "stages"} /\ Stages!PartitionInit /\ Init
  \/ part = "sequence" /\ Sequence!PartitionInit /\ Init
  \/ part = "groups" /\ Stages!PartitionInit /\ Init
  \/ part = "sessions" /\ Stages!PartitionInit /\ Sessions!Init
MCNext ==
  \/ part = "produce" /\ Produces!PartitionNext /\ UNCHANGED <<vars, part>>
  \/ part = "stages" /\ Stages!PartitionNext /\ UNCHANGED <<vars, part>>
  \/ part = "sequence" /\ Sequence!PartitionNext /\ UNCHANGED <<vars, part>>
  \/ part = "groups" /\ Next /\ UNCHANGED <<pvars, part>>
  \/ part = "sessions" /\ Sessions!Next /\ UNCHANGED <<pvars, part>>
MCSpec == MCInit /\ [][MCNext]_<<pvars, vars, part>>
\* No crash and no election: one abandoned stage and one late request.
AbandonSpec ==
  /\ part = "stages" /\ Stages!PartitionInit /\ Init
  /\ [][Abandons!PartitionNext /\ UNCHANGED <<vars, part>>]_<<pvars, vars, part>>

Symmetry == Permutations({b1, b2, b3}) \cup Permutations({t1, t2})

-----------------------------------------------------------------------------

\* The type invariants of the groups, each for its own constants.
GroupTypes == (part = "groups" => TypeOK) /\ (part = "sessions" => Sessions!TypeOK)

\* A journalled batch is the next one committed; a cursor goes back only by a
\* reset and advances only over records served in the same session.
QueueSteps ==
  /\ []GroupTypes
  /\ JournalFirst
  /\ Sessions!CursorMonotone
  /\ [][/\ part = "groups" => ServedAdvance
        /\ part = "sessions" => Sessions!ServedAdvance]_vars
=============================================================================
