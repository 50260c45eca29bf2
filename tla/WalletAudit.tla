----------------------------- MODULE WalletAudit ----------------------------
(***************************************************************************)
(* The cross-shard audit of the wallet (digital_wallet/audit.py) beside    *)
(* the coordinator.  It owns the mutation lock, so no step or command runs *)
(* with it; but it reads one shard after the other, first the views and    *)
(* then the checks, and a late request may execute between two reads.      *)
(***************************************************************************)
EXTENDS WalletCoordinator

CONSTANT ShardOrder   \* the shards by index

ASSUME OrderAssumption ==
  /\ ShardOrder \in Seq(Shards)
  /\ {ShardOrder[k] : k \in 1..Len(ShardOrder)} = Shards

VARIABLES
  views,    \* the shard views read so far, by index
  checks    \* whether each shard was still as viewed when it was checked

avars == <<views, checks>>
avarsAll == <<vars, avars>>

AuditBegin ==
  /\ pc = "idle"
  /\ Synced
  /\ pc' = "audit"
  /\ UNCHANGED <<retries, shard, fence, net, epoch, cursor, left, right, bvars, avars>>

ReadView ==
  /\ pc = "audit"
  /\ Len(views) < Len(ShardOrder)
  /\ views' = Append(views, shard[ShardOrder[Len(views) + 1]])
  /\ UNCHANGED <<vars, checks>>

\* Every event changes a participant record for good, so a shard has the same
\* sequence number and head exactly when its records are the same.
ReadCheck ==
  /\ pc = "audit"
  /\ Len(views) = Len(ShardOrder)
  /\ Len(checks) < Len(ShardOrder)
  /\ LET k == Len(checks) + 1
     IN  checks' = Append(checks, shard[ShardOrder[k]].parts = views[k].parts)
  /\ UNCHANGED <<vars, views>>

\* A read fails, or the report was produced: the lock is released.
AuditEnd ==
  /\ pc = "audit"
  /\ pc' = "idle"
  /\ views' = <<>>
  /\ checks' = <<>>
  /\ UNCHANGED <<jvars, retries, shard, fence, net, epoch, cursor, left, right, bvars>>

Audited == pc = "audit" /\ Len(checks) = Len(ShardOrder)

-----------------------------------------------------------------------------
(***************************************************************************)
(* The report.                                                             *)
(***************************************************************************)

ViewOf(s) == views[CHOOSE k \in 1..Len(ShardOrder) : ShardOrder[k] = s]
Viewed(s, t) == ViewOf(s).parts[t]
SourceSeen(t) == Viewed(ShardFor[cmd[t].intent.from], t)
DestinationSeen(t) == Viewed(ShardFor[cmd[t].intent.to], t)

ViewedTotal ==
  SumFunctionOnSet([a \in Accounts |-> LET b == ViewOf(ShardFor[a]).accounts[a]
                                       IN  b.available + b.held], Accounts)

ViewedTransit_CommittedOnly ==
  SumFunctionOnSet(Amounts, {t \in Txns : /\ Cross(t)
                                          /\ cmd[t].decision = "COMMIT"
                                          /\ cmd[t].status = "PENDING"})

ViewedTransit ==
  SumFunctionOnSet(Amounts, {t \in Txns : /\ Cross(t)
                                          /\ SourceSeen(t).status = "CONFIRMED"
                                          /\ DestinationSeen(t).status # "CONFIRMED"})

Mismatched(part, t, role) ==
  part # NoPart /\ (part.intent # cmd[t].intent \/ part.role # role)

LocalErrors(t) ==
  \/ cmd[t].decision # "NONE"
  \/ Mismatched(SourceSeen(t), t, "local")
  \/ cmd[t].status = "REJECTED" /\ SourceSeen(t).status # "REJECTED"
  \/ cmd[t].status = "SUCCEEDED" /\ SourceSeen(t).status # "CONFIRMED"

CrossErrors(t) ==
  LET from == SourceSeen(t).status
      to   == DestinationSeen(t).status
  IN  \/ Mismatched(SourceSeen(t), t, "source")
      \/ Mismatched(DestinationSeen(t), t, "destination")
      \/ from = "CONFIRMED" /\ to # "CONFIRMED" /\ cmd[t].decision # "COMMIT"
      \/ to = "CONFIRMED" /\ (from # "CONFIRMED" \/ cmd[t].decision # "COMMIT")
      \/ cmd[t].status = "SUCCEEDED" /\ {from, to} # {"CONFIRMED"}
      \/ cmd[t].status = "CANCELED" /\ {from, to} # {"CANCELED"}

Orphan(s, t) ==
  LET part == Viewed(s, t)
  IN  /\ part # NoPart
      /\ \/ cmd[t] = NoCommand
         \/ cmd[t].intent # part.intent
         \/ s \notin {ShardFor[part.intent.from], ShardFor[part.intent.to]}

AuditErrors ==
  {"transfer" : t \in {u \in Txns : /\ cmd[u] # NoCommand
                                     /\ IF IsLocal(cmd[u].intent)
                                        THEN LocalErrors(u) ELSE CrossErrors(u)}}
    \cup {"orphan" : st \in {x \in Shards \X Txns : Orphan(x[1], x[2])}}
    \cup (IF ViewedTotal + ViewedTransit # Supply THEN {"supply"} ELSE {})
    \cup {"changed" : k \in {j \in 1..Len(checks) : ~checks[j]}}

-----------------------------------------------------------------------------

AuditInit == Init /\ views = <<>> /\ checks = <<>>

\* The coordinator's own steps; a restart also ends the audit.
CoordinatorStep ==
  /\ Next
  /\ IF pc = "audit" /\ pc' = "idle"
     THEN views' = <<>> /\ checks' = <<>>
     ELSE UNCHANGED avars

AuditNext ==
  \/ CoordinatorStep
  \/ AuditBegin
  \/ ReadView
  \/ ReadCheck
  \/ AuditEnd

AuditSpec == AuditInit /\ [][AuditNext]_avarsAll

\* The audit never raises a false alarm about money or participants, although
\* its reads are not atomic: the only thing that it may report about a correct
\* wallet is "participant changed during audit".
NoFalseAlarm == Audited => AuditErrors \subseteq {"changed"}

\* Types, and: money is neither created nor lost, holds are exactly what the
\* prepared transfers reserve, and the audit, which reads shard after shard
\* beside them, agrees (projection.py, audit.py).
BooksBalance == TypeOK /\ Conservation /\ HoldsAccounted /\ NoFalseAlarm

=============================================================================
