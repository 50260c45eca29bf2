------------------------------ MODULE MCWallet ------------------------------
(***************************************************************************)
(* The wallet on two shards with one account on the first and two on the   *)
(* second, and its replicated journal with three replicas.  A behaviour    *)
(* exercises one part; what the others use stays in its initial state:     *)
(*   cross   two cross-shard transfers that compete for the same funds     *)
(*   fence   a local or a cross-shard transfer, restarts and a new epoch   *)
(*   audit   the audit beside a transfer in either direction and a restart *)
(*   append  two events appended to the journal, and a restart             *)
(*   takeover one event, restarts and a new epoch of the journal           *)
(***************************************************************************)
EXTENDS WalletAudit, WalletJournal, TLC

CONSTANTS a1, b1, b2, s1, s2, r1, r2, r3, e1

MCAccounts == {a1, b1, b2}
MCShardFor == [a \in MCAccounts |-> IF a = a1 THEN s1 ELSE s2]
MCOpening  == [a \in MCAccounts |-> IF a = b2 THEN 0 ELSE 1]
MCOrder    == <<s1, s2>>

Transfer(f, t, n) == [from |-> f, to |-> t, amount |-> n]
CrossIntents == {Transfer(a1, b1, 1), Transfer(b1, a1, 2)}
FenceIntents == {Transfer(b1, b2, 1), Transfer(b1, a1, 1)}
AuditIntents == {Transfer(a1, b1, 1), Transfer(b1, a1, 1)}
MCIntents    == CrossIntents \cup FenceIntents \cup AuditIntents

\* The constants of the module are the loosest; each part has tighter bounds.
CrossPart == INSTANCE WalletCoordinator WITH Intents <- CrossIntents,
  MaxTransfers <- 2, DeadAfter <- 1, MaxEpoch <- 1, MaxCrashes <- 0, MaxRetries <- 1
FencePart == INSTANCE WalletCoordinator WITH Intents <- FenceIntents,
  MaxTransfers <- 1, DeadAfter <- 2, MaxEpoch <- 2, MaxCrashes <- 2, MaxRetries <- 0
AuditPart == INSTANCE WalletAudit WITH Intents <- AuditIntents,
  MaxTransfers <- 1, DeadAfter <- 1, MaxEpoch <- 2, MaxCrashes <- 1, MaxRetries <- 0

Append2 == INSTANCE WalletJournal WITH
  MaxLog <- 2, MaxJournalEpoch <- 1, MaxJournalCrashes <- 1
Takeover == INSTANCE WalletJournal WITH
  Events <- {e1}, MaxLog <- 1, MaxJournalEpoch <- 2, MaxJournalCrashes <- 2

ASSUME JournalAssumption == Assumption

VARIABLE part

MCInit == AuditInit /\ JournalInit /\ part \in {"cross", "fence", "audit", "append", "takeover"}
MCNext ==
  \/ part = "cross" /\ CrossPart!Next /\ UNCHANGED <<avars, logvars, part>>
  \/ part = "fence" /\ FencePart!Next /\ UNCHANGED <<avars, logvars, part>>
  \/ part = "audit" /\ AuditPart!AuditNext /\ UNCHANGED <<logvars, part>>
  \/ part = "append" /\ Append2!JournalNext /\ UNCHANGED <<avarsAll, part>>
  \/ part = "takeover" /\ Takeover!JournalNext /\ UNCHANGED <<avarsAll, part>>
MCSpec == MCInit /\ [][MCNext]_<<avarsAll, logvars, part>>

Symmetry == Permutations(Txns) \cup Permutations({r1, r2, r3})

=============================================================================
