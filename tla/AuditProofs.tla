----------------------------- MODULE AuditProofs ----------------------------
(***************************************************************************)
(* Proofs that the audit agrees with the books, although it reads one      *)
(* shard after the other while late requests execute.                      *)
(*                                                                         *)
(* The views that an audit has read so far, completed with the shards that *)
(* it has still to read, are a state in which the wallet could have been:  *)
(* the one in which no request reached a shard after that shard was read.  *)
(* Everything that is proved about the shards therefore holds of them too, *)
(* and the lemmas of WalletProofs are used twice: for the shards, and with *)
(* that mixed state in the place of the shards.                            *)
(*                                                                         *)
(* The second part is about the replicated journal of the coordinator.     *)
(***************************************************************************)
EXTENDS WalletAudit, WalletProofs, WalletJournal, SequenceTheorems

Index(s) == CHOOSE k \in 1..Len(ShardOrder) : ShardOrder[k] = s
Read(s)  == Index(s) <= Len(views)
Mixed    == [s \in Shards |-> IF Read(s) THEN views[Index(s)] ELSE shard[s]]

M == INSTANCE WalletProofs WITH shard <- Mixed

-----------------------------------------------------------------------------
(***************************************************************************)
(* The definitions that do not mention the shards are the same ones.       *)
(***************************************************************************)

\* The assumptions on the constants, under which the lemmas of M are cited.
LEMMA Assumed ==
  /\ ShardFor \in [Accounts -> Shards]
  /\ Opening \in [Accounts -> Nat]
  /\ Intents \subseteq [from : Accounts, to : Accounts, amount : Nat \ {0}]
  /\ \A i \in Intents : i.from # i.to
  /\ M!IsFiniteSet(Accounts) /\ M!IsFiniteSet(Txns)
  /\ MaxTransfers \in Nat /\ DeadAfter \in Nat \ {0} /\ MaxEpoch \in Nat \ {0}
  /\ MaxCrashes \in Nat /\ MaxRetries \in Nat /\ NoTxn \notin Txns
  BY WalletAssumption, CoordinatorAssumption, FiniteAssumption DEF M!IsFiniteSet, IsFiniteSet

\* A request goes to the same shard, and is fenced there, in both readings.
LEMMA SameShard ==
  ASSUME NEW m
  PROVE  M!ToShard(m) = ToShard(m) /\ M!Fenced(m) = Fenced(m)
  BY DEF M!ToShard, ToShard, M!RoleAccount, RoleAccount, M!Fenced, Fenced

\* Sums do not depend on the shards.
LEMMA SameSum ==
  ASSUME NEW F, NEW S
  PROVE  M!SumFunctionOnSet(F, S) = SumFunctionOnSet(F, S)
  BY DEF M!SumFunctionOnSet, SumFunctionOnSet, M!FoldFunctionOnSet, FoldFunctionOnSet,
         M!MapThenFoldSet, MapThenFoldSet

\* A shard answers a request by its own state alone.
LEMMA SameAction ==
  ASSUME NEW s, NEW st, NEW e
  PROVE  M!ActionState(s, st, e) = ActionState(s, st, e)
<1>1. ASSUME NEW accounts, NEW f PROVE M!Funded(accounts, f) = Funded(accounts, f)
  BY DEF M!Funded, Funded, M!RoleAccount, RoleAccount
<1>2. ASSUME NEW accounts, NEW f PROVE M!StatusAfter(accounts, f) = StatusAfter(accounts, f)
  BY <1>1 DEF M!StatusAfter, StatusAfter
<1>3. ASSUME NEW accounts, NEW old, NEW f, NEW a
      PROVE  /\ M!AvailableDelta(accounts, old, f, a) = AvailableDelta(accounts, old, f, a)
             /\ M!HeldDelta(accounts, old, f, a) = HeldDelta(accounts, old, f, a)
  BY <1>1 DEF M!AvailableDelta, AvailableDelta, M!HeldDelta, HeldDelta
<1>4. M!ReduceEvent(st, e) = ReduceEvent(st, e)
  BY <1>2, <1>3 DEF M!ReduceEvent, ReduceEvent
<1>5. M!ReduceRaises(st, e) = ReduceRaises(st, e)
  BY <1>4 DEF M!ReduceRaises, ReduceRaises, M!NoPart, NoPart
<1>6. /\ M!WrongShard(s, e) = WrongShard(s, e)
      /\ M!Conflicts(st.parts[e.txn], e) = Conflicts(st.parts[e.txn], e)
      /\ M!Replays(st.parts[e.txn], e) = Replays(st.parts[e.txn], e)
  BY DEF M!WrongShard, WrongShard, M!RoleAccount, RoleAccount, M!Conflicts, Conflicts,
         M!Replays, Replays, M!NoPart, NoPart
<1>7. M!Refuses(s, st, e) = Refuses(s, st, e)
  BY <1>5, <1>6 DEF M!Refuses, Refuses
<1> QED
  BY <1>4, <1>6, <1>7 DEF M!ActionState, ActionState

\* The types of commands, events and requests, and the routing.
LEMMA SameTypes ==
  /\ M!NoCommand = NoCommand /\ M!NoPart = NoPart /\ M!NoEvent = NoEvent
  /\ M!CommandType = CommandType /\ M!EventType = EventType /\ M!Message = Message
  /\ \A i : M!IsLocal(i) = IsLocal(i)
  /\ \A i, r : M!RoleAccount(i, r) = RoleAccount(i, r)
  BY DEF NoCommand, M!NoCommand, NoPart, M!NoPart, NoEvent, M!NoEvent, CommandType, M!CommandType,
         Command, M!Command, EventType, M!EventType, JournalEvents, M!JournalEvents,
         Message, M!Message, Kinds, M!Kinds, Roles, M!Roles, IsLocal, M!IsLocal,
         RoleAccount, M!RoleAccount

\* What holds of the shards holds of the mixed state when they are the same.
Agreed  == ShardType /\ Good(cmd, pending) /\ MoneyOK
AsAgreed == M!ShardType /\ M!Good(cmd, pending) /\ M!MoneyOK

\* What holds of the shards holds of the mixed state when nothing is read.
LEMMA Collapse == Mixed = shard /\ Agreed => AsAgreed
<1> SUFFICES ASSUME Mixed = shard, ShardType, Good(cmd, pending), MoneyOK
             PROVE  M!ShardType /\ M!Good(cmd, pending) /\ M!MoneyOK
  BY DEF Agreed, AsAgreed
<1>1. M!ShardType
  BY DEF ShardType, M!ShardType, AccountsOf, M!AccountsOf, Balance, M!Balance, Part, M!Part,
         Roles, M!Roles, Statuses, M!Statuses, NoPart, M!NoPart
<1>2. /\ \A t : M!Src(cmd, t) = Src(cmd, t) /\ M!Dst(cmd, t) = Dst(cmd, t)
      /\ \A t : M!CrossIn(cmd, t) = CrossIn(cmd, t)
  BY SameTypes DEF Src, M!Src, Dst, M!Dst, CrossIn, M!CrossIn
<1>3. M!PartsOK(cmd)
  BY SameTypes DEF Good, PartsOK, M!PartsOK
<1>4. M!NetOK(cmd)
  <2> SUFFICES ASSUME NEW m \in net PROVE M!MessageOK(cmd, m)
    BY DEF M!NetOK
  <2>1. MessageOK(cmd, m)
    BY DEF Good, NetOK
  <2> QED
    BY <1>2, <2>1, SameTypes DEF MessageOK, M!MessageOK
<1>5. M!StatusOK(cmd)
  <2> SUFFICES ASSUME NEW t \in Txns PROVE M!CommandOK(cmd, t)
    BY DEF M!StatusOK
  <2>1. CommandOK(cmd, t)
    BY DEF Good, StatusOK
  <2> QED
    BY <1>2, <2>1, SameTypes DEF CommandOK, M!CommandOK
<1>6. M!PendingOK(cmd, pending)
  BY <1>2, SameTypes DEF Good, PendingOK, M!PendingOK
<1>7. M!Good(cmd, pending)
  BY SMTT(60), <1>3, <1>4, <1>5, <1>6, SameTypes DEF Good, M!Good
<1>8. M!Amounts = Amounts /\ M!Departed = Departed /\ M!Holdings = Holdings
  BY SameTypes DEF Amounts, M!Amounts, Departed, M!Departed, Cross, M!Cross, Holdings,
     M!Holdings, SourceStatus, M!SourceStatus, DestinationStatus, M!DestinationStatus
<1>9. \A a : M!Reserving(a) = Reserving(a)
  BY SameTypes DEF Reserving, M!Reserving, Cross, M!Cross, SourceStatus, M!SourceStatus
<1>10. M!MoneyOK
  BY <1>8, <1>9, SameSum
     DEF MoneyOK, M!MoneyOK, Conservation, M!Conservation, HoldsAccounted, M!HoldsAccounted,
         WalletTotal, M!WalletTotal, InTransit, M!InTransit, Supply, M!Supply
<1> QED
  BY <1>1, <1>7, <1>10

\* The same in the next state.
LEMMA CollapseNext == (Mixed = shard)' /\ Agreed' => AsAgreed'
  BY Collapse, PTL

-----------------------------------------------------------------------------
(***************************************************************************)
(* The inductive invariant.                                                *)
(***************************************************************************)

ShardState == [accounts : UNION {[AccountsOf(s) -> Balance] : s \in Shards},
               parts : [Txns -> Part \cup {NoPart}]]

AuditType ==
  /\ views \in Seq(ShardState)
  /\ Len(views) <= Len(ShardOrder)
  /\ pc # "audit" => views = <<>>
  /\ checks = <<>> \/ Len(views) = Len(ShardOrder)

AInv == IInv /\ MoneyOK /\ AuditType /\ AsAgreed

\* Every shard has its place in the order of the audit.
LEMMA IndexOf ==
  ASSUME NEW s \in Shards
  PROVE  Index(s) \in 1..Len(ShardOrder) /\ ShardOrder[Index(s)] = s
<1>1. \E k \in 1..Len(ShardOrder) : ShardOrder[k] = s
  BY OrderAssumption
<1> QED
  BY <1>1 DEF Index

\* Nothing is read outside an audit.
LEMMA NothingRead ==
  ASSUME views = <<>>, ShardType
  PROVE  Mixed = shard
<1>1. Len(views) = 0
  OBVIOUS
<1>2. \A s \in Shards : ~Read(s)
  BY <1>1, IndexOf, OrderAssumption DEF Read
<1> QED
  BY <1>2 DEF Mixed, ShardType

\* The same in the next state.
LEMMA NothingReadNext == (views = <<>>)' /\ ShardType' => (Mixed = shard)'
<1>1. views = <<>> /\ ShardType => Mixed = shard
  BY NothingRead
<1> QED
  BY <1>1, PTL

\* AuditBegin and AuditEnd keep the coordinator's invariant.
LEMMA AuditCoordinator ==
  ASSUME IInv, MoneyOK, AuditBegin \/ AuditEnd
  PROVE  IInv' /\ MoneyOK'
<1>0. UNCHANGED <<retries, shard, fence, net, epoch, cursor, left, right, bvars>>
  BY DEF AuditBegin, AuditEnd
<1>1. /\ order' \in Seq(Txns) /\ Good(cmd', pending')
      /\ pc' \in {"idle", "audit"} /\ (pc' = "audit" => pending' = NoEvent)
      /\ \A t \in Txns : cmd[t] # NoCommand => Kept(cmd, cmd', t)
  <2>1. CASE AuditBegin
    <3>1. Good(SyncedCmd, NoEvent) /\ SyncedOrder \in Seq(Txns)
      BY SyncedOK DEF IInv, TypeOK
    <3>2. \A t \in Txns : cmd[t] # NoCommand => Kept(cmd, SyncedCmd, t)
      BY ProjectKeeps DEF SyncedCmd, IInv
    <3> QED
      BY <2>1, <3>1, <3>2 DEF AuditBegin, Synced
  <2>2. CASE AuditEnd
    <3>1. UNCHANGED <<cmd, order, pending>> /\ pc' = "idle"
      BY <2>2 DEF AuditEnd, jvars
    <3>2. \A t \in Txns : cmd[t] # NoCommand => Kept(cmd, cmd', t)
      BY <3>1 DEF Kept
    <3> QED
      BY <3>1, <3>2 DEF IInv, TypeOK
  <2> QED
    BY <2>1, <2>2
<1>2. Good(cmd, pending)'
  BY <1>0, <1>1, GoodStable
<1>3. TypeOK'
  BY <1>0, <1>1 DEF IInv, TypeOK, Good, CommandType, EventType, bvars
<1>4. StepOK'
  BY <1>1 DEF StepOK
<1>5. MoneyOK'
  BY <1>0, <1>1, <1>2, JournalMoney DEF IInv, TypeOK, ShardType
<1> QED
  BY <1>2, <1>3, <1>4, <1>5 DEF IInv

\* Outside an audit, and when one begins or ends, the mixed state is the shards.
LEMMA Aligned ==
  ASSUME IInv', MoneyOK', (views = <<>>)'
  PROVE  AsAgreed'
<1>1. ShardType' /\ Good(cmd, pending)'
  BY DEF IInv, TypeOK, ShardType
<1> QED
  BY <1>1, NothingReadNext, CollapseNext DEF Agreed

\* Steps beside an audit that do not reach a shard that is still to be read.
LEMMA MixedKept ==
  ASSUME AsAgreed, UNCHANGED <<cmd, pending, epoch>>, net' \subseteq net, Mixed' = Mixed
  PROVE  AsAgreed'
<1>1. M!Good(cmd, pending) /\ M!ShardType /\ M!MoneyOK
  BY DEF AsAgreed
<1>2. M!Good(cmd', pending')
  BY <1>1
<1>3. M!Good(cmd, pending)'
  BY <1>2, M!GoodStable, Assumed
<1>4. \A t \in Txns : M!Kept(cmd, cmd', t) \/ cmd[t] = M!NoCommand
  BY DEF M!Kept
<1>5. M!MoneyOK'
  BY <1>1, <1>3, <1>4, M!JournalMoney, Assumed
<1>6. M!ShardType'
  BY <1>1 DEF M!ShardType
<1> QED
  BY <1>3, <1>5, <1>6 DEF AsAgreed

\* A late request that executes beside an audit: at a shard that was read it is
\* as if it had not arrived, at another one it executes in the mixed state too.
LEMMA MixedDelivered ==
  ASSUME AInv, NEW m \in net, DeliverLate(m), UNCHANGED views
  PROVE  AsAgreed'
<1> DEFINE s == ToShard(m)
<1>1. /\ UNCHANGED <<cmd, pending, net, epoch, fence>> /\ Execute(m)
      /\ ShardType /\ Good(cmd, pending) /\ m \in Message
  BY DEF DeliverLate, jvars, AInv, IInv, TypeOK, ShardType
<1>2. s \in Shards
  BY <1>1, Routing
<1>3. \A u \in Shards : u # s => shard'[u] = shard[u]
  BY <1>1, <1>2 DEF Execute, ShardType
<1>4. \A u \in Shards : Mixed'[u] = IF Read(u) THEN views[Index(u)] ELSE shard'[u]
  BY DEF Mixed, Read, Index
<1>5. \A u \in Shards : Mixed[u] = IF Read(u) THEN views[Index(u)] ELSE shard[u]
  BY DEF Mixed
<1>6. Mixed = [u \in Shards |-> Mixed[u]] /\ Mixed' = [u \in Shards |-> Mixed'[u]]
  BY DEF Mixed
<1>7. CASE Read(s)
  <2>1. \A u \in Shards : Mixed'[u] = Mixed[u]
    BY <1>3, <1>4, <1>5, <1>7
  <2>2. Mixed' = Mixed
    BY <1>6, <2>1
  <2> QED
    BY <1>1, <2>2, MixedKept DEF AInv
<1>8. CASE ~Read(s)
  <2>1. Mixed[s] = shard[s] /\ Mixed'[s] = shard'[s]
    BY <1>2, <1>4, <1>5, <1>8
  <2>2. \A u \in Shards : u # s => Mixed'[u] = Mixed[u]
    BY <1>3, <1>4, <1>5
  <2>3. shard'[s] = IF Fenced(m) THEN shard[s] ELSE ActionState(s, shard[s], m)
    BY <1>1, <1>2 DEF Execute, ShardType
  <2>4. Mixed' = IF Fenced(m) THEN Mixed
                 ELSE [Mixed EXCEPT ![s] = ActionState(s, Mixed[s], m)]
    <3>1. CASE Fenced(m)
      <4>1. \A u \in Shards : Mixed'[u] = Mixed[u]
        BY <2>1, <2>2, <2>3, <3>1
      <4> QED
        BY <1>6, <3>1, <4>1
    <3>2. CASE ~Fenced(m)
      <4>1. \A u \in Shards :
              Mixed'[u] = IF u = s THEN ActionState(s, Mixed[s], m) ELSE Mixed[u]
        BY <2>1, <2>2, <2>3, <3>2
      <4> QED
        BY <1>2, <1>6, <3>2, <4>1
    <3> QED
      BY <3>1, <3>2
  <2>5. M!Execute(m)
    BY <2>4, SameShard, SameAction DEF M!Execute
  <2>6. M!ShardType /\ M!Good(cmd, pending) /\ M!MoneyOK /\ m \in M!Message
    BY <1>1, SameTypes DEF AInv, AsAgreed
  <2>7. M!ShardType'
    BY <2>5, <2>6, M!ExecuteMoves, Assumed
  <2>8. M!Good(cmd, pending)'
    BY <1>1, <2>5, <2>6, M!ExecuteGood, Assumed
  <2>9. M!MoneyOK'
    BY <1>1, <2>5, <2>6, M!ExecuteMoney, Assumed
  <2> QED
    BY <2>7, <2>8, <2>9 DEF AsAgreed
<1> QED
  BY <1>7, <1>8

\* The invariant holds initially.
LEMMA AuditInitOK ==
  ASSUME AuditInit
  PROVE  AInv
<1>1. IInv /\ MoneyOK
  BY InitOK, InitMoney DEF AuditInit
<1>2. ShardType /\ Good(cmd, pending)
  BY <1>1 DEF IInv, TypeOK, ShardType
<1>3. AuditType
  BY OrderAssumption DEF AuditType, AuditInit
<1>4. Mixed = shard
  BY <1>2, NothingRead DEF AuditInit
<1> QED
  BY <1>1, <1>2, <1>3, <1>4, Collapse DEF AInv, Agreed

\* What the coordinator, its shards and its requests do beside an audit.
LEMMA BesideAudit ==
  ASSUME IInv, Next, pc = "audit"
  PROVE  /\ cmd' = cmd /\ pending' = pending /\ net' \subseteq net
         /\ \/ pc' = "idle"
            \/ /\ pc' = "audit" /\ epoch' = epoch
               /\ shard' = shard \/ \E m \in net : DeliverLate(m)
<1>1. pending = NoEvent
  BY DEF IInv, StepOK
<1> QED
  BY <1>1 DEF Next, WorkerStep, Create, Sync, Cancel, Retry, BackoffExpires,
     StepBegin, ReadLeft, ReadRight, ActSend, Reply, RejectPrepare, RejectUnrecorded,
     Rejected, ActAppend, ActAppendFails, StepFails, StepEnd, DeliverLate, Lose, FenceShard,
     Restart, jvars, wvars

\* Only AuditBegin starts an audit.
LEMMA NeverAudit ==
  ASSUME Next, pc # "audit"
  PROVE  pc' # "audit"
  BY DEF Next, WorkerStep, Create, Sync, Cancel, Retry, BackoffExpires,
     StepBegin, ReadLeft, ReadRight, ActSend, Reply, RejectPrepare, RejectUnrecorded,
     Rejected, ActAppend, ActAppendFails, StepFails, StepEnd, DeliverLate, Lose, FenceShard,
     Restart, jvars, wvars, Finish

\* Every step beside or of the audit keeps the invariant.
LEMMA AuditNextOK ==
  ASSUME AInv, AuditNext
  PROVE  AInv'
<1>0. IInv /\ MoneyOK /\ AuditType /\ AsAgreed
  BY DEF AInv
<1>1. CASE CoordinatorStep
  <2>1. IInv' /\ MoneyOK'
    BY <1>0, <1>1, NextOK, NextMoney DEF CoordinatorStep
  <2>2. CASE pc # "audit"
    <3>1. pc' # "audit" /\ UNCHANGED avars
      BY <1>1, <2>2, NeverAudit DEF CoordinatorStep
    <3>2. views = <<>> /\ UNCHANGED <<views, checks>>
      BY <1>0, <2>2, <3>1 DEF AuditType, avars
    <3> QED
      BY <1>0, <2>1, <3>1, <3>2, Aligned DEF AInv, AuditType
  <2>3. CASE pc = "audit" /\ pc' = "idle"
    <3>1. views' = <<>> /\ checks' = <<>>
      BY <1>1, <2>3 DEF CoordinatorStep
    <3>2. AuditType'
      BY <3>1, OrderAssumption DEF AuditType
    <3> QED
      BY <2>1, <3>1, <3>2, Aligned DEF AInv
  <2>4. CASE pc = "audit" /\ pc' = "audit"
    <3>1. UNCHANGED <<views, checks>> /\ Next
      BY <1>1, <2>4 DEF CoordinatorStep, avars
    <3>2. AuditType'
      BY <1>0, <2>4, <3>1 DEF AuditType
    <3>3. /\ cmd' = cmd /\ pending' = pending /\ net' \subseteq net /\ epoch' = epoch
          /\ shard' = shard \/ \E m \in net : DeliverLate(m)
      BY <1>0, <2>4, <3>1, BesideAudit
    <3>4. CASE shard' = shard
      <4>1. Mixed' = Mixed
        BY <3>1, <3>4 DEF Mixed, Read, Index
      <4> QED
        BY <1>0, <2>1, <3>2, <3>3, <4>1, MixedKept DEF AInv
    <3>5. CASE \E m \in net : DeliverLate(m)
      BY <2>1, <3>1, <3>2, <3>5, MixedDelivered DEF AInv
    <3> QED
      BY <3>3, <3>4, <3>5
  <2> QED
    BY <1>0, <1>1, <2>2, <2>3, <2>4, BesideAudit DEF CoordinatorStep
<1>2. CASE AuditBegin \/ AuditEnd
  <2>1. IInv' /\ MoneyOK'
    BY <1>0, <1>2, AuditCoordinator
  <2>2. views' = <<>> /\ AuditType'
    <3>1. CASE AuditBegin
      <4>1. pc = "idle" /\ UNCHANGED avars
        BY <3>1 DEF AuditBegin
      <4>2. views' = views /\ checks' = checks
        BY <4>1 DEF avars
      <4> QED
        BY <1>0, <4>1, <4>2 DEF AuditType
    <3>2. CASE AuditEnd
      <4>1. views' = <<>> /\ checks' = <<>>
        BY <3>2 DEF AuditEnd
      <4> QED
        BY <4>1, OrderAssumption DEF AuditType
    <3> QED
      BY <1>2, <3>1, <3>2
  <2> QED
    BY <2>1, <2>2, Aligned DEF AInv
<1>3. CASE ReadView \/ ReadCheck
  <2>1. UNCHANGED vars
    BY <1>3 DEF ReadView, ReadCheck
  <2>2. UNCHANGED <<cmd, order, pending, retries, shard, fence, net, epoch, pc, cursor,
                    left, right, crashes, resets>>
    BY <2>1 DEF vars
  <2>3. IInv' /\ MoneyOK'
    BY <1>0, <2>1, NextOK, StutterMoney
  <2>4. Mixed' = Mixed /\ AuditType'
    <3>1. CASE ReadCheck
      BY <1>0, <2>2, <3>1 DEF ReadCheck, AuditType, Mixed, Read, Index
    <3>2. CASE ReadView
      <4> DEFINE k == Len(views) + 1
                 u == ShardOrder[k]
      <4>1. /\ views \in Seq(ShardState) /\ k \in 1..Len(ShardOrder) /\ pc = "audit"
            /\ u \in Shards
        BY <1>0, <3>2, OrderAssumption DEF ReadView, AuditType
      <4>2. shard[u] \in ShardState
        <5>1. ShardType
          BY <1>0 DEF IInv, TypeOK, ShardType
        <5>2. /\ shard[u].accounts \in [AccountsOf(u) -> Balance]
              /\ shard[u].parts \in [Txns -> Part \cup {NoPart}]
              /\ shard[u] = [accounts |-> shard[u].accounts, parts |-> shard[u].parts]
          BY <4>1, <5>1 DEF ShardType
        <5>3. shard[u].accounts \in UNION {[AccountsOf(s) -> Balance] : s \in Shards}
          BY <4>1, <5>2
        <5> HIDE DEF u
        <5> QED
          BY <5>2, <5>3 DEF ShardState
      <4>3. /\ views' \in Seq(ShardState) /\ Len(views') = k
            /\ \A j \in 1..Len(views) : views'[j] = views[j]
            /\ views'[k] = shard[u]
        BY <3>2, <4>1, <4>2 DEF ReadView
      <4>4. ASSUME NEW s \in Shards PROVE Mixed'[s] = Mixed[s]
        <5>1. Index(s) \in 1..Len(ShardOrder) /\ ShardOrder[Index(s)] = s /\ Index(s)' = Index(s)
          BY IndexOf DEF Index
        <5>2. /\ Mixed[s] = IF Index(s) <= Len(views) THEN views[Index(s)] ELSE shard[s]
              /\ Mixed'[s] = IF Index(s) <= Len(views') THEN views'[Index(s)] ELSE shard[s]
          BY <2>2, <5>1 DEF Mixed, Read
        <5>3. CASE Index(s) <= Len(views)
          <6>1. Index(s) \in 1..Len(views) /\ Len(views) \in Nat
            BY <4>1, <5>1, <5>3
          <6>2. views'[Index(s)] = views[Index(s)]
            BY <4>3, <6>1
          <6>3. Index(s) <= Len(views')
            BY <4>3, <6>1
          <6> QED
            BY <5>2, <5>3, <6>2, <6>3
        <5>4. CASE Index(s) = k
          <6>1. s = u /\ Len(views) \in Nat
            BY <4>1, <5>1, <5>4
          <6> HIDE DEF u
          <6>2. ~(Index(s) <= Len(views)) /\ Index(s) <= Len(views')
            BY <4>3, <5>4, <6>1
          <6> QED
            BY <4>3, <5>2, <5>4, <6>1, <6>2
        <5>5. CASE Index(s) > k
          <6>1. ~(Index(s) <= Len(views)) /\ ~(Index(s) <= Len(views'))
            BY <4>1, <4>3, <5>1, <5>5
          <6> QED
            BY <5>2, <6>1
        <5>6. Index(s) \in Nat /\ Len(views) \in Nat
          BY <4>1, <5>1
        <5>7. Index(s) <= Len(views) \/ Index(s) = k \/ Index(s) > k
          BY <5>6
        <5> QED
          BY <5>3, <5>4, <5>5, <5>7
      <4>5. Mixed' = Mixed
        BY <4>4 DEF Mixed
      <4>6. AuditType'
        BY <1>0, <2>2, <3>2, <4>1, <4>3 DEF AuditType, ReadView
      <4> QED
        BY <4>5, <4>6
    <3> QED
      BY <1>3, <3>1, <3>2
  <2> QED
    BY <1>0, <2>2, <2>3, <2>4, MixedKept DEF AInv
<1> QED
  BY <1>1, <1>2, <1>3 DEF AuditNext

\* The views, completed with the unread shards, satisfy what the shards do.
THEOREM AuditInvariant == AuditSpec => []AInv
<1>1. AuditInit => AInv
  BY AuditInitOK
<1>2. AInv /\ [AuditNext]_avarsAll => AInv'
  <2> SUFFICES ASSUME AInv, [AuditNext]_avarsAll PROVE AInv'
    OBVIOUS
  <2>1. CASE AuditNext
    BY <2>1, AuditNextOK
  <2>2. CASE UNCHANGED avarsAll
    <3>1. UNCHANGED vars /\ UNCHANGED <<views, checks>>
      BY <2>2 DEF avarsAll, avars
    <3>2. UNCHANGED <<cmd, pending, shard, net, epoch, pc>>
      BY <3>1 DEF vars
    <3>3. IInv' /\ MoneyOK'
      BY <3>1, NextOK, StutterMoney DEF AInv
    <3>4. Mixed' = Mixed /\ AuditType'
      BY <3>1, <3>2 DEF AInv, AuditType, Mixed, Read, Index
    <3> QED
      BY <3>2, <3>3, <3>4, MixedKept DEF AInv
  <2> QED
    BY <2>1, <2>2
<1> QED
  BY <1>1, <1>2, PTL DEF AuditSpec

\* A complete set of views is the mixed state.
LEMMA AllRead ==
  ASSUME AuditType, Audited, NEW s \in Shards
  PROVE  Mixed[s] = ViewOf(s)
<1>1. Len(views) = Len(ShardOrder)
  <2>1. Len(ShardOrder) \in Nat /\ Index(s) \in 1..Len(ShardOrder)
    BY IndexOf, OrderAssumption
  <2>2. checks # <<>>
    BY <2>1 DEF Audited
  <2> QED
    BY <2>2 DEF AuditType
<1>2. Read(s)
  BY <1>1, IndexOf, OrderAssumption DEF Read
<1> QED
  BY <1>2 DEF Mixed, ViewOf, Index

\* The report of a complete audit names no transfer, no orphan and no money.
LEMMA ReportSound == AInv => NoFalseAlarm
<1> SUFFICES ASSUME AInv, Audited PROVE AuditErrors \subseteq {"changed"}
  BY DEF NoFalseAlarm
<1>0. /\ AuditType /\ M!ShardType /\ M!Good(cmd, pending) /\ M!MoneyOK
      /\ cmd \in CommandType
  BY DEF AInv, AsAgreed, IInv, Good
<1>1. \A s \in Shards : Mixed[s] = ViewOf(s)
  BY <1>0, AllRead
<1>2. \A a \in Accounts : ShardFor[a] \in Shards
  BY WalletAssumption
<1>3. ASSUME NEW t \in Txns, cmd[t] # NoCommand
      PROVE  /\ cmd[t].intent \in Intents
             /\ ShardFor[cmd[t].intent.from] \in Shards /\ ShardFor[cmd[t].intent.to] \in Shards
             /\ SourceSeen(t) = Mixed[ShardFor[cmd[t].intent.from]].parts[t]
             /\ DestinationSeen(t) = Mixed[ShardFor[cmd[t].intent.to]].parts[t]
  <2>1. cmd[t] \in Command
    BY <1>0, <1>3 DEF CommandType
  <2>2. cmd[t].intent \in Intents
    BY <2>1 DEF Command
  <2>3. cmd[t].intent.from \in Accounts /\ cmd[t].intent.to \in Accounts
    BY <2>2, WalletAssumption
  <2> QED
    BY <1>1, <1>2, <2>2, <2>3 DEF SourceSeen, DestinationSeen, Viewed
<1>4. ASSUME NEW t \in Txns, cmd[t] # NoCommand, IsLocal(cmd[t].intent), LocalErrors(t)
      PROVE  FALSE
  <2>1. M!PartsOK(cmd) /\ M!CommandOK(cmd, t)
    BY <1>0 DEF M!Good, M!StatusOK
  <2> DEFINE p == SourceSeen(t)
  <2>2. /\ p = Mixed[ShardFor[cmd[t].intent.from]].parts[t]
        /\ ShardFor[cmd[t].intent.from] \in Shards
    BY <1>3, <1>4
  <2>3. p # NoPart => p.intent = cmd[t].intent /\ p.role = "local"
    BY SMTT(60), <1>4, <2>1, <2>2, SameTypes DEF M!PartsOK
  <2>4. /\ cmd[t].decision = "NONE"
        /\ cmd[t].status = "SUCCEEDED" => p.status = "CONFIRMED"
        /\ cmd[t].status = "REJECTED" => p.status = "REJECTED"
    BY <1>4, <2>1, <2>2, SameTypes DEF M!CommandOK, M!Src
  <2> QED
    BY <1>4, <2>3, <2>4 DEF LocalErrors, Mismatched
<1>5. ASSUME NEW t \in Txns, cmd[t] # NoCommand, ~IsLocal(cmd[t].intent), CrossErrors(t)
      PROVE  FALSE
  <2>1. M!PartsOK(cmd) /\ M!CommandOK(cmd, t)
    BY <1>0 DEF M!Good, M!StatusOK
  <2> DEFINE p == SourceSeen(t)
             q == DestinationSeen(t)
  <2>2. /\ p = Mixed[ShardFor[cmd[t].intent.from]].parts[t]
        /\ q = Mixed[ShardFor[cmd[t].intent.to]].parts[t]
        /\ ShardFor[cmd[t].intent.from] \in Shards /\ ShardFor[cmd[t].intent.to] \in Shards
        /\ ShardFor[cmd[t].intent.from] # ShardFor[cmd[t].intent.to]
    BY SMTT(60), <1>3, <1>5 DEF IsLocal
  <2>3. /\ p # NoPart => p.role \in {"local", "source", "destination"}
        /\ q # NoPart => q.role \in {"local", "source", "destination"}
    BY <1>0, <2>2, SameTypes DEF M!ShardType, M!Part, M!Roles
  <2>4. /\ p # NoPart => p.intent = cmd[t].intent /\ p.role = "source"
        /\ q # NoPart => q.intent = cmd[t].intent /\ q.role = "destination"
    <3>0. ASSUME NEW s \in Shards, Mixed[s].parts[t] # NoPart
          PROVE  /\ Mixed[s].parts[t].intent = cmd[t].intent
                 /\ Mixed[s].parts[t].role = "local" <=> IsLocal(Mixed[s].parts[t].intent)
                 /\ ShardFor[RoleAccount(Mixed[s].parts[t].intent, Mixed[s].parts[t].role)] = s
      <4>1. /\ M!NoPart = NoPart
            /\ \A i : M!IsLocal(i) = IsLocal(i)
            /\ \A i, r : M!RoleAccount(i, r) = RoleAccount(i, r)
        BY SameTypes
      <4> QED
        BY <2>1, <3>0, <4>1 DEF M!PartsOK
    <3>1. /\ p # NoPart => /\ p.intent = cmd[t].intent
                           /\ p.role = "local" <=> IsLocal(p.intent)
                           /\ ShardFor[RoleAccount(p.intent, p.role)] = ShardFor[cmd[t].intent.from]
          /\ q # NoPart => /\ q.intent = cmd[t].intent
                           /\ q.role = "local" <=> IsLocal(q.intent)
                           /\ ShardFor[RoleAccount(q.intent, q.role)] = ShardFor[cmd[t].intent.to]
      <4> HIDE DEF p, q
      <4> QED
        BY <2>2, <3>0
    <3> HIDE DEF p, q
    <3>2. p # NoPart => p.intent = cmd[t].intent /\ p.role = "source"
      BY <1>5, <2>2, <2>3, <3>1 DEF RoleAccount
    <3>3. q # NoPart => q.intent = cmd[t].intent /\ q.role = "destination"
      BY <1>5, <2>2, <2>3, <3>1 DEF RoleAccount
    <3> QED
      BY <3>2, <3>3
  <2>5. /\ p.status = "CONFIRMED" => cmd[t].decision = "COMMIT"
        /\ q.status = "CONFIRMED" => p.status = "CONFIRMED"
        /\ cmd[t].status = "SUCCEEDED" => q.status = "CONFIRMED"
        /\ cmd[t].status = "CANCELED" => p.status = "CANCELED" /\ q.status = "CANCELED"
    BY <1>5, <2>1, <2>2, SameTypes DEF M!CommandOK, M!Src, M!Dst, M!CrossIn
  <2> HIDE DEF p, q
  <2>6. CrossErrors(t) <=>
         \/ Mismatched(p, t, "source")
         \/ Mismatched(q, t, "destination")
         \/ p.status = "CONFIRMED" /\ q.status # "CONFIRMED" /\ cmd[t].decision # "COMMIT"
         \/ q.status = "CONFIRMED" /\ (p.status # "CONFIRMED" \/ cmd[t].decision # "COMMIT")
         \/ cmd[t].status = "SUCCEEDED" /\ {p.status, q.status} # {"CONFIRMED"}
         \/ cmd[t].status = "CANCELED" /\ {p.status, q.status} # {"CANCELED"}
    BY DEF CrossErrors, p, q
  <2>7. ~Mismatched(p, t, "source") /\ ~Mismatched(q, t, "destination")
    BY <2>4 DEF Mismatched
  <2> QED
    BY <1>5, <2>5, <2>6, <2>7
<1>6. ASSUME NEW s \in Shards, NEW t \in Txns, Orphan(s, t)
      PROVE  FALSE
  <2> DEFINE p == Mixed[s].parts[t]
  <2>1. Viewed(s, t) = p
    BY <1>1 DEF Viewed
  <2>2. p # NoPart
    BY <1>6, <2>1 DEF Orphan
  <2>3. /\ cmd[t] # NoCommand /\ p.intent = cmd[t].intent
        /\ ShardFor[RoleAccount(p.intent, p.role)] = s
    BY <1>0, <2>2, SameTypes DEF M!Good, M!PartsOK
  <2>4. s \in {ShardFor[p.intent.from], ShardFor[p.intent.to]}
    BY <2>3 DEF RoleAccount
  <2> HIDE DEF p
  <2> QED
    BY <1>6, <2>1, <2>3, <2>4 DEF Orphan
<1>7. ViewedTotal + ViewedTransit = Supply
  <2>1. M!WalletTotal = ViewedTotal
    <3>1. \A a \in Accounts : Mixed[ShardFor[a]] = ViewOf(ShardFor[a])
      BY <1>1, <1>2
    <3>2. M!Holdings = [a \in Accounts |-> LET b == ViewOf(ShardFor[a]).accounts[a]
                                           IN  b.available + b.held]
      BY <3>1 DEF M!Holdings
    <3> QED
      BY <3>2, SameSum DEF M!WalletTotal, ViewedTotal
  <2>2. M!InTransit = ViewedTransit
    <3>1. M!Amounts = Amounts
      BY SameTypes DEF M!Amounts, Amounts
    <3>2. \A t \in Txns : M!Cross(t) <=> Cross(t)
      BY SameTypes DEF M!Cross, Cross
    <3>3. \A t \in Txns : Cross(t) => cmd[t] # NoCommand
      BY DEF Cross
    <3>4. \A t \in Txns : Cross(t) =>
             /\ M!SourceStatus(t) = SourceSeen(t).status
             /\ M!DestinationStatus(t) = DestinationSeen(t).status
      BY <1>3, <3>3 DEF M!SourceStatus, M!DestinationStatus
    <3>5. M!Departed = {t \in Txns : /\ Cross(t)
                                     /\ SourceSeen(t).status = "CONFIRMED"
                                     /\ DestinationSeen(t).status # "CONFIRMED"}
      BY <3>2, <3>4 DEF M!Departed
    <3> QED
      BY <3>1, <3>5, SameSum DEF M!InTransit, ViewedTransit
  <2>3. M!Supply = Supply
    BY SameSum DEF M!Supply, Supply
  <2> QED
    BY <1>0, <2>1, <2>2, <2>3 DEF M!MoneyOK, M!Conservation
<1> QED
  BY <1>4, <1>5, <1>6, <1>7 DEF AuditErrors

\* Money is neither created nor lost, holds are exactly what the prepared
\* transfers reserve, and the audit raises no false alarm, whatever requests
\* execute between its reads (projection.py, audit.py).
THEOREM BooksAgree == AuditSpec => []BooksBalance
<1>1. AInv => BooksBalance
  BY ReportSound DEF AInv, IInv, MoneyOK, BooksBalance
<1> QED
  BY <1>1, AuditInvariant, PTL

-----------------------------------------------------------------------------
(***************************************************************************)
(* The wallet's journal implements QuorumLog, for any set of replicas, any *)
(* quorum, any number of events, epochs and restarts, and any loss, delay  *)
(* or repetition of pushes.                                                *)
(*                                                                         *)
(* The argument: rows are only ever copied from the authority log, which   *)
(* only grows, so replicas and pushes in flight hold prefixes of it.  A    *)
(* replica whose task ended well has the whole snapshot, and the snapshot  *)
(* that a running _sync replicates is the whole log.  An append therefore  *)
(* writes its row when the log is committed, and at most one row is not.   *)
(***************************************************************************)

\* A sequence of events is what the log begins with.
IsPrefix(s) == Len(s) <= Len(log) /\ s = Prefix(Len(s))

\* Pushes in flight hold prefixes, sent under an epoch that was configured.
PushesArePrefixes == \A m \in jnet : IsPrefix(m.prefix) /\ m.epoch <= jepoch

\* At most one row is not committed, and none while an append writes its row.
OnePending ==
  /\ Len(log) <= committed + 1
  /\ op = "write" => Len(log) = committed
  /\ op \in {"first", "write", "second"} => want \in Events

\* The snapshot is the whole log.  A task that ended well left its replica with
\* the snapshot; one that still pushes has not gone past it.
TasksInSnapshot ==
  /\ op # "none" => rows = Len(log)
  /\ \A r \in Replicas :
       /\ task[r] = "ok" => Len(replica[r]) >= rows
       /\ task[r] \in {"push", "wait"} => next[r] \in 1..rows
       /\ op = "none" => task[r] = "off"

\* A quorum has as many rows as are committed.
QuorumHasCommitted ==
  committed = 0 \/ Cardinality({r \in Replicas : Len(replica[r]) >= committed}) >= Quorum

JournalIInv ==
  /\ JournalTypeOK
  /\ \A r \in Replicas : IsPrefix(replica[r])
  /\ PushesArePrefixes
  /\ OnePending
  /\ TasksInSnapshot
  /\ QuorumHasCommitted

-----------------------------------------------------------------------------
(* Prefixes. *)

\* A prefix of a sequence has its elements.
LEMMA PrefixProperties ==
  ASSUME NEW S, NEW s \in Seq(S), NEW k \in 0..Len(s)
  PROVE  /\ SubSeq(s, 1, k) \in Seq(S)
         /\ Len(SubSeq(s, 1, k)) = k
         /\ \A i \in 1..k : SubSeq(s, 1, k)[i] = s[i]
OBVIOUS

\* An append leaves the prefixes alone.
LEMMA PrefixOfAppend ==
  ASSUME NEW S, NEW s \in Seq(S), NEW k \in 0..Len(s), NEW e \in S
  PROVE  SubSeq(Append(s, e), 1, k) = SubSeq(s, 1, k)
OBVIOUS

\* The next longer prefix.
LEMMA PrefixExtends ==
  ASSUME NEW S, NEW s \in Seq(S), NEW k \in 0..(Len(s) - 1)
  PROVE  SubSeq(s, 1, k + 1) = Append(SubSeq(s, 1, k), s[k + 1])
OBVIOUS

\* A prefix of a prefix is a prefix.
LEMMA PrefixOfPrefix ==
  ASSUME NEW S, NEW s \in Seq(S), NEW k \in 0..Len(s), NEW j \in 0..k
  PROVE  SubSeq(SubSeq(s, 1, k), 1, j) = SubSeq(s, 1, j)
OBVIOUS

\* More members are at least as many.
LEMMA QuorumKept ==
  ASSUME IsFiniteSet(Replicas), Quorum \in Nat, NEW A, NEW B, A \subseteq B, B \subseteq Replicas,
         Cardinality(A) >= Quorum
  PROVE  Cardinality(B) >= Quorum
<1>1. IsFiniteSet(B) /\ IsFiniteSet(A)
  BY FS_Subset
<1>2. Cardinality(A) <= Cardinality(B) /\ Cardinality(A) \in Nat /\ Cardinality(B) \in Nat
  BY <1>1, FS_Subset, FS_CardinalityType
<1> QED
  BY <1>2

-----------------------------------------------------------------------------
(* The invariant is inductive. *)

\* The invariant holds initially.
LEMMA JournalInitIInv == ASSUME Assumption, JournalInit PROVE JournalIInv
<1>1. JournalTypeOK
  BY DEF JournalInit, JournalTypeOK, Assumption, TaskStates
<1> QED
  BY <1>1 DEF JournalInit, JournalIInv, IsPrefix, Prefix, PushesArePrefixes, OnePending, TasksInSnapshot, QuorumHasCommitted, Assumption

\* What a push does to its replica: nothing, or it becomes the pushed prefix,
\* which is longer.
LEMMA PushEffect ==
  ASSUME JournalTypeOK, NEW m \in Push, replica' = ReplicaAfter(m)
  PROVE  /\ replica' \in [Replicas -> Seq(Events)]
         /\ \A r \in Replicas : \/ replica'[r] = replica[r]
                                \/ /\ r = m.to /\ replica'[r] = m.prefix /\ m.epoch = jfence[r]
                                   /\ Len(replica'[r]) > Len(replica[r])
         /\ Accepts(m) => Len(replica'[m.to]) >= Len(m.prefix)
<1> DEFINE grows == Accepts(m) /\ Len(m.prefix) > Len(replica[m.to])
<1>1. m.to \in Replicas /\ m.prefix \in Seq(Events)
  BY DEF Push
<1>2. replica[m.to] \in Seq(Events) /\ replica \in [Replicas -> Seq(Events)]
  BY <1>1 DEF JournalTypeOK
<1>3. Len(m.prefix) \in Nat /\ Len(replica[m.to]) \in Nat
  BY <1>1, <1>2
<1>4. CASE grows
  <2>1. replica' = [replica EXCEPT ![m.to] = m.prefix] /\ m.epoch = jfence[m.to]
    BY <1>4 DEF ReplicaAfter, Accepts, FencedPush
  <2> QED
    BY <2>1, <1>1, <1>2, <1>3, <1>4
<1>5. CASE ~grows
  <2>1. replica' = replica
    BY <1>5 DEF ReplicaAfter
  <2> QED
    BY <2>1, <1>2, <1>3, <1>5
<1> QED
  BY <1>4, <1>5

\* The parts of the invariant that speak of the log, the replicas and the pushes
\* survive when the log stays and the replicas change only as pushes make them.
LEMMA PushKeepsPrefixes ==
  ASSUME Assumption, JournalIInv, NEW m \in jnet, replica' = ReplicaAfter(m), UNCHANGED <<log, committed>>
  PROVE  /\ replica' \in [Replicas -> Seq(Events)]
         /\ \A r \in Replicas : IsPrefix(replica[r])'
         /\ \A r \in Replicas : Len(replica'[r]) >= Len(replica[r])
         /\ QuorumHasCommitted'
         /\ Accepts(m) => Len(replica'[m.to]) >= Len(m.prefix)
         /\ \A r \in Replicas : jfence[r] > jepoch => replica'[r] = replica[r]
<1>1. m \in Push
  BY DEF JournalIInv, JournalTypeOK
<1>2. /\ replica' \in [Replicas -> Seq(Events)]
      /\ \A r \in Replicas : \/ replica'[r] = replica[r]
                             \/ /\ r = m.to /\ replica'[r] = m.prefix /\ m.epoch = jfence[r]
                                /\ Len(replica'[r]) > Len(replica[r])
      /\ Accepts(m) => Len(replica'[m.to]) >= Len(m.prefix)
  BY <1>1, PushEffect DEF JournalIInv
<1>3. \A r \in Replicas : IsPrefix(replica[r])'
  <2> SUFFICES ASSUME NEW r \in Replicas PROVE IsPrefix(replica[r])'
    OBVIOUS
  <2>1. IsPrefix(replica[r]) /\ IsPrefix(m.prefix)
    BY DEF JournalIInv, PushesArePrefixes
  <2> QED
    BY <1>2, <2>1 DEF IsPrefix, Prefix
<1>4. \A r \in Replicas : Len(replica[r]) \in Nat /\ Len(replica'[r]) \in Nat
  BY <1>2 DEF JournalIInv, JournalTypeOK
<1>5. \A r \in Replicas : Len(replica'[r]) >= Len(replica[r])
  BY <1>2, <1>4
<1>6. QuorumHasCommitted'
  <2>1. committed \in Nat
    BY DEF JournalIInv, JournalTypeOK
  <2>2. CASE committed = 0
    BY <2>2 DEF QuorumHasCommitted
  <2>3. CASE committed # 0
    <3>1. Cardinality({r \in Replicas : Len(replica[r]) >= committed}) >= Quorum
      BY <2>3 DEF JournalIInv, QuorumHasCommitted
    <3>2. {r \in Replicas : Len(replica[r]) >= committed} \subseteq {r \in Replicas : Len(replica'[r]) >= committed}
      BY <1>4, <1>5, <2>1
    <3>3. Cardinality({r \in Replicas : Len(replica'[r]) >= committed}) >= Quorum
      BY <3>1, <3>2, QuorumKept DEF Assumption
    <3> QED
      BY <3>3 DEF QuorumHasCommitted
  <2> QED
    BY <2>2, <2>3
<1>7. \A r \in Replicas : jfence[r] > jepoch => replica'[r] = replica[r]
  <2>1. m.epoch <= jepoch
    BY DEF JournalIInv, PushesArePrefixes
  <2>2. jepoch \in Int /\ \A r \in Replicas : jfence[r] \in Int
    BY DEF JournalIInv, JournalTypeOK
  <2> QED
    BY <1>2, <2>1, <2>2
<1> QED
  BY <1>2, <1>3, <1>5, <1>6, <1>7

\* A step that changes neither log, replicas nor pushes keeps all but the parts
\* about the running operation.
LEMMA QuietStep ==
  ASSUME JournalIInv, JournalTypeOK', UNCHANGED <<log, committed, replica>>, jnet' \subseteq jnet, jepoch' >= jepoch,
         OnePending', TasksInSnapshot'
  PROVE  JournalIInv'
<1>1. \A r \in Replicas : IsPrefix(replica[r])'
  BY DEF JournalIInv, IsPrefix, Prefix
<1>2. PushesArePrefixes'
  BY SMTT(60) DEF JournalIInv, JournalTypeOK, Push, PushesArePrefixes, IsPrefix, Prefix
<1>3. QuorumHasCommitted'
  BY DEF JournalIInv, QuorumHasCommitted
<1> QED
  BY <1>1, <1>2, <1>3 DEF JournalIInv

\* The snapshot of a _sync that a quorum acknowledged becomes committed.
LEMMA CommitStep ==
  ASSUME Assumption, JournalIInv, TasksDone, Acknowledged, MarkCommitted, UNCHANGED <<log, replica>>
  PROVE  committed' = Len(log) /\ QuorumHasCommitted'
<1>1. /\ rows = Len(log) /\ Len(log) \in Nat /\ committed \in Nat /\ committed <= Len(log)
      /\ Quorum \in Nat /\ IsFiniteSet(Replicas)
  BY DEF JournalIInv, JournalTypeOK, TasksDone, TasksInSnapshot, Assumption
<1>2. committed' = Len(log)
  BY <1>1 DEF MarkCommitted
<1>3. {r \in Replicas : task[r] = "ok"} \subseteq {r \in Replicas : Len(replica[r]) >= Len(log)}
  BY <1>1 DEF JournalIInv, TasksInSnapshot
<1>4. Cardinality({r \in Replicas : Len(replica[r]) >= Len(log)}) >= Quorum
  BY <1>1, <1>3, QuorumKept DEF Acknowledged
<1> QED
  BY <1>2, <1>4 DEF QuorumHasCommitted

\* Every step of the journal, its replicas and its pushes keeps the invariant.
LEMMA JournalNextIInv == ASSUME Assumption, JournalIInv, [JournalNext]_logvars PROVE JournalIInv'
<1> USE DEF Assumption
<1>0. JournalTypeOK /\ OnePending /\ TasksInSnapshot
  BY DEF JournalIInv
<1>1. CASE UNCHANGED logvars
  BY <1>1 DEF logvars, JournalIInv, JournalTypeOK, Push, IsPrefix, Prefix, PushesArePrefixes, OnePending, TasksInSnapshot, QuorumHasCommitted
<1>2. CASE BeginSync
  <2>1. JournalTypeOK' /\ OnePending' /\ TasksInSnapshot'
    BY SMTT(60), <1>0, <1>2 DEF BeginSync, StartTasks, rvars, JournalTypeOK, Push, OnePending, TasksInSnapshot, TaskStates
  <2>2. UNCHANGED <<log, committed, replica, jnet, jepoch>>
    BY <1>2 DEF BeginSync, rvars
  <2> QED
    BY <2>1, <2>2, QuietStep DEF JournalTypeOK
<1>3. ASSUME NEW e \in Events, BeginAppend(e) PROVE JournalIInv'
  <2>1. JournalTypeOK' /\ OnePending' /\ TasksInSnapshot'
    BY <1>0, <1>3 DEF BeginAppend, StartTasks, rvars, JournalTypeOK, Push, OnePending, TasksInSnapshot, TaskStates
  <2>2. UNCHANGED <<log, committed, replica, jnet, jepoch>>
    BY <1>3 DEF BeginAppend, rvars
  <2> QED
    BY <2>1, <2>2, QuietStep, <1>0 DEF JournalTypeOK
<1>4. ASSUME NEW r \in Replicas, TaskStatus(r) PROVE JournalIInv'
  <2>1. UNCHANGED <<log, committed, replica, jnet, jepoch>>
    BY <1>4 DEF TaskStatus, rvars
  <2>2. Len(replica[r]) \in Nat /\ rows \in Nat /\ Len(log) \in Nat /\ rows <= Len(log)
    BY <1>0 DEF JournalTypeOK
  <2>3. JournalTypeOK'
    BY <1>0, <1>4, <2>2 DEF TaskStatus, SetTask, rvars, JournalTypeOK, Push, TaskStates
  <2>4. OnePending'
    BY <1>0, <1>4 DEF TaskStatus, OnePending, JournalTypeOK
  <2>5. TasksInSnapshot'
    BY <1>0, <1>4, <2>2 DEF TaskStatus, SetTask, rvars, JournalTypeOK, TasksInSnapshot, TaskStates
  <2> QED
    BY <2>1, <2>3, <2>4, <2>5, QuietStep, <1>0 DEF JournalTypeOK
<1>5. ASSUME NEW r \in Replicas, TaskPush(r) PROVE JournalIInv'
  <2>1. UNCHANGED <<log, committed, replica, jfence, jepoch, op, want, rows, next, jcrashes>>
        /\ jnet' = jnet \cup {PushOf(r)} /\ task[r] = "push" /\ task' = [task EXCEPT ![r] = "wait"]
    BY <1>5 DEF TaskPush, SetTask, rvars
  <2>2. next[r] \in 1..rows /\ rows \in 0..Len(log) /\ log \in Seq(Events) /\ Len(log) \in Nat
    BY <1>0, <2>1 DEF TasksInSnapshot, JournalTypeOK
  <2>3. next[r] \in 0..Len(log)
    BY <2>2
  <2>4. Prefix(next[r]) \in Seq(Events) /\ Len(Prefix(next[r])) = next[r]
    BY <2>2, <2>3, PrefixProperties DEF Prefix
  <2>5. PushOf(r) \in Push /\ IsPrefix(PushOf(r).prefix) /\ PushOf(r).epoch <= jepoch
    BY <1>0, <2>2, <2>3, <2>4 DEF PushOf, Push, IsPrefix, JournalTypeOK
  <2>6. JournalTypeOK'
    BY <1>0, <2>1, <2>5 DEF JournalTypeOK, TaskStates, Push
  <2>7. OnePending' /\ TasksInSnapshot'
    BY <1>0, <2>1 DEF OnePending, TasksInSnapshot, JournalTypeOK
  <2>8. PushesArePrefixes'
    BY <2>1, <2>5 DEF JournalIInv, PushesArePrefixes, IsPrefix, Prefix
  <2>9. QuorumHasCommitted' /\ \A q \in Replicas : IsPrefix(replica[q])'
    BY <2>1 DEF JournalIInv, QuorumHasCommitted, IsPrefix, Prefix
  <2> QED
    BY <2>6, <2>7, <2>8, <2>9 DEF JournalIInv
<1>6. ASSUME NEW r \in Replicas, TaskAck(r) PROVE JournalIInv'
  <2>1. /\ UNCHANGED <<log, committed, jfence, jepoch, op, want, rows, jcrashes>>
        /\ jnet' \subseteq jnet /\ task[r] = "wait"
        /\ task' = [task EXCEPT ![r] = IF next[r] = rows THEN "ok" ELSE "push"]
        /\ next' = [next EXCEPT ![r] = next[r] + 1]
        /\ replica' = ReplicaAfter(PushOf(r)) /\ PushOf(r) \in jnet /\ Accepts(PushOf(r))
    BY <1>6 DEF TaskAck, SetTask
  <2>2. /\ replica' \in [Replicas -> Seq(Events)]
        /\ \A q \in Replicas : IsPrefix(replica[q])'
        /\ \A q \in Replicas : Len(replica'[q]) >= Len(replica[q])
        /\ QuorumHasCommitted'
        /\ Len(replica'[PushOf(r).to]) >= Len(PushOf(r).prefix)
    BY <2>1, PushKeepsPrefixes
  <2>3. next[r] \in 1..rows /\ rows \in 0..Len(log) /\ log \in Seq(Events) /\ Len(log) \in Nat
    BY <1>0, <2>1 DEF TasksInSnapshot, JournalTypeOK
  <2>4. Len(replica'[r]) >= next[r]
    BY <2>2, <2>3, PrefixProperties DEF PushOf, Prefix
  <2>5. JournalTypeOK'
    <3>1. next' \in [Replicas -> 0..(Len(log) + 1)]
      BY <1>0, <2>1, <2>3 DEF JournalTypeOK
    <3>2. task' \in [Replicas -> TaskStates]
      BY <1>0, <2>1 DEF JournalTypeOK, TaskStates
    <3>3. jnet' \subseteq Push
      BY <1>0, <2>1 DEF JournalTypeOK
    <3> QED
      BY <1>0, <2>1, <2>2, <3>1, <3>2, <3>3 DEF JournalTypeOK
  <2>6. OnePending'
    BY <1>0, <2>1 DEF OnePending
  <2>7. TasksInSnapshot'
    <3>1. \A q \in Replicas : Len(replica'[q]) \in Nat /\ Len(replica[q]) \in Nat
      BY SMTT(60), <1>0, <2>2 DEF JournalTypeOK
    <3>2. task \in [Replicas -> TaskStates] /\ next \in [Replicas -> 0..(Len(log) + 1)]
      BY <1>0 DEF JournalTypeOK
    <3>3. op # "none"
      BY <1>0, <2>1 DEF TasksInSnapshot
    <3>4. ASSUME NEW q \in Replicas
          PROVE  /\ task'[q] = "ok" => Len(replica'[q]) >= rows
                 /\ task'[q] \in {"push", "wait"} => next'[q] \in 1..rows
      <4>1. CASE q = r
        <5>1. task'[q] = (IF next[r] = rows THEN "ok" ELSE "push") /\ next'[q] = next[r] + 1
          BY <2>1, <3>2, <4>1
        <5> QED
          BY <2>3, <2>4, <4>1, <5>1
      <4>2. CASE q # r
        <5>1. task'[q] = task[q] /\ next'[q] = next[q]
          BY <2>1, <3>2, <4>2
        <5>2. /\ task[q] = "ok" => Len(replica[q]) >= rows
              /\ task[q] \in {"push", "wait"} => next[q] \in 1..rows
          BY <1>0 DEF TasksInSnapshot
        <5>3. Len(replica'[q]) >= Len(replica[q])
          BY <2>2
        <5> QED
          BY <2>3, <3>1, <5>1, <5>2, <5>3
      <4> QED
        BY <4>1, <4>2
    <3> QED
      BY <1>0, <2>1, <3>3, <3>4 DEF TasksInSnapshot
  <2>8. PushesArePrefixes'
    BY <2>1 DEF JournalIInv, PushesArePrefixes, IsPrefix, Prefix
  <2> QED
    BY <2>2, <2>5, <2>6, <2>7, <2>8 DEF JournalIInv
<1>7. ASSUME NEW r \in Replicas, TaskFail(r) PROVE JournalIInv'
  <2>1. UNCHANGED <<log, committed, replica, jnet, jepoch>>
    BY <1>7 DEF TaskFail, rvars
  <2>2. JournalTypeOK' /\ OnePending' /\ TasksInSnapshot'
    BY <1>0, <1>7 DEF TaskFail, SetTask, rvars, JournalTypeOK, Push, TaskStates, OnePending, TasksInSnapshot
  <2> QED
    BY <2>1, <2>2, QuietStep, <1>0 DEF JournalTypeOK
<1>8. CASE SyncCommits
  <2>1. committed' = Len(log) /\ QuorumHasCommitted'
    BY <1>8, CommitStep DEF SyncCommits, rvars
  <2>2. UNCHANGED <<log, replica, jfence, jepoch, jnet, jcrashes>>
    BY <1>8 DEF SyncCommits, rvars
  <2>3. JournalTypeOK' /\ OnePending' /\ TasksInSnapshot'
    BY <1>0, <1>8, <2>1, <2>2 DEF SyncCommits, StopTasks, JournalTypeOK, Push, TaskStates, OnePending, TasksInSnapshot
  <2>4. PushesArePrefixes' /\ \A r \in Replicas : IsPrefix(replica[r])'
    BY <2>2 DEF JournalIInv, PushesArePrefixes, IsPrefix, Prefix
  <2> QED
    BY <2>1, <2>3, <2>4 DEF JournalIInv
<1>9. CASE FirstSyncCommits
  <2>1. committed' = Len(log) /\ QuorumHasCommitted'
    BY <1>9, CommitStep DEF FirstSyncCommits, rvars
  <2>2. UNCHANGED <<log, replica, jfence, jepoch, jnet, want, rows, task, next, jcrashes>> /\ op' = "write" /\ op = "first"
    BY <1>9 DEF FirstSyncCommits, rvars
  <2>3. JournalTypeOK'
    BY <1>0, <2>1, <2>2 DEF JournalTypeOK, Push, TaskStates
  <2>4. OnePending' /\ TasksInSnapshot'
    BY <1>0, <2>1, <2>2 DEF JournalTypeOK, OnePending, TasksInSnapshot
  <2>5. PushesArePrefixes' /\ \A r \in Replicas : IsPrefix(replica[r])'
    BY <2>2 DEF JournalIInv, PushesArePrefixes, IsPrefix, Prefix
  <2> QED
    BY <2>1, <2>3, <2>4, <2>5 DEF JournalIInv
<1>10. CASE AppendRow
  <2>1. /\ UNCHANGED <<committed, replica, jfence, jepoch, jnet, want, jcrashes>>
        /\ log' = Append(log, want) /\ op = "write" /\ op' = "second"
        /\ rows' = Len(log) + 1 /\ task' = [r \in Replicas |-> "status"] /\ next' = [r \in Replicas |-> 0]
    BY <1>10 DEF AppendRow, StartTasks, rvars
  <2>2. want \in Events /\ Len(log) = committed /\ log \in Seq(Events) /\ Len(log) \in Nat
    BY <1>0, <2>1 DEF OnePending, JournalTypeOK
  <2>3. log' \in Seq(Events) /\ Len(log') = Len(log) + 1 /\ \A k \in 0..Len(log) : Prefix(k)' = Prefix(k)
    BY <2>1, <2>2, PrefixOfAppend DEF Prefix
  <2>4. JournalTypeOK'
    BY <1>0, <2>1, <2>2, <2>3 DEF JournalTypeOK, Push, TaskStates
  <2>5. OnePending' /\ TasksInSnapshot'
    BY <1>0, <2>1, <2>2, <2>3 DEF JournalTypeOK, OnePending, TasksInSnapshot
  <2>7. \A r \in Replicas : IsPrefix(replica[r])'
    BY <1>0, <2>1, <2>2, <2>3 DEF JournalIInv, IsPrefix, JournalTypeOK
  <2>8. PushesArePrefixes'
    BY <1>0, <2>1, <2>2, <2>3 DEF JournalIInv, PushesArePrefixes, IsPrefix, JournalTypeOK, Push
  <2>9. QuorumHasCommitted'
    BY <2>1 DEF JournalIInv, QuorumHasCommitted
  <2> QED
    BY <2>4, <2>5, <2>7, <2>8, <2>9 DEF JournalIInv
<1>11. CASE SyncFails
  <2>1. UNCHANGED <<log, committed, replica, jnet, jepoch>>
    BY <1>11 DEF SyncFails, rvars
  <2>2. JournalTypeOK' /\ OnePending' /\ TasksInSnapshot'
    BY <1>0, <1>11 DEF SyncFails, StopTasks, rvars, JournalTypeOK, Push, TaskStates, OnePending, TasksInSnapshot
  <2> QED
    BY <2>1, <2>2, QuietStep, <1>0 DEF JournalTypeOK
<1>12. ASSUME NEW m \in jnet, DeliverPush(m) PROVE JournalIInv'
  <2>1. UNCHANGED <<log, committed, jfence, jepoch, jnet, op, want, rows, task, next, jcrashes>> /\ replica' = ReplicaAfter(m)
    BY <1>12 DEF DeliverPush, tvars
  <2>2. /\ replica' \in [Replicas -> Seq(Events)]
        /\ \A q \in Replicas : IsPrefix(replica[q])'
        /\ \A q \in Replicas : Len(replica'[q]) >= Len(replica[q])
        /\ QuorumHasCommitted'
    BY <2>1, PushKeepsPrefixes
  <2>3. JournalTypeOK'
    BY <1>0, <2>1, <2>2 DEF JournalTypeOK, Push, TaskStates
  <2>4. OnePending'
    BY <1>0, <2>1 DEF OnePending
  <2>5. TasksInSnapshot'
    <3>1. \A q \in Replicas : Len(replica'[q]) \in Nat /\ Len(replica[q]) \in Nat
      BY <1>0, <2>2 DEF JournalTypeOK
    <3> QED
      BY <1>0, <2>1, <2>2, <3>1 DEF TasksInSnapshot, JournalTypeOK
  <2>6. PushesArePrefixes'
    BY <2>1 DEF JournalIInv, PushesArePrefixes, IsPrefix, Prefix
  <2> QED
    BY <2>2, <2>3, <2>4, <2>5, <2>6 DEF JournalIInv
<1>13. ASSUME NEW m \in jnet, LosePush(m) PROVE JournalIInv'
  <2>1. UNCHANGED <<log, committed, replica, jepoch>> /\ jnet' \subseteq jnet
    BY <1>13 DEF LosePush, rvars
  <2>2. JournalTypeOK' /\ OnePending' /\ TasksInSnapshot'
    BY <1>0, <1>13 DEF LosePush, rvars, tvars, JournalTypeOK, Push, TaskStates, OnePending, TasksInSnapshot
  <2> QED
    BY <2>1, <2>2, QuietStep, <1>0 DEF JournalTypeOK
<1>14. ASSUME NEW r \in Replicas, NEW e \in 1..MaxJournalEpoch, FenceReplica(r, e) PROVE JournalIInv'
  <2>1. UNCHANGED <<log, committed, replica, jnet, jepoch>>
    BY <1>14 DEF FenceReplica
  <2>2. JournalTypeOK' /\ OnePending' /\ TasksInSnapshot'
    BY <1>0, <1>14 DEF FenceReplica, tvars, JournalTypeOK, Push, TaskStates, OnePending, TasksInSnapshot
  <2> QED
    BY <2>1, <2>2, QuietStep, <1>0 DEF JournalTypeOK
<1>15. ASSUME NEW e \in 1..MaxJournalEpoch, JournalRestart(e) PROVE JournalIInv'
  <2>1. UNCHANGED <<log, committed, replica, jnet>> /\ jepoch' >= jepoch
    BY <1>0, <1>15 DEF JournalRestart, rvars, JournalTypeOK
  <2>2. JournalTypeOK' /\ OnePending' /\ TasksInSnapshot'
    BY SMTT(60), <1>0, <1>15
       DEF JournalRestart, StopTasks, rvars, JournalTypeOK, Push, TaskStates, OnePending, TasksInSnapshot
  <2> QED
    BY <2>1, <2>2, QuietStep
<1> QED
  BY <1>1, <1>2, <1>3, <1>4, <1>5, <1>6, <1>7, <1>8, <1>9, <1>10, <1>11, <1>12, <1>13, <1>14, <1>15 DEF JournalNext

-----------------------------------------------------------------------------
(* What the invariant is for. *)

\* The invariant contains what the coordinator relies on.
LEMMA JournalIInvImplies == ASSUME Assumption, JournalIInv PROVE CommittedOnQuorum /\ ReplicasArePrefixes
<1>1. ReplicasArePrefixes
  BY DEF JournalIInv, IsPrefix, ReplicasArePrefixes
<1>2. CommittedOnQuorum
  <2>1. log \in Seq(Events) /\ committed \in 0..Len(log) /\ Len(log) \in Nat
    BY DEF JournalIInv, JournalTypeOK
  <2>2. CASE committed = 0
    BY <2>2 DEF CommittedOnQuorum
  <2>3. CASE committed # 0
    <3>1. ASSUME NEW r \in Replicas, Len(replica[r]) >= committed PROVE Holds(r, committed)
      <4>1. Len(replica[r]) <= Len(log) /\ replica[r] = SubSeq(log, 1, Len(replica[r])) /\ Len(replica[r]) \in Nat
        BY DEF JournalIInv, IsPrefix, Prefix, JournalTypeOK
      <4>2. SubSeq(SubSeq(log, 1, Len(replica[r])), 1, committed) = SubSeq(log, 1, committed)
        BY <2>1, <3>1, <4>1, PrefixOfPrefix
      <4> QED
        BY <3>1, <4>1, <4>2 DEF Holds, Prefix
    <3>2. {r \in Replicas : Len(replica[r]) >= committed} \subseteq {r \in Replicas : Holds(r, committed)}
      BY <3>1
    <3>3. Cardinality({r \in Replicas : Len(replica[r]) >= committed}) >= Quorum
      BY <2>3 DEF JournalIInv, QuorumHasCommitted
    <3>4. Cardinality({r \in Replicas : Holds(r, committed)}) >= Quorum
      BY <3>2, <3>3, QuorumKept DEF Assumption
    <3> QED
      BY <3>4 DEF CommittedOnQuorum
  <2> QED
    BY <2>2, <2>3
<1> QED
  BY <1>1, <1>2

\* The log changes only when an append writes its row, and the committed length
\* only when a _sync commits the whole log.
LEMMA LogSteps ==
  ASSUME Assumption, JournalIInv, [JournalNext]_logvars
  PROVE  \/ UNCHANGED <<log, committed>>
         \/ committed' = Len(log) /\ UNCHANGED log
         \/ /\ Len(log) = committed /\ want \in Events
            /\ log' = Append(log, want) /\ UNCHANGED committed
<1>1. CASE SyncCommits \/ FirstSyncCommits
  BY <1>1, CommitStep DEF SyncCommits, FirstSyncCommits, rvars
<1>2. CASE AppendRow
  BY <1>2 DEF AppendRow, JournalIInv, OnePending
<1>3. CASE ~(SyncCommits \/ FirstSyncCommits \/ AppendRow)
  BY <1>3 DEF JournalNext, logvars, BeginSync, BeginAppend, TaskStatus, TaskPush, TaskAck, TaskFail, SyncFails,
     DeliverPush, LosePush, FenceReplica, JournalRestart
<1> QED
  BY <1>1, <1>2, <1>3

\* The abstract history and the abstract pending event.
history == Prefix(committed)
proposed == IF Len(log) > committed THEN log[Len(log)] ELSE NoRow

\* Every step is a step of the abstract log or leaves it alone.
LEMMA StepRefines ==
  ASSUME Assumption, JournalIInv, [JournalNext]_logvars
  PROVE  [Abstract!Next]_<<history, proposed>>
<1>0. /\ log \in Seq(Events) /\ committed \in 0..Len(log) /\ Len(log) \in Nat /\ committed \in Nat
      /\ Len(log) <= committed + 1 /\ NoRow \notin Events
  BY DEF JournalIInv, JournalTypeOK, OnePending, Assumption
<1>1. CASE UNCHANGED <<log, committed>>
  BY <1>1 DEF history, proposed, Prefix
<1>2. CASE committed' = Len(log) /\ UNCHANGED log
  <2>1. CASE Len(log) = committed
    BY <1>2, <2>1 DEF history, proposed, Prefix
  <2>2. CASE Len(log) # committed
    <3>1. Len(log) = committed + 1 /\ committed \in 0..(Len(log) - 1)
      BY <1>0, <2>2
    <3>2. SubSeq(log, 1, committed + 1) = Append(SubSeq(log, 1, committed), log[committed + 1])
      BY <1>0, <3>1, PrefixExtends
    <3>3. proposed = log[committed + 1] /\ proposed \in Events /\ proposed' = NoRow
      BY <1>0, <1>2, <3>1 DEF proposed
    <3>4. history' = Append(history, proposed)
      BY <1>2, <3>1, <3>2, <3>3 DEF history, Prefix
    <3>5. Abstract!Commit
      BY <1>0, <3>3, <3>4 DEF Abstract!Commit, history, proposed
    <3> QED
      BY <3>5 DEF Abstract!Next
  <2> QED
    BY <2>1, <2>2
<1>3. CASE /\ Len(log) = committed /\ want \in Events
           /\ log' = Append(log, want) /\ UNCHANGED committed
  <2>1. history' = history
    BY <1>0, <1>3, PrefixOfAppend DEF history, Prefix
  <2>2. proposed = NoRow /\ proposed' \in Events
    BY <1>0, <1>3 DEF proposed
  <2>3. Abstract!Propose
    BY <2>1, <2>2 DEF Abstract!Propose, history, proposed
  <2> QED
    BY <2>3 DEF Abstract!Next
<1> QED
  BY <1>1, <1>2, <1>3, LogSteps

\* A push that a fenced replica executes changes nothing.
LEMMA StepFrozen ==
  ASSUME Assumption, JournalIInv, [JournalNext]_logvars
  PROVE  \A r \in Replicas : jfence[r] > jepoch => replica'[r] = replica[r]
<1>1. ASSUME NEW q \in Replicas, TaskAck(q) PROVE \A r \in Replicas : jfence[r] > jepoch => replica'[r] = replica[r]
  BY <1>1, PushKeepsPrefixes DEF TaskAck
<1>2. ASSUME NEW m \in jnet, DeliverPush(m) PROVE \A r \in Replicas : jfence[r] > jepoch => replica'[r] = replica[r]
  BY <1>2, PushKeepsPrefixes DEF DeliverPush
<1>3. CASE UNCHANGED replica
  BY <1>3
<1> QED
  BY <1>1, <1>2, <1>3 DEF JournalNext, logvars, rvars, BeginSync, BeginAppend, TaskStatus, TaskPush, TaskFail, SyncCommits,
     FirstSyncCommits, AppendRow, SyncFails, LosePush, FenceReplica, JournalRestart

\* The invariant holds in every state (journal.py).
THEOREM JournalInvariant == ASSUME Assumption PROVE JournalSpec => []JournalIInv
<1>1. JournalInit => JournalIInv
  BY JournalInitIInv
<1>2. JournalIInv /\ [JournalNext]_logvars => JournalIInv'
  BY JournalNextIInv
<1> QED
  BY <1>1, <1>2, PTL DEF JournalSpec

\* The journal implements the abstract log its coordinator relies on: what a
\* quorum acknowledged stays in place, at most one event is pending, it is never
\* lost or overtaken, a committed event is on a quorum of replicas, no replica
\* contradicts the authority disk, and a fenced replica is frozen
\* (Journal._sync, Journal.append, Replica.append, Fence.check_fence).
THEOREM JournalImplements == ASSUME Assumption PROVE JournalSpec => JournalRefines
<1>1. JournalInit => Abstract!Init
  BY DEF JournalInit, Abstract!Init, Prefix
<1>2. JournalIInv /\ [JournalNext]_logvars => [Abstract!Next]_<<history, proposed>>
  BY StepRefines
<1>3. JournalIInv /\ [JournalNext]_logvars => [\A r \in Replicas : jfence[r] > jepoch => replica'[r] = replica[r]]_logvars
  BY StepFrozen
<1>4. JournalIInv => CommittedOnQuorum /\ ReplicasArePrefixes
  BY JournalIInvImplies
<1> QED
  BY <1>1, <1>2, <1>3, <1>4, JournalInvariant, PTL
     DEF JournalSpec, JournalRefines, ImplementsQuorumLog, FencedReplicaFrozen, Abstract!Spec, history, proposed

=============================================================================
