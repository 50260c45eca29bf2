-------------------------- MODULE WalletCoordinator -------------------------
(***************************************************************************)
(* The Try-Confirm/Cancel coordinator of the digital wallet                *)
(* (digital_wallet/coordinator.py) with its account shards and the HTTP    *)
(* requests between them.                                                  *)
(*                                                                         *)
(* The journal appears as its committed projection cmd and the one event   *)
(* that may be durable on the authority disk without a quorum, pending;    *)
(* module WalletJournal models the replication behind it.  A worker step   *)
(* is a sequence of actions (pc), because requests that an earlier step    *)
(* gave up on can reach a shard between any two of them.  Every other      *)
(* operation takes the mutation lock, so it runs only when pc is "idle".   *)
(***************************************************************************)
EXTENDS Integers, FiniteSets, Sequences, Functions

CONSTANTS
  Accounts,       \* the preprovisioned accounts
  Shards,         \* the account shards
  ShardFor,       \* routing: ShardFor[a] is the shard that owns account a
  Opening,        \* Opening[a] is the configured opening balance
  Txns,           \* transaction identities
  Intents,        \* the transfer bodies that clients submit
  MaxTransfers,   \* accepted command history limit (1000 in the code)
  DeadAfter,      \* consecutive failures that park a transfer (5 in the code)
  MaxEpoch,       \* bound: fencing epochs
  MaxCrashes,     \* bound: coordinator restarts
  MaxRetries,     \* bound: administrator retries
  NoTxn           \* no transaction

ASSUME WalletAssumption ==
  /\ ShardFor \in [Accounts -> Shards]
  /\ Opening \in [Accounts -> Nat]
  /\ Intents \subseteq [from : Accounts, to : Accounts, amount : Nat \ {0}]
  /\ \A i \in Intents : i.from # i.to

\* The accounts are configured and a transaction identity is a bounded string.
ASSUME FiniteAssumption == IsFiniteSet(Accounts) /\ IsFiniteSet(Txns)

ASSUME CoordinatorAssumption ==
  /\ MaxTransfers \in Nat
  /\ DeadAfter \in Nat \ {0}
  /\ MaxEpoch \in Nat \ {0}
  /\ MaxCrashes \in Nat
  /\ MaxRetries \in Nat
  /\ NoTxn \notin Txns

VARIABLES
  cmd,       \* committed projection of the journal, one record per transaction
  order,     \* accepted transactions in journal order
  pending,   \* the uncommitted journal event, or NoEvent
  retries,   \* the retries table: consecutive failures and backoff
  shard,     \* shard[s]: balances and participants of shard s
  fence,     \* fence[s]: the epoch persisted on shard s
  net,       \* action requests that may still reach a shard
  epoch,     \* the epoch in the coordinator's configuration
  pc,        \* position of the worker step that holds the mutation lock
  cursor,    \* round-robin cursor of the worker
  left,      \* participant status read from the source shard
  right,     \* participant status read from the destination shard
  crashes,   \* restarts so far
  resets     \* administrator retries so far

jvars == <<cmd, order, pending>>
wvars == <<pc, cursor, left, right>>
bvars == <<crashes, resets>>
vars  == <<cmd, order, pending, retries, shard, fence, net, epoch,
           pc, cursor, left, right, crashes, resets>>

-----------------------------------------------------------------------------
(***************************************************************************)
(* An account shard, as a pure function: projection.py folds immutable     *)
(* events into the balances and participant records of one shard; shard.py *)
(* decides which command becomes an event, which one is a replay and which *)
(* one is refused.                                                         *)
(***************************************************************************)

Roles    == {"source", "destination", "local"}
Kinds    == {"local", "prepare", "confirm", "cancel"}
Statuses == {"PREPARED", "REJECTED", "CANCELED", "CONFIRMED"}

\* A participant record, and the absence of one.
Part   == [intent : Intents, role : Roles, status : Statuses]
NoPart == [status |-> "ABSENT"]

AccountsOf(s) == {a \in Accounts : ShardFor[a] = s}
IsLocal(i)    == ShardFor[i.from] = ShardFor[i.to]
RoleAccount(i, role) == IF role = "destination" THEN i.to ELSE i.from

Balance == [available : Int, held : Int]

\* The state that the genesis event produces on shard s.
Genesis(s) ==
  [accounts |-> [a \in AccountsOf(s) |-> [available |-> Opening[a], held |-> 0]],
   parts    |-> [t \in Txns |-> NoPart]]

-----------------------------------------------------------------------------
(***************************************************************************)
(* reduce_event.                                                           *)
(***************************************************************************)

Event == [kind : Kinds, role : Roles, txn : Txns, intent : Intents]

\* Whether a local transfer or a prepare finds the accounts and the funds.
Funded(accounts, e) ==
  LET acct == RoleAccount(e.intent, e.role)
  IN  /\ acct \in DOMAIN accounts
      /\ e.kind = "local" => e.intent.to \in DOMAIN accounts
      /\ e.role # "destination" => accounts[acct].available >= e.intent.amount

\* The participant status that event e leaves behind.
StatusAfter(accounts, e) ==
  CASE e.kind = "local"   -> IF Funded(accounts, e) THEN "CONFIRMED" ELSE "REJECTED"
    [] e.kind = "prepare" -> IF Funded(accounts, e) THEN "PREPARED" ELSE "REJECTED"
    [] e.kind = "confirm" -> "CONFIRMED"
    [] e.kind = "cancel"  -> "CANCELED"

\* What event e adds to the available and to the held balance of account a,
\* given the status that its participant had before.  (A definition whose name
\* ends in _Something is a mutant: a plausible bug in the one that follows it,
\* which the properties must catch.)
AvailableDelta_AlwaysRefund(accounts, old, e, a) ==
  IF e.kind = "cancel" /\ e.role = "source" /\ a = e.intent.from
  THEN e.intent.amount ELSE 0

AvailableDelta(accounts, old, e, a) ==
  LET i == e.intent
  IN  CASE e.kind = "local" /\ Funded(accounts, e) /\ a = i.from -> -i.amount
        [] e.kind = "local" /\ Funded(accounts, e) /\ a = i.to -> i.amount
        [] e.kind = "prepare" /\ e.role = "source" /\ a = i.from
             /\ Funded(accounts, e) -> -i.amount
        [] e.kind = "confirm" /\ e.role # "source" /\ a = i.to -> i.amount
        [] e.kind = "cancel" /\ old = "PREPARED" /\ e.role = "source"
             /\ a = i.from -> i.amount
        [] OTHER -> 0

HeldDelta_KeptOnCancel(accounts, old, e, a) ==
  IF e.role # "source" \/ a # e.intent.from THEN 0
  ELSE CASE e.kind = "prepare" /\ Funded(accounts, e) -> e.intent.amount
         [] e.kind = "confirm" -> -e.intent.amount
         [] OTHER -> 0

HeldDelta(accounts, old, e, a) ==
  IF e.role # "source" \/ a # e.intent.from THEN 0
  ELSE CASE e.kind = "prepare" /\ Funded(accounts, e) -> e.intent.amount
         [] e.kind = "confirm" -> -e.intent.amount
         [] e.kind = "cancel" /\ old = "PREPARED" -> -e.intent.amount
         [] OTHER -> 0

\* The state after event e; every event rewrites its participant record.
ReduceEvent(st, e) ==
  LET old == st.parts[e.txn].status
  IN  [accounts |->
         [a \in DOMAIN st.accounts |->
            [available |-> st.accounts[a].available
                             + AvailableDelta(st.accounts, old, e, a),
             held |-> st.accounts[a].held + HeldDelta(st.accounts, old, e, a)]],
       parts |->
         [st.parts EXCEPT ![e.txn] =
            [intent |-> e.intent, role |-> e.role,
             status |-> StatusAfter(st.accounts, e)]]]

\* The events that reduce_event refuses with ValueError.
ReduceRaises(st, e) ==
  LET old  == st.parts[e.txn]
      next == ReduceEvent(st, e)
  IN  \/ (e.kind = "local") # (e.role = "local")
      \/ old # NoPart /\ (old.intent # e.intent \/ old.role # e.role)
      \/ e.kind \in {"local", "prepare"} /\ old # NoPart
      \/ e.kind = "confirm" /\ old.status # "PREPARED"
      \/ e.kind = "cancel" /\ old.status \in {"CONFIRMED", "CANCELED"}
      \/ \E a \in DOMAIN next.accounts :
           next.accounts[a].available < 0 \/ next.accounts[a].held < 0

-----------------------------------------------------------------------------
(***************************************************************************)
(* Shard.action, after the fence was checked: a command is answered from   *)
(* the participant record (Replays), refused with a 409 or a 400           *)
(* (Refuses), or appended as an event.                                     *)
(***************************************************************************)

WrongShard(s, e) ==
  \/ ShardFor[RoleAccount(e.intent, e.role)] # s
  \/ e.role = "local" /\ ShardFor[e.intent.to] # s

Conflicts(old, e) ==
  \/ old # NoPart /\ (old.intent # e.intent \/ old.role # e.role)
  \/ old # NoPart /\ e.kind = "confirm" /\ old.status \notin {"PREPARED", "CONFIRMED"}
  \/ old # NoPart /\ e.kind = "cancel" /\ old.status = "CONFIRMED"
  \/ old = NoPart /\ e.kind = "confirm"

Replays(old, e) ==
  /\ old # NoPart
  /\ \/ e.kind \in {"prepare", "local"}
     \/ e.kind = "confirm" /\ old.status = "CONFIRMED"
     \/ e.kind = "cancel" /\ old.status = "CANCELED"

Refuses(s, st, e) ==
  \/ WrongShard(s, e)
  \/ Conflicts(st.parts[e.txn], e)
  \/ ~Replays(st.parts[e.txn], e) /\ ReduceRaises(st, e)

ActionState(s, st, e) ==
  IF Refuses(s, st, e) \/ Replays(st.parts[e.txn], e) THEN st ELSE ReduceEvent(st, e)

-----------------------------------------------------------------------------
(***************************************************************************)
(* Journal events and their projection.                                    *)
(***************************************************************************)

NoCommand == [status |-> "NONE"]
Command   == [intent : Intents,
              decision : {"NONE", "COMMIT", "CANCEL"},
              status : {"PENDING", "SUCCEEDED", "CANCELED", "REJECTED"}]

Accept(t, i)      == [kind |-> "accepted", txn |-> t, intent |-> i]
Decide(t, d)      == [kind |-> "decision", txn |-> t, decision |-> d]
Complete(t, s)    == [kind |-> "completed", txn |-> t, status |-> s]
NoEvent           == [kind |-> "none"]

JournalEvents ==
  [kind : {"accepted"}, txn : Txns, intent : Intents]
    \cup [kind : {"decision"}, txn : Txns, decision : {"COMMIT", "CANCEL"}]
    \cup [kind : {"completed"}, txn : Txns,
          status : {"SUCCEEDED", "CANCELED", "REJECTED"}]

\* project(): the committed projection after one more event.
ProjectCmd(c, e) ==
  CASE e.kind = "none"      -> c
    [] e.kind = "accepted"  ->
         [c EXCEPT ![e.txn] =
            [intent |-> e.intent, decision |-> "NONE", status |-> "PENDING"]]
    [] e.kind = "decision"  -> [c EXCEPT ![e.txn].decision = e.decision]
    [] e.kind = "completed" -> [c EXCEPT ![e.txn].status = e.status]

ProjectOrder(o, e) == IF e.kind = "accepted" THEN Append(o, e.txn) ELSE o

\* The events that project() refuses, which would stop every later replay.
ProjectRaises(c, e) ==
  \/ e.kind = "accepted" /\ c[e.txn] # NoCommand
  \/ /\ e.kind = "decision"
     /\ c[e.txn].status # "PENDING" \/ c[e.txn].decision # "NONE"
  \/ /\ e.kind = "completed"
     /\ \/ c[e.txn].status # "PENDING"
        \/ c[e.txn].decision = "COMMIT" /\ e.status # "SUCCEEDED"
        \/ c[e.txn].decision = "CANCEL" /\ e.status # "CANCELED"
        \/ c[e.txn].decision = "NONE" /\ e.status = "CANCELED"

\* Journal.sync with a quorum: the pending event becomes committed.
SyncedCmd   == ProjectCmd(cmd, pending)
SyncedOrder == ProjectOrder(order, pending)
Synced ==
  /\ cmd' = SyncedCmd
  /\ order' = SyncedOrder
  /\ pending' = NoEvent

\* Journal.append(e) once its first sync found a quorum: the event is durable
\* locally, then either acknowledged by a quorum or left pending.
AppendCommitted(e) ==
  /\ cmd' = ProjectCmd(SyncedCmd, e)
  /\ order' = ProjectOrder(SyncedOrder, e)
  /\ pending' = NoEvent
AppendUnresolved(e) ==
  /\ cmd' = SyncedCmd
  /\ order' = SyncedOrder
  /\ pending' = e

-----------------------------------------------------------------------------
(***************************************************************************)
(* The retries table.                                                      *)
(***************************************************************************)

NoRetry     == [failures |-> 0, waiting |-> FALSE]
Dead(t)     == retries[t].failures >= DeadAfter
ClearRetries(t) == retries' = [retries EXCEPT ![t] = NoRetry]

RecordFailure_NotCounted(t) ==
  retries' = [retries EXCEPT ![t].waiting = TRUE]

RecordFailure(t) ==
  retries' = [retries EXCEPT ![t] =
                [failures |-> retries[t].failures + 1, waiting |-> TRUE]]

\* The retry clock passes the due time of transaction t.
BackoffExpires(t) ==
  /\ retries[t].waiting
  /\ retries' = [retries EXCEPT ![t].waiting = FALSE]
  /\ UNCHANGED <<cmd, order, pending, shard, fence, net, epoch, wvars, bvars>>

-----------------------------------------------------------------------------
(***************************************************************************)
(* Requests to the shards.                                                 *)
(***************************************************************************)

Message == [kind : Kinds, role : Roles, txn : Txns, intent : Intents,
            epoch : 1..MaxEpoch]

ToShard(m) == ShardFor[RoleAccount(m.intent, m.role)]
Fenced_NewerOnly(m) == m.epoch > fence[ToShard(m)]
Fenced(m)  == m.epoch # fence[ToShard(m)]
Refused(m) == Fenced(m) \/ Refuses(ToShard(m), shard[ToShard(m)], m)

\* Shard.action executed for request m.
Execute(m) ==
  shard' = IF Fenced(m) THEN shard
           ELSE [shard EXCEPT ![ToShard(m)] =
                   ActionState(ToShard(m), shard[ToShard(m)], m)]

\* A request whose caller stopped waiting, or whose reply is lost, reaches its
\* shard.  Retries send identical requests, so one element of net stands for
\* any number of copies and stays there.
DeliverLate(m) ==
  /\ m \in net
  /\ Execute(m)
  /\ UNCHANGED <<jvars, retries, fence, net, epoch, wvars, bvars>>

\* The network drops what is left of a request.
Lose(m) ==
  /\ m \in net
  /\ net' = net \ {m}
  /\ UNCHANGED <<jvars, retries, shard, fence, epoch, wvars, bvars>>

-----------------------------------------------------------------------------
(***************************************************************************)
(* Owner and administrator operations.                                     *)
(***************************************************************************)

Create_StaleCheck(t, i) ==
  /\ pc = "idle"
  /\ cmd[t] = NoCommand
  /\ Len(order) < MaxTransfers
  /\ AppendCommitted(Accept(t, i)) \/ AppendUnresolved(Accept(t, i))
  /\ UNCHANGED <<retries, shard, fence, net, epoch, wvars, bvars>>

\* create(): a new identity is journaled; an existing one is only replayed.
Create(t, i) ==
  /\ pc = "idle"
  /\ SyncedCmd[t] = NoCommand
  /\ Len(SyncedOrder) < MaxTransfers
  /\ AppendCommitted(Accept(t, i)) \/ AppendUnresolved(Accept(t, i))
  /\ UNCHANGED <<retries, shard, fence, net, epoch, wvars, bvars>>

\* sync(): also a step() that finds nothing eligible, and what is left of an
\* operation that fails after its first sync.
Sync ==
  /\ pending # NoEvent
  /\ Synced
  /\ UNCHANGED <<retries, shard, fence, net, epoch, wvars, bvars>>

Cancelable(t) ==
  /\ SyncedCmd[t].status = "PENDING"
  /\ SyncedCmd[t].decision # "COMMIT"
  /\ ~IsLocal(SyncedCmd[t].intent)

Cancel(t) ==
  /\ pc = "idle"
  /\ resets < MaxRetries
  /\ resets' = resets + 1
  /\ Cancelable(t)
  /\ \/ /\ SyncedCmd[t].decision = "NONE"
        /\ AppendCommitted(Decide(t, "CANCEL"))
        /\ ClearRetries(t)
     \/ /\ SyncedCmd[t].decision = "NONE"
        /\ AppendUnresolved(Decide(t, "CANCEL"))
        /\ UNCHANGED retries
     \/ /\ SyncedCmd[t].decision = "CANCEL"
        /\ Synced
        /\ ClearRetries(t)
  /\ UNCHANGED <<shard, fence, net, epoch, wvars, crashes>>

Retry(t) ==
  /\ pc = "idle"
  /\ resets < MaxRetries
  /\ resets' = resets + 1
  /\ cmd[t] # NoCommand
  /\ ClearRetries(t)
  /\ UNCHANGED <<jvars, shard, fence, net, epoch, wvars, crashes>>

\* Fence.fence on one shard.
FenceShard(s, e) ==
  /\ e > fence[s]
  /\ fence' = [fence EXCEPT ![s] = e]
  /\ UNCHANGED <<jvars, retries, shard, net, epoch, wvars, bvars>>

\* The coordinator stops at any point and restarts on the same disk, with the
\* configured epoch or a later one.
Restart(e) ==
  /\ crashes < MaxCrashes
  /\ e >= epoch
  /\ crashes' = crashes + 1
  /\ epoch' = e
  /\ pc' = "idle"
  /\ cursor' = NoTxn
  /\ left' = "ABSENT"
  /\ right' = "ABSENT"
  /\ UNCHANGED <<jvars, retries, shard, fence, net, resets>>

-----------------------------------------------------------------------------
(***************************************************************************)
(* The worker: step() and advance().                                       *)
(***************************************************************************)

Eligible_EvenDead(c, t) ==
  /\ c[t].status = "PENDING"
  /\ ~retries[t].waiting

Eligible(c, t) ==
  /\ c[t].status = "PENDING"
  /\ ~Dead(t)
  /\ ~retries[t].waiting

\* The command list, starting after the cursor.
Rotated(o) ==
  LET at == {k \in 1..Len(o) : o[k] = cursor}
      k  == IF at = {} THEN 0 ELSE CHOOSE j \in at : TRUE
  IN  SubSeq(o, k + 1, Len(o)) \o SubSeq(o, 1, k)

Selected(c, o, t) ==
  LET r == Rotated(o)
  IN  \E k \in 1..Len(r) : /\ r[k] = t
                           /\ Eligible(c, t)
                           /\ \A j \in 1..(k - 1) : ~Eligible(c, r[j])

\* A quorum is reachable and the first eligible command after the cursor is
\* chosen; nothing happens to any participant without that quorum.
StepBegin(t) ==
  /\ pc = "idle"
  /\ Synced
  /\ Selected(SyncedCmd, SyncedOrder, t)
  /\ cursor' = t
  /\ pc' = "readLeft"
  /\ UNCHANGED <<retries, shard, fence, net, epoch, left, right, bvars>>

Intent   == cmd[cursor].intent
Decision == cmd[cursor].decision
Finish   == pc' = "idle" /\ left' = "ABSENT" /\ right' = "ABSENT"

\* read_part of the source, or of the only, participant.
ReadLeft ==
  /\ pc = "readLeft"
  /\ left' = shard[ShardFor[Intent.from]].parts[cursor].status
  /\ pc' = IF IsLocal(Intent) THEN "act" ELSE "readRight"
  /\ UNCHANGED <<jvars, retries, shard, fence, net, epoch, cursor, right, bvars>>

ReadRight ==
  /\ pc = "readRight"
  /\ right' = shard[ShardFor[Intent.to]].parts[cursor].status
  /\ pc' = "act"
  /\ UNCHANGED <<jvars, retries, shard, fence, net, epoch, cursor, left, bvars>>

Local == [do |-> "send", kind |-> "local", role |-> "local"]
Send(kind, role) == [do |-> "send", kind |-> kind, role |-> role]
Journal(e) == [do |-> "append", event |-> e]
Raise == [do |-> "raise"]

\* advance(): what this step does, from the two statuses it has read.
AdvanceLocal ==
  CASE left = "ABSENT"    -> Local
    [] left = "CONFIRMED" -> Journal(Complete(cursor, "SUCCEEDED"))
    [] OTHER              -> Journal(Complete(cursor, "REJECTED"))

AdvanceUndecided_OneVote ==
  CASE left = "ABSENT" -> Send("prepare", "source")
    [] left = "PREPARED" -> Journal(Decide(cursor, "COMMIT"))
    [] OTHER -> Journal(Decide(cursor, "CANCEL"))

AdvanceUndecided_Unrecorded ==
  CASE {left, right} \cap {"REJECTED", "CANCELED"} # {} ->
         Journal(Decide(cursor, "CANCEL"))
    [] OTHER ->
         CASE left = "ABSENT" -> Send("prepare", "source")
           [] left # "ABSENT" /\ right = "ABSENT" -> Send("prepare", "destination")
           [] left = "PREPARED" /\ right = "PREPARED" -> Send("confirm", "source")
           [] OTHER -> Raise

AdvanceUndecided ==
  CASE {left, right} \cap {"REJECTED", "CANCELED"} # {} ->
         Journal(Decide(cursor, "CANCEL"))
    [] OTHER ->
         CASE left = "ABSENT" -> Send("prepare", "source")
           [] left # "ABSENT" /\ right = "ABSENT" -> Send("prepare", "destination")
           [] left = "PREPARED" /\ right = "PREPARED" ->
                Journal(Decide(cursor, "COMMIT"))
           [] OTHER -> Raise

AdvanceDecided(kind, done, outcome) ==
  CASE left # done                   -> Send(kind, "source")
    [] left = done /\ right # done   -> Send(kind, "destination")
    [] left = done /\ right = done   -> Journal(Complete(cursor, outcome))

Advance ==
  CASE IsLocal(Intent)      -> AdvanceLocal
    [] ~IsLocal(Intent) /\ Decision = "NONE"   -> AdvanceUndecided
    [] ~IsLocal(Intent) /\ Decision = "COMMIT" ->
         AdvanceDecided("confirm", "CONFIRMED", "SUCCEEDED")
    [] ~IsLocal(Intent) /\ Decision = "CANCEL" ->
         AdvanceDecided("cancel", "CANCELED", "CANCELED")

Request == [kind |-> Advance.kind, role |-> Advance.role, txn |-> cursor,
            intent |-> Intent, epoch |-> epoch]

ActSend ==
  /\ pc = "act"
  /\ Advance.do = "send"
  /\ net' = net \cup {Request}
  /\ pc' = "reply"
  /\ UNCHANGED <<jvars, retries, shard, fence, epoch, cursor, left, right, bvars>>

\* The shard executes the awaited request and its receipt arrives.  A local
\* outcome is journaled by the same step; any other receipt ends the step.
Reply ==
  /\ pc = "reply"
  /\ Request \in net
  /\ ~Refused(Request)
  /\ Execute(Request)
  /\ net' = net \ {Request}
  /\ left' = IF IsLocal(Intent)
             THEN shard'[ToShard(Request)].parts[cursor].status ELSE left
  /\ pc' = IF IsLocal(Intent) THEN "act" ELSE "clear"
  /\ UNCHANGED <<jvars, retries, fence, epoch, cursor, right, bvars>>

\* The shard's simulated definitive refusal of a prepare (HTTP 422): the same
\* step records CANCEL.  When that append fails the step raises, so the failure
\* is not counted; the event may be durable all the same.
Rejected ==
  /\ pc = "reply"
  /\ Request.kind = "prepare"
  /\ Request \in net
  /\ net' = net \ {Request}
  /\ Finish
  /\ UNCHANGED <<retries, shard, fence, epoch, cursor, bvars>>
RejectPrepare ==
  /\ Rejected
  /\ \/ AppendCommitted(Decide(cursor, "CANCEL"))
     \/ AppendUnresolved(Decide(cursor, "CANCEL"))
RejectUnrecorded ==
  /\ Rejected
  /\ UNCHANGED jvars

ActAppend ==
  /\ pc = "act"
  /\ Advance.do = "append"
  /\ AppendCommitted(Advance.event)
  /\ pc' = "clear"
  /\ UNCHANGED <<retries, shard, fence, net, epoch, cursor, left, right, bvars>>

\* The journal append of the step fails, before or after the event is durable.
ActAppendFails ==
  /\ pc = "act"
  /\ Advance.do = "append"
  /\ AppendUnresolved(Advance.event) \/ UNCHANGED jvars
  /\ RecordFailure(cursor)
  /\ Finish
  /\ UNCHANGED <<shard, fence, net, epoch, cursor, bvars>>

\* A read or an action fails: timeout, lost reply, a 409, or the conflict that
\* advance() raises.  The request may still be under way.
StepFails ==
  /\ \/ pc \in {"readLeft", "readRight", "reply"}
     \/ pc = "act" /\ Advance.do = "raise"
  /\ RecordFailure(cursor)
  /\ Finish
  /\ UNCHANGED <<jvars, shard, fence, net, epoch, cursor, bvars>>

\* Progress deletes the retries row, in a transaction of its own.
StepEnd ==
  /\ pc = "clear"
  /\ ClearRetries(cursor)
  /\ Finish
  /\ UNCHANGED <<jvars, shard, fence, net, epoch, cursor, bvars>>

-----------------------------------------------------------------------------

Init ==
  /\ cmd = [t \in Txns |-> NoCommand]
  /\ order = <<>>
  /\ pending = NoEvent
  /\ retries = [t \in Txns |-> NoRetry]
  /\ shard = [s \in Shards |-> Genesis(s)]
  /\ fence = [s \in Shards |-> 1]
  /\ net = {}
  /\ epoch = 1
  /\ pc = "idle"
  /\ cursor = NoTxn
  /\ left = "ABSENT"
  /\ right = "ABSENT"
  /\ crashes = 0
  /\ resets = 0

WorkerStep ==
  \/ ReadLeft
  \/ ReadRight
  \/ ActSend
  \/ Reply
  \/ RejectPrepare
  \/ RejectUnrecorded
  \/ ActAppend
  \/ ActAppendFails
  \/ StepFails
  \/ StepEnd

Next ==
  \/ \E t \in Txns, i \in Intents : Create(t, i)
  \/ Sync
  \/ \E t \in Txns : Cancel(t)
  \/ \E t \in Txns : Retry(t)
  \/ \E t \in Txns : BackoffExpires(t)
  \/ \E t \in Txns : StepBegin(t)
  \/ WorkerStep
  \/ \E m \in net : DeliverLate(m)
  \/ \E m \in net : Lose(m)
  \/ \E s \in Shards, e \in 1..MaxEpoch : FenceShard(s, e)
  \/ \E e \in 1..MaxEpoch : Restart(e)

Spec == Init /\ [][Next]_vars

\* The worker process loops for ever, a quorum answers again and again, the
\* retry clock advances.  The quorum that answers at the start of a step is not
\* lost every single time before the same step records a refusal.
Fairness ==
  /\ WF_vars(Sync)
  /\ WF_vars(\E t \in Txns : StepBegin(t))
  /\ WF_vars(WorkerStep)
  /\ SF_vars(RejectPrepare)
  /\ \A t \in Txns : WF_vars(BackoffExpires(t))

FairSpec == Spec /\ Fairness

-----------------------------------------------------------------------------
(***************************************************************************)
(* What makes the wallet correct.                                          *)
(***************************************************************************)

TypeOK ==
  /\ cmd \in [Txns -> Command \cup {NoCommand}]
  /\ order \in Seq(Txns)
  /\ pending \in JournalEvents \cup {NoEvent}
  /\ retries \in [Txns -> [failures : 0..DeadAfter, waiting : BOOLEAN]]
  /\ shard = [s \in Shards |-> [accounts |-> shard[s].accounts,
                                parts |-> shard[s].parts]]
  /\ \A s \in Shards :
       /\ shard[s].accounts \in [AccountsOf(s) -> Balance]
       /\ shard[s].parts \in [Txns -> Part \cup {NoPart}]
  /\ fence \in [Shards -> 1..MaxEpoch]
  /\ net \subseteq Message
  /\ epoch \in 1..MaxEpoch
  /\ pc \in {"idle", "readLeft", "readRight", "act", "reply", "clear", "audit"}
  /\ cursor \in Txns \cup {NoTxn}
  /\ {left, right} \subseteq Statuses \cup {"ABSENT"}
  /\ crashes \in 0..MaxCrashes
  /\ resets \in 0..MaxRetries

-----------------------------------------------------------------------------

SourceStatus(t)      == shard[ShardFor[cmd[t].intent.from]].parts[t].status
DestinationStatus(t) == shard[ShardFor[cmd[t].intent.to]].parts[t].status
Cross(t) == cmd[t] # NoCommand /\ ~IsLocal(cmd[t].intent)

\* A cross-shard transfer is all or nothing, whatever requests are late, lost
\* or repeated: no participant confirms before a committed COMMIT decision,
\* the destination is never credited before the source hold is gone, and a
\* terminal status is what both shards have durably recorded (advance, action).
AllOrNothing ==
  \A t \in Txns : Cross(t) =>
    /\ SourceStatus(t) = "CONFIRMED" => cmd[t].decision = "COMMIT"
    /\ DestinationStatus(t) = "CONFIRMED" => SourceStatus(t) = "CONFIRMED"
    /\ cmd[t].decision = "COMMIT" =>
         {SourceStatus(t), DestinationStatus(t)} \subseteq {"PREPARED", "CONFIRMED"}
    /\ cmd[t].status = "SUCCEEDED" => DestinationStatus(t) = "CONFIRMED"
    /\ cmd[t].status = "CANCELED" =>
         SourceStatus(t) = "CANCELED" /\ DestinationStatus(t) = "CANCELED"

\* No shard ever meets a request of its own epoch that it must refuse: no
\* interleaving makes the coordinator send a command that contradicts what a
\* participant has recorded (the 409 branches of Shard.action).
NoParticipantConflict ==
  \A m \in net : ~Fenced(m) => ~Refused(m)

\* The journal never holds an event that project() would refuse: a pending
\* event left by a failed append can always be committed and replayed later.
JournalReplayable == ~ProjectRaises(cmd, pending)

\* No step finds "participant confirmed without durable coordinator decision".
NeverRaises == pc = "act" => Advance # Raise

\* Whatever is late, lost or repeated, no component of the wallet meets a state
\* that its code treats as an internal error (Shard.action, project, advance).
NoInternalError == NoParticipantConflict /\ JournalReplayable /\ NeverRaises

-----------------------------------------------------------------------------
(***************************************************************************)
(* Money.                                                                  *)
(***************************************************************************)

\* What an account owns, and the amount of every accepted transfer.
Holdings ==
  [a \in Accounts |-> LET b == shard[ShardFor[a]].accounts[a]
                      IN  b.available + b.held]
Amounts == [t \in {u \in Txns : cmd[u] # NoCommand} |-> cmd[t].intent.amount]

\* The transfers that left their source and have not reached their destination,
\* and those that hold a reservation on account a.
Departed ==
  {t \in Txns : /\ Cross(t)
                /\ SourceStatus(t) = "CONFIRMED"
                /\ DestinationStatus(t) # "CONFIRMED"}
Reserving(a) ==
  {t \in Txns : /\ Cross(t)
                /\ cmd[t].intent.from = a
                /\ SourceStatus(t) = "PREPARED"}

Supply      == SumFunctionOnSet(Opening, Accounts)
WalletTotal == SumFunctionOnSet(Holdings, Accounts)
InTransit   == SumFunctionOnSet(Amounts, Departed)

\* Money is neither created nor destroyed: what the wallets hold plus what left
\* a source and has not reached its destination is the opening supply, at every
\* step and not only when nothing is under way (the identity of audit()).
Conservation == WalletTotal + InTransit = Supply

\* The held balance of an account is exactly what its prepared, unresolved
\* transfers reserved, and no balance is ever negative: a hold is neither
\* released twice nor leaked by a late prepare, cancel or confirm.
HoldsAccounted ==
  \A a \in Accounts :
    LET b == shard[ShardFor[a]].accounts[a]
    IN  /\ b.available >= 0
        /\ b.held = SumFunctionOnSet(Amounts, Reserving(a))

-----------------------------------------------------------------------------
(***************************************************************************)
(* Steps.                                                                  *)
(***************************************************************************)

\* Once every shard is fenced above the coordinator's epoch, no request of that
\* coordinator moves money or a participant any more, late ones included.
FencedOut ==
  [][(\A s \in Shards : fence[s] > epoch) => shard' = shard]_vars

\* An accepted intent, a decision and a terminal status are final.
DecisionsFinal ==
  [][\A t \in Txns : cmd[t] # NoCommand =>
       /\ cmd'[t] # NoCommand /\ cmd'[t].intent = cmd[t].intent
       /\ cmd[t].decision # "NONE" => cmd'[t].decision = cmd[t].decision
       /\ cmd[t].status # "PENDING" => cmd'[t] = cmd[t]]_vars

\* No step takes back what was decided or moves money behind a fence.
StepsFinal == DecisionsFinal /\ FencedOut

\* Every accepted transfer is settled or parked for an administrator: failures
\* cannot starve it, because the worker rotates over the commands and each
\* consecutive failure of one transfer brings it closer to the dead mark.
SettledOrParked ==
  \A t \in Txns :
    cmd[t].status = "PENDING" ~> (cmd[t].status # "PENDING" \/ Dead(t))

=============================================================================
