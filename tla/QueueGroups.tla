----------------------------- MODULE QueueGroups ----------------------------
(***************************************************************************)
(* A consumer group of the message queue (message_queue/                   *)
(* coordinator_groups.py) and the transactional process() of               *)
(* coordinator.py: membership with leases, generations, delivery bounds,   *)
(* cursors, and queue transactions that consume an input range.            *)
(*                                                                         *)
(* A fetch and a transaction hold the lock of their partition across       *)
(* broker I/O; join, leave, heartbeat and expiry take no such lock and may *)
(* fall between their two metadata transactions.  A metadata transaction   *)
(* that raises is rolled back, the expiry that it began with included.     *)
(***************************************************************************)
EXTENDS Integers, FiniteSets, FiniteSetsExt

CONSTANTS
  Clients,      \* consumer processes
  MemberOf,     \* MemberOf[c]: the member ID that client c joins with
  MaxParts,     \* bound: partitions
  Txids,        \* transaction IDs
  MaxRecords,   \* bound: records of a partition
  MaxSessions,  \* bound: joins
  MaxResets     \* bound: cursor resets

\* What the constants may be.
Assumption ==
  /\ MemberOf \in [Clients -> Nat]
  /\ {MaxParts, MaxRecords, MaxSessions, MaxResets} \subseteq Nat
  /\ MaxParts > 0

Members == {MemberOf[c] : c \in Clients}
Parts   == 0..(MaxParts - 1)

VARIABLES
  nparts,     \* partitions of the topic
  hwm,        \* hwm[p]: committed records
  session,    \* session[m]: session of member m, 0 when it is no member
  lapsed,     \* members whose lease ran out
  gen,        \* generation of the group
  cursor,     \* cursor[p]
  bounds,     \* bounds[p]: delivery bound of the generation, -1 for none
  txs,        \* finished transactions
  op,         \* op[p]: the operation that holds the lock of partition p
  sessions,   \* sessions handed out so far
  cred,       \* cred[c]: the session and generation that client c knows
  served,     \* history: served[c][p], how far client c was served in its session
  era,        \* history: era[p], resets of the cursor of p
  handouts    \* history: ranges handed out at most once

group   == <<session, lapsed, gen, bounds>>
history == <<served, era, handouts>>
vars    == <<nparts, hwm, session, lapsed, gen, cursor, bounds, txs, op, sessions, cred, history>>

NoOp == [kind |-> "none"]
NoCred == [session |-> 0, gen |-> 0]

-----------------------------------------------------------------------------
(***************************************************************************)
(* _expire and _membership.                                                *)
(***************************************************************************)

Live == {m \in Members : session[m] # 0 /\ m \notin lapsed}

\* The group after _expire.
SessionNow == [m \in Members |-> IF m \in lapsed THEN 0 ELSE session[m]]
Expiring   == \E m \in lapsed : session[m] # 0
GenNow     == IF Expiring THEN gen + 1 ELSE gen
BoundsNow  == IF Expiring THEN [p \in Parts |-> -1] ELSE bounds

Expire ==
  /\ session' = SessionNow
  /\ lapsed' = {}
  /\ gen' = GenNow
  /\ bounds' = BoundsNow

\* Members in order of their IDs own the partitions in turn.
Owner(p) ==
  CHOOSE m \in Live : Cardinality({k \in Live : k < m}) = p % Cardinality(Live)

Known(c, k) == Live # {} /\ MemberOf[c] \in Live /\ session[MemberOf[c]] = k.session

Valid(c, k, p) ==
  /\ Known(c, k)
  /\ k.gen = GenNow
  /\ p < nparts
  /\ Owner(p) = MemberOf[c]

-----------------------------------------------------------------------------
(***************************************************************************)
(* Membership.                                                             *)
(***************************************************************************)

Join_KeepsBounds(c) ==
  /\ sessions < MaxSessions
  /\ sessions' = sessions + 1
  /\ session' = [SessionNow EXCEPT ![MemberOf[c]] = sessions + 1]
  /\ lapsed' = {}
  /\ gen' = GenNow + 1
  /\ bounds' = BoundsNow
  /\ cred' = [cred EXCEPT ![c] = [session |-> sessions + 1, gen |-> GenNow + 1]]
  /\ served' = [served EXCEPT ![c] = [p \in Parts |-> 0]]
  /\ UNCHANGED <<nparts, hwm, cursor, txs, op, era, handouts>>

Join(c) ==
  /\ sessions < MaxSessions
  /\ sessions' = sessions + 1
  /\ session' = [SessionNow EXCEPT ![MemberOf[c]] = sessions + 1]
  /\ lapsed' = {}
  /\ gen' = GenNow + 1
  /\ bounds' = [p \in Parts |-> -1]
  /\ cred' = [cred EXCEPT ![c] = [session |-> sessions + 1, gen |-> GenNow + 1]]
  /\ served' = [served EXCEPT ![c] = [p \in Parts |-> 0]]
  /\ UNCHANGED <<nparts, hwm, cursor, txs, op, era, handouts>>

\* The client learns the generation; its lease starts again.
Heartbeat(c) ==
  /\ Known(c, cred[c])
  /\ Expire
  /\ cred' = [cred EXCEPT ![c].gen = GenNow]
  /\ UNCHANGED <<nparts, hwm, cursor, txs, op, sessions, history>>

Leave(c) ==
  /\ Known(c, cred[c])
  /\ session' = [SessionNow EXCEPT ![MemberOf[c]] = 0]
  /\ lapsed' = {}
  /\ gen' = GenNow + 1
  /\ bounds' = [p \in Parts |-> -1]
  /\ UNCHANGED <<nparts, hwm, cursor, txs, op, sessions, cred, history>>

\* Time passes the lease of a member.
Lapse(m) ==
  /\ m \in Live
  /\ lapsed' = lapsed \cup {m}
  /\ UNCHANGED <<nparts, hwm, session, gen, cursor, bounds, txs, op, sessions, cred, history>>

Expand ==
  /\ nparts < MaxParts
  /\ nparts' = nparts + 1
  /\ gen' = gen + 1
  /\ bounds' = [p \in Parts |-> -1]
  /\ UNCHANGED <<hwm, session, lapsed, cursor, txs, op, sessions, cred, history>>

-----------------------------------------------------------------------------
(***************************************************************************)
(* Delivery.                                                               *)
(***************************************************************************)

\* A batch is committed to partition p (QueuePartition!Finalize).
Publish(p) ==
  /\ p < nparts
  /\ hwm[p] < MaxRecords
  /\ hwm' = [hwm EXCEPT ![p] = @ + 1]
  /\ UNCHANGED <<nparts, group, cursor, txs, op, sessions, cred, history>>

FetchBegin(c, p, semantics) ==
  /\ op[p] = NoOp
  /\ Valid(c, cred[c], p)
  /\ Expire
  /\ op' = [op EXCEPT ![p] = [kind |-> "fetch", client |-> c, cred |-> cred[c],
                              semantics |-> semantics, offset |-> cursor[p]]]
  /\ UNCHANGED <<nparts, hwm, cursor, txs, sessions, cred, history>>

FetchEnd_CursorNotStored(p, next) ==
  LET f == op[p]
  IN  /\ f.kind = "fetch"
      /\ next \in f.offset..hwm[p]
      /\ Valid(f.client, f.cred, p)
      /\ session' = SessionNow /\ lapsed' = {} /\ gen' = GenNow
      /\ bounds' = [BoundsNow EXCEPT ![p] = IF next > @ THEN next ELSE @]
      /\ op' = [op EXCEPT ![p] = NoOp]
      /\ served' = [served EXCEPT ![f.client][p] = IF next > @ THEN next ELSE @]
      /\ handouts' = IF f.semantics = "at_most_once" /\ next > f.offset
                     THEN handouts \cup {[part |-> p, era |-> era[p], from |-> f.offset,
                                          to |-> next, client |-> f.client]}
                     ELSE handouts
      /\ UNCHANGED <<nparts, hwm, cursor, txs, sessions, cred, era>>

\* next: where the scan stopped, because of the limit, the high water or a
\* record that is not yet due.
FetchEnd(p, next) ==
  LET f == op[p]
  IN  /\ f.kind = "fetch"
      /\ next \in f.offset..hwm[p]
      /\ Valid(f.client, f.cred, p)
      /\ session' = SessionNow /\ lapsed' = {} /\ gen' = GenNow
      /\ bounds' = [BoundsNow EXCEPT ![p] = IF next > @ THEN next ELSE @]
      /\ cursor' = IF f.semantics = "at_most_once" THEN [cursor EXCEPT ![p] = next] ELSE cursor
      /\ op' = [op EXCEPT ![p] = NoOp]
      /\ served' = [served EXCEPT ![f.client][p] = IF next > @ THEN next ELSE @]
      /\ handouts' = IF f.semantics = "at_most_once" /\ next > f.offset
                     THEN handouts \cup {[part |-> p, era |-> era[p], from |-> f.offset,
                                          to |-> next, client |-> f.client]}
                     ELSE handouts
      /\ UNCHANGED <<nparts, hwm, txs, sessions, cred, era>>

\* The broker read or the second validation fails.
FetchFails(p) ==
  /\ op[p].kind = "fetch"
  /\ op' = [op EXCEPT ![p] = NoOp]
  /\ UNCHANGED <<nparts, hwm, group, cursor, txs, sessions, cred, history>>

Committable_Backwards(c, k, p, next) == Valid(c, k, p) /\ next <= BoundsNow[p]

Committable(c, k, p, next) ==
  /\ Valid(c, k, p)
  /\ next >= cursor[p]
  /\ next <= BoundsNow[p]

Commit(c, p, next) ==
  /\ op[p] = NoOp
  /\ Committable(c, cred[c], p, next)
  /\ Expire
  /\ cursor' = [cursor EXCEPT ![p] = next]
  /\ UNCHANGED <<nparts, hwm, txs, op, sessions, cred, history>>

Reset_Unchecked(c, p, target) ==
  /\ op[p] = NoOp
  /\ era[p] < MaxResets
  /\ Valid(c, cred[c], p)
  /\ session' = SessionNow /\ lapsed' = {} /\ gen' = GenNow
  /\ cursor' = [cursor EXCEPT ![p] = target]
  /\ bounds' = [BoundsNow EXCEPT ![p] = -1]
  /\ era' = [era EXCEPT ![p] = @ + 1]
  /\ UNCHANGED <<nparts, hwm, txs, op, sessions, cred, served, handouts>>

Reset(c, p, target) ==
  /\ op[p] = NoOp
  /\ era[p] < MaxResets
  /\ Valid(c, cred[c], p)
  /\ target \in 0..hwm[p]
  /\ session' = SessionNow /\ lapsed' = {} /\ gen' = GenNow
  /\ cursor' = [cursor EXCEPT ![p] = target]
  /\ bounds' = [BoundsNow EXCEPT ![p] = -1]
  /\ era' = [era EXCEPT ![p] = @ + 1]
  /\ UNCHANGED <<nparts, hwm, txs, op, sessions, cred, served, handouts>>

-----------------------------------------------------------------------------
(***************************************************************************)
(* Transactions: validate, replicate the staged outputs, validate again    *)
(* and publish outputs and cursor in one metadata transaction.             *)
(***************************************************************************)

Finished(t) == \E x \in txs : x.id = t

ProcessBegin(c, p, t, next) ==
  /\ op[p] = NoOp
  /\ \A q \in Parts : op[q].kind = "process" => op[q].id # t
  /\ ~Finished(t)
  /\ Committable(c, cred[c], p, next)
  /\ next > cursor[p]
  /\ Expire
  /\ op' = [op EXCEPT ![p] = [kind |-> "process", id |-> t, client |-> c, cred |-> cred[c],
                              from |-> cursor[p], to |-> next]]
  /\ UNCHANGED <<nparts, hwm, cursor, txs, sessions, cred, history>>

ProcessEnd_Unvalidated(p) ==
  LET f == op[p]
  IN  /\ f.kind = "process"
      /\ Expire
      /\ cursor' = [cursor EXCEPT ![p] = f.to]
      /\ txs' = txs \cup {[id |-> f.id, part |-> p, era |-> era[p], from |-> f.from,
                           to |-> f.to, client |-> f.client]}
      /\ op' = [op EXCEPT ![p] = NoOp]
      /\ UNCHANGED <<nparts, hwm, sessions, cred, history>>

ProcessEnd_CursorLeft(p) ==
  LET f == op[p]
  IN  /\ f.kind = "process"
      /\ Committable(f.client, f.cred, p, f.to)
      /\ Expire
      /\ txs' = txs \cup {[id |-> f.id, part |-> p, era |-> era[p], from |-> f.from,
                           to |-> f.to, client |-> f.client]}
      /\ op' = [op EXCEPT ![p] = NoOp]
      /\ UNCHANGED <<nparts, hwm, cursor, sessions, cred, history>>

ProcessEnd(p) ==
  LET f == op[p]
  IN  /\ f.kind = "process"
      /\ Committable(f.client, f.cred, p, f.to)
      /\ f.from = cursor[p]
      /\ Expire
      /\ cursor' = [cursor EXCEPT ![p] = f.to]
      /\ txs' = txs \cup {[id |-> f.id, part |-> p, era |-> era[p], from |-> f.from,
                           to |-> f.to, client |-> f.client]}
      /\ op' = [op EXCEPT ![p] = NoOp]
      /\ UNCHANGED <<nparts, hwm, sessions, cred, history>>

\* The stages are deleted; the same transaction ID may be used again.
ProcessFails(p) ==
  /\ op[p].kind = "process"
  /\ op' = [op EXCEPT ![p] = NoOp]
  /\ UNCHANGED <<nparts, hwm, group, cursor, txs, sessions, cred, history>>

\* The coordinator stops: what was running is gone, the metadata stays.
Restart ==
  /\ \E p \in Parts : op[p] # NoOp
  /\ op' = [p \in Parts |-> NoOp]
  /\ UNCHANGED <<nparts, hwm, group, cursor, txs, sessions, cred, history>>

-----------------------------------------------------------------------------

Init ==
  /\ nparts = 1
  /\ hwm = [p \in Parts |-> 0]
  /\ session = [m \in Members |-> 0]
  /\ lapsed = {}
  /\ gen = 0
  /\ cursor = [p \in Parts |-> 0]
  /\ bounds = [p \in Parts |-> -1]
  /\ txs = {}
  /\ op = [p \in Parts |-> NoOp]
  /\ sessions = 0
  /\ cred = [c \in Clients |-> NoCred]
  /\ served = [c \in Clients |-> [p \in Parts |-> 0]]
  /\ era = [p \in Parts |-> 0]
  /\ handouts = {}

Membership ==
  \/ \E c \in Clients : Join(c) \/ Heartbeat(c) \/ Leave(c)
  \/ \E m \in Members : Lapse(m)
  \/ Expand

Delivery(p) ==
  \/ Publish(p)
  \/ \E c \in Clients, s \in {"at_least_once", "at_most_once"} : FetchBegin(c, p, s)
  \/ \E n \in 0..MaxRecords : FetchEnd(p, n)
  \/ FetchFails(p)
  \/ \E c \in Clients, n \in 0..MaxRecords : Commit(c, p, n) \/ Reset(c, p, n)
  \/ \E c \in Clients, t \in Txids, n \in 0..MaxRecords : ProcessBegin(c, p, t, n)
  \/ ProcessEnd(p)
  \/ ProcessFails(p)

Next == Membership \/ (\E p \in Parts : Delivery(p)) \/ Restart

Spec == Init /\ [][Next]_vars

-----------------------------------------------------------------------------
(***************************************************************************)
(* Properties.                                                             *)
(***************************************************************************)

TypeOK ==
  /\ nparts \in 1..MaxParts
  /\ hwm \in [Parts -> 0..MaxRecords]
  /\ session \in [Members -> 0..MaxSessions]
  /\ lapsed \subseteq Members
  /\ gen \in Nat
  /\ cursor \in [Parts -> 0..MaxRecords]
  /\ bounds \in [Parts -> -1..MaxRecords]
  /\ cred \in [Clients -> [session : 0..MaxSessions, gen : Nat]]
  /\ \A p \in Parts : cursor[p] <= hwm[p] /\ bounds[p] <= hwm[p]

Overlap(x, y) == x.part = y.part /\ x.era = y.era /\ x.from < y.to /\ y.from < x.to

\* No input record is consumed by two transactions, whatever rebalancing, expiry
\* and restarts fall between validation and publication; only an explicit reset
\* of the cursor makes it available again (_process).
ProcessedOnce == \A x, y \in txs : x # y => ~Overlap(x, y)

\* With at_most_once, no record is handed out twice, also not to two members
\* that own the partition one after the other (_group_fetch).
HandedOutOnce == \A x, y \in handouts : x # y => ~Overlap(x, y)

\* Both, as the run checks them.
DeliveredOnce == ProcessedOnce /\ HandedOutOnce

\* A cursor goes back only by a reset.
CursorMonotone == [][\A p \in Parts : cursor'[p] < cursor[p] => era'[p] > era[p]]_vars

\* A cursor advances only over records that were served, in its present session,
\* to a client that is still in the group at that moment: nobody commits what a
\* predecessor or an earlier session fetched (_validate_commit).
ServedAdvance ==
  \A p \in Parts : cursor'[p] > cursor[p] /\ era'[p] = era[p] =>
    \E c \in Clients : Known(c, cred[c]) /\ served'[c][p] >= cursor'[p]
AdvanceWasServed == [][ServedAdvance]_vars

=============================================================================
