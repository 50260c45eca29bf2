----------------------------- MODULE QueueProofs ----------------------------
(***************************************************************************)
(* Proofs about the message queue.                                         *)
(*                                                                         *)
(* Consumer groups (QueueGroups): no record is consumed by two             *)
(* transactions or handed out twice, a cursor goes back only by a reset,   *)
(* and it advances only over what was served to the client that moves it.  *)
(*                                                                         *)
(* A partition (QueuePartition): a majority of its brokers keeps what is   *)
(* committed, no log forks below a checkpoint, a producer's batches are    *)
(* committed once and in sequence, and a journalled batch is the next one. *)
(***************************************************************************)
EXTENDS QueueGroups, QueuePartition, FiniteSetTheorems, SequenceTheorems, TLAPS

-----------------------------------------------------------------------------
(***************************************************************************)
(* The inductive invariant.                                                *)
(***************************************************************************)

\* An operation that holds the lock of a partition, or none.
Operations ==
  {NoOp}
    \cup [kind : {"fetch"}, client : Clients, cred : [session : Nat, gen : Nat],
          semantics : {"at_least_once", "at_most_once"}, offset : Nat]
    \cup [kind : {"process"}, id : Txids, client : Clients, cred : [session : Nat, gen : Nat],
          from : Nat, to : Nat]

\* What the type invariant leaves open.
Shapes ==
  /\ TypeOK
  /\ sessions \in 0..MaxSessions
  /\ op \in [Parts -> Operations]
  /\ era \in [Parts -> Nat]
  /\ served \in [Clients -> [Parts -> Nat]]

\* Of the present era of its partition, a consumed range lies below the cursor.
BelowCursor(x) ==
  /\ x.part \in Parts
  /\ x.era \in Nat /\ x.era <= era[x.part]
  /\ x.from \in Nat /\ x.to \in Nat /\ x.from < x.to
  /\ x.era = era[x.part] => x.to <= cursor[x.part]

\* The partition lock keeps the cursor where the operation read it.
LockedCursor ==
  \A p \in Parts :
    /\ op[p].kind = "fetch" => op[p].offset = cursor[p]
    /\ op[p].kind = "process" => op[p].from = cursor[p] /\ op[p].from < op[p].to

\* A session is known to at most one client, and an operation carries a session
\* its client still has or one that is over.
SessionsUnique ==
  /\ \A m \in Members : session[m] <= sessions
  /\ \A c \in Clients : cred[c].session <= sessions
  /\ \A c, d \in Clients : cred[c].session = cred[d].session /\ cred[c].session # 0 => c = d
  /\ \A p \in Parts : op[p].kind # "none" =>
       LET k == op[p].cred IN
       /\ k.session <= sessions
       /\ \A c \in Clients : cred[c].session = k.session /\ k.session # 0 => c = op[p].client
       /\ session[MemberOf[op[p].client]] = k.session /\ k.session # 0
            => cred[op[p].client].session = k.session

\* While nobody has to be expired, the delivery bound of a partition is what the
\* client of its owner was served in its session.
Holds(c, p) == Known(c, cred[c]) /\ Owner(p) = MemberOf[c]
BoundServed ==
  ~Expiring => \A c \in Clients, p \in Parts : Holds(c, p) => bounds[p] <= served[c][p]

IInv ==
  /\ Shapes
  /\ \A x \in txs : BelowCursor(x)
  /\ \A x \in handouts : BelowCursor(x)
  /\ DeliveredOnce
  /\ LockedCursor
  /\ SessionsUnique
  /\ BoundServed

-----------------------------------------------------------------------------
(***************************************************************************)
(* Lemmas about the group after _expire.                                   *)
(***************************************************************************)

\* The bounds and the sizes are numbers.
LEMMA Bounds ==
  ASSUME Assumption
  PROVE  /\ MaxParts \in Nat /\ MaxParts > 0 /\ MaxRecords \in Nat
         /\ MaxSessions \in Nat /\ MaxResets \in Nat
         /\ \A c \in Clients : MemberOf[c] \in Members
         /\ 0 \in Parts
  BY DEF Assumption, Members, Parts

\* _expire leaves a group of the right type (_expire, called by every operation).
LEMMA ExpireTypes ==
  ASSUME Assumption, TypeOK
  PROVE  /\ SessionNow \in [Members -> 0..MaxSessions]
         /\ GenNow \in Nat
         /\ BoundsNow \in [Parts -> -1..MaxRecords]
         /\ \A p \in Parts : BoundsNow[p] <= hwm[p]
<1>0. MaxSessions \in Nat /\ MaxRecords \in Nat
  BY Bounds
<1>1. SessionNow \in [Members -> 0..MaxSessions]
  BY <1>0 DEF SessionNow, TypeOK
<1>2. GenNow \in Nat
  BY DEF GenNow, TypeOK
<1>3. /\ BoundsNow \in [Parts -> -1..MaxRecords]
      /\ \A p \in Parts : BoundsNow[p] <= hwm[p]
  <2>1. CASE Expiring
    <3>1. BoundsNow = [p \in Parts |-> -1]
      BY <2>1 DEF BoundsNow
    <3>2. \A p \in Parts : -1 <= hwm[p] /\ -1 \in -1..MaxRecords
      BY <1>0 DEF TypeOK
    <3> QED
      BY <3>1, <3>2
  <2>2. CASE ~Expiring
    BY <2>2 DEF BoundsNow, TypeOK
  <2> QED
    BY <2>1, <2>2
<1> QED
  BY <1>1, <1>2, <1>3

\* Of an expired group, exactly the members whose lease ran are left, and each
\* keeps its session.
LEMMA ExpireLive ==
  ASSUME Assumption, TypeOK, lapsed' = {}, session' = SessionNow
  PROVE  Live' = Live /\ ~Expiring' /\ \A m \in Live : session'[m] = session[m]
  BY DEF Live, Expiring, SessionNow, TypeOK

-----------------------------------------------------------------------------
(***************************************************************************)
(* Types.                                                                  *)
(***************************************************************************)

\* The initial state has the shapes.
LEMMA InitShapes ==
  ASSUME Assumption, Init
  PROVE  Shapes
<1>0. /\ MaxParts \in Nat /\ MaxParts > 0 /\ MaxRecords \in Nat /\ MaxSessions \in Nat
  BY Bounds
<1>1. TypeOK
  BY <1>0 DEF Init, TypeOK, NoCred
<1>2. /\ sessions \in 0..MaxSessions
      /\ op \in [Parts -> Operations]
      /\ era \in [Parts -> Nat]
      /\ served \in [Clients -> [Parts -> Nat]]
  BY <1>0 DEF Init, Operations
<1> QED
  BY <1>1, <1>2 DEF Shapes

\* Every step keeps the shapes, among them: cursor and delivery bound never pass
\* the committed records.
LEMMA NextShapes ==
  ASSUME Assumption, Shapes, LockedCursor, [Next]_vars
  PROVE  Shapes'
<1>0. /\ MaxParts \in Nat /\ MaxParts > 0 /\ MaxRecords \in Nat /\ MaxSessions \in Nat /\ MaxResets \in Nat
      /\ \A c \in Clients : MemberOf[c] \in Members
  BY Bounds
<1>t. /\ TypeOK
      /\ sessions \in 0..MaxSessions
      /\ op \in [Parts -> Operations]
      /\ era \in [Parts -> Nat]
      /\ served \in [Clients -> [Parts -> Nat]]
  BY DEF Shapes
<1>x. /\ SessionNow \in [Members -> 0..MaxSessions]
      /\ GenNow \in Nat
      /\ BoundsNow \in [Parts -> -1..MaxRecords]
      /\ \A p \in Parts : BoundsNow[p] <= hwm[p]
  BY <1>t, ExpireTypes
<1>n. /\ [p \in Parts |-> -1] \in [Parts -> -1..MaxRecords]
      /\ \A p \in Parts : [q \in Parts |-> -1][p] <= hwm[p]
  BY <1>0, <1>t DEF TypeOK
<1>o. NoOp \in Operations
  BY DEF Operations
<1>1. ASSUME NEW c \in Clients, Join(c) PROVE Shapes'
  <2>1. sessions + 1 \in 0..MaxSessions /\ sessions' = sessions + 1
    BY <1>1, <1>t, <1>0 DEF Join
  <2>2. session' \in [Members -> 0..MaxSessions]
    BY <1>1, <1>x, <2>1 DEF Join
  <2>3. cred' \in [Clients -> [session : 0..MaxSessions, gen : Nat]]
    BY <1>1, <1>x, <1>t, <2>1 DEF Join, TypeOK
  <2>4. served' \in [Clients -> [Parts -> Nat]]
    BY <1>1, <1>t DEF Join
  <2>5. bounds' \in [Parts -> -1..MaxRecords] /\ \A p \in Parts : bounds'[p] <= hwm[p]
    BY <1>1, <1>n DEF Join
  <2>6. lapsed' = {} /\ gen' \in Nat /\ UNCHANGED <<nparts, hwm, cursor, op, era>>
    BY <1>1, <1>x DEF Join
  <2> QED
    BY <2>1, <2>2, <2>3, <2>4, <2>5, <2>6, <1>t DEF Shapes, TypeOK
<1>2. ASSUME NEW c \in Clients, Heartbeat(c) PROVE Shapes'
  <2>1. cred' \in [Clients -> [session : 0..MaxSessions, gen : Nat]]
    BY <1>2, <1>x, <1>t DEF Heartbeat, TypeOK
  <2>2. /\ session' = SessionNow /\ lapsed' = {} /\ gen' = GenNow /\ bounds' = BoundsNow
        /\ UNCHANGED <<nparts, hwm, cursor, op, sessions, served, era>>
    BY <1>2 DEF Heartbeat, Expire, history
  <2> QED
    BY <2>1, <2>2, <1>x, <1>t DEF Shapes, TypeOK
<1>3. ASSUME NEW c \in Clients, Leave(c) PROVE Shapes'
  <2>1. session' \in [Members -> 0..MaxSessions]
    BY <1>3, <1>x, <1>0 DEF Leave
  <2>2. bounds' \in [Parts -> -1..MaxRecords] /\ \A p \in Parts : bounds'[p] <= hwm[p]
    BY <1>3, <1>n DEF Leave
  <2>3. lapsed' = {} /\ gen' \in Nat /\ UNCHANGED <<nparts, hwm, cursor, op, sessions, cred, served, era>>
    BY <1>3, <1>x DEF Leave, history
  <2> QED
    BY <2>1, <2>2, <2>3, <1>t DEF Shapes, TypeOK
<1>4. ASSUME NEW m \in Members, Lapse(m) PROVE Shapes'
  <2>1. /\ lapsed' = lapsed \cup {m}
        /\ UNCHANGED <<nparts, hwm, session, gen, cursor, bounds, op, sessions, cred, served, era>>
    BY <1>4 DEF Lapse, history
  <2> QED
    BY <2>1, <1>t DEF Shapes, TypeOK
<1>5. ASSUME Expand PROVE Shapes'
  <2>1. nparts' \in 1..MaxParts /\ gen' \in Nat
    BY <1>5, <1>t, <1>0 DEF Expand, TypeOK
  <2>2. bounds' \in [Parts -> -1..MaxRecords] /\ \A p \in Parts : bounds'[p] <= hwm[p]
    BY <1>5, <1>n DEF Expand
  <2>3. UNCHANGED <<hwm, session, lapsed, cursor, op, sessions, cred, served, era>>
    BY <1>5 DEF Expand, history
  <2> QED
    BY <2>1, <2>2, <2>3, <1>t DEF Shapes, TypeOK
<1>6. ASSUME NEW p \in Parts, Publish(p) PROVE Shapes'
  <2>1. hwm' \in [Parts -> 0..MaxRecords] /\ \A q \in Parts : hwm[q] <= hwm'[q]
    BY <1>6, <1>t, <1>0 DEF Publish, TypeOK
  <2>2. UNCHANGED <<nparts, session, lapsed, gen, bounds, cursor, op, sessions, cred, served, era>>
    BY <1>6 DEF Publish, history, group
  <2>3. \A q \in Parts : cursor'[q] <= hwm'[q] /\ bounds'[q] <= hwm'[q]
    BY <2>1, <2>2, <1>t, <1>0 DEF TypeOK
  <2> QED
    BY <2>1, <2>2, <2>3, <1>t DEF Shapes, TypeOK
<1>7. ASSUME NEW p \in Parts, NEW c \in Clients, NEW s \in {"at_least_once", "at_most_once"}, FetchBegin(c, p, s)
      PROVE Shapes'
  <2>1. [kind |-> "fetch", client |-> c, cred |-> cred[c], semantics |-> s, offset |-> cursor[p]] \in Operations
    BY <1>t, <1>0 DEF Operations, TypeOK
  <2>2. op' \in [Parts -> Operations]
    BY <1>7, <2>1, <1>t DEF FetchBegin
  <2>3. /\ session' = SessionNow /\ lapsed' = {} /\ gen' = GenNow /\ bounds' = BoundsNow
        /\ UNCHANGED <<nparts, hwm, cursor, sessions, cred, served, era>>
    BY <1>7 DEF FetchBegin, Expire, history
  <2> QED
    BY <2>2, <2>3, <1>x, <1>t DEF Shapes, TypeOK
<1>8. ASSUME NEW p \in Parts, NEW n \in 0..MaxRecords, FetchEnd(p, n) PROVE Shapes'
  <2> DEFINE f == op[p]
  <2>1. n <= hwm[p] /\ n \in Nat
    BY <1>8, <1>t, <1>0 DEF FetchEnd, TypeOK
  <2>2. bounds' \in [Parts -> -1..MaxRecords] /\ \A q \in Parts : bounds'[q] <= hwm[q]
    BY <1>8, <1>x, <2>1 DEF FetchEnd
  <2>3. cursor' \in [Parts -> 0..MaxRecords] /\ \A q \in Parts : cursor'[q] <= hwm[q]
    BY <1>8, <1>t, <2>1 DEF FetchEnd, TypeOK
  <2>4. op' \in [Parts -> Operations]
    BY <1>8, <1>o, <1>t DEF FetchEnd
  <2>5. f.client \in Clients
    BY <1>8, <1>t DEF FetchEnd, Operations, NoOp
  <2>6. served' \in [Clients -> [Parts -> Nat]]
    BY <1>8, <1>t, <2>1, <2>5 DEF FetchEnd
  <2>7. /\ session' = SessionNow /\ lapsed' = {} /\ gen' = GenNow
        /\ UNCHANGED <<nparts, hwm, sessions, cred, era>>
    BY <1>8 DEF FetchEnd
  <2> QED
    BY <2>2, <2>3, <2>4, <2>6, <2>7, <1>x, <1>t DEF Shapes, TypeOK
<1>9. ASSUME NEW p \in Parts, FetchFails(p) \/ ProcessFails(p) PROVE Shapes'
  <2>1. op' \in [Parts -> Operations]
    BY <1>9, <1>o, <1>t DEF FetchFails, ProcessFails
  <2>2. UNCHANGED <<nparts, hwm, session, lapsed, gen, bounds, cursor, sessions, cred, served, era>>
    BY <1>9 DEF FetchFails, ProcessFails, history, group
  <2> QED
    BY <2>1, <2>2, <1>t DEF Shapes, TypeOK
<1>10. ASSUME NEW p \in Parts, NEW c \in Clients, NEW n \in 0..MaxRecords, Commit(c, p, n) PROVE Shapes'
  <2>1. n <= hwm[p]
    BY <1>10, <1>x, <1>t, <1>0 DEF Commit, Committable, TypeOK
  <2>2. cursor' \in [Parts -> 0..MaxRecords] /\ \A q \in Parts : cursor'[q] <= hwm[q]
    BY <1>10, <1>t, <2>1 DEF Commit, TypeOK
  <2>3. /\ session' = SessionNow /\ lapsed' = {} /\ gen' = GenNow /\ bounds' = BoundsNow
        /\ UNCHANGED <<nparts, hwm, op, sessions, cred, served, era>>
    BY <1>10 DEF Commit, Expire, history
  <2> QED
    BY <2>2, <2>3, <1>x, <1>t DEF Shapes, TypeOK
<1>11. ASSUME NEW p \in Parts, NEW c \in Clients, NEW n \in 0..MaxRecords, Reset(c, p, n) PROVE Shapes'
  <2>1. cursor' \in [Parts -> 0..MaxRecords] /\ \A q \in Parts : cursor'[q] <= hwm[q]
    BY <1>11, <1>t, <1>0 DEF Reset, TypeOK
  <2>2. bounds' \in [Parts -> -1..MaxRecords] /\ \A q \in Parts : bounds'[q] <= hwm[q]
    BY <1>11, <1>x, <1>t, <1>0 DEF Reset, TypeOK
  <2>3. era' \in [Parts -> Nat]
    BY <1>11, <1>t DEF Reset
  <2>4. /\ session' = SessionNow /\ lapsed' = {} /\ gen' = GenNow
        /\ UNCHANGED <<nparts, hwm, op, sessions, cred, served>>
    BY <1>11 DEF Reset
  <2> QED
    BY <2>1, <2>2, <2>3, <2>4, <1>x, <1>t DEF Shapes, TypeOK
<1>12. ASSUME NEW p \in Parts, NEW c \in Clients, NEW t \in Txids, NEW n \in 0..MaxRecords, ProcessBegin(c, p, t, n)
       PROVE Shapes'
  <2>1. [kind |-> "process", id |-> t, client |-> c, cred |-> cred[c], from |-> cursor[p], to |-> n] \in Operations
    BY <1>t, <1>0 DEF Operations, TypeOK
  <2>2. op' \in [Parts -> Operations]
    BY <1>12, <2>1, <1>t DEF ProcessBegin
  <2>3. /\ session' = SessionNow /\ lapsed' = {} /\ gen' = GenNow /\ bounds' = BoundsNow
        /\ UNCHANGED <<nparts, hwm, cursor, sessions, cred, served, era>>
    BY <1>12 DEF ProcessBegin, Expire, history
  <2> QED
    BY <2>2, <2>3, <1>x, <1>t DEF Shapes, TypeOK
<1>13. ASSUME NEW p \in Parts, ProcessEnd(p) PROVE Shapes'
  <2> DEFINE f == op[p]
  <2>1. f.to \in Nat
    BY <1>13, <1>t DEF ProcessEnd, Operations, NoOp
  <2>2. f.to <= hwm[p] /\ f.to \in 0..MaxRecords
    BY <1>13, <1>x, <1>t, <1>0, <2>1 DEF ProcessEnd, Committable, TypeOK
  <2>3. cursor' \in [Parts -> 0..MaxRecords] /\ \A q \in Parts : cursor'[q] <= hwm[q]
    BY <1>13, <1>t, <2>2 DEF ProcessEnd, TypeOK
  <2>4. op' \in [Parts -> Operations]
    BY <1>13, <1>o, <1>t DEF ProcessEnd
  <2>5. /\ session' = SessionNow /\ lapsed' = {} /\ gen' = GenNow /\ bounds' = BoundsNow
        /\ UNCHANGED <<nparts, hwm, sessions, cred, served, era>>
    BY <1>13 DEF ProcessEnd, Expire, history
  <2> QED
    BY <2>3, <2>4, <2>5, <1>x, <1>t DEF Shapes, TypeOK
<1>14. ASSUME Restart PROVE Shapes'
  <2>1. op' \in [Parts -> Operations]
    BY <1>14, <1>o DEF Restart
  <2>2. UNCHANGED <<nparts, hwm, session, lapsed, gen, bounds, cursor, sessions, cred, served, era>>
    BY <1>14 DEF Restart, history, group
  <2> QED
    BY <2>1, <2>2, <1>t DEF Shapes, TypeOK
<1>15. CASE UNCHANGED vars
  BY <1>15, <1>t DEF vars, history, Shapes, TypeOK
<1> QED
  BY <1>1, <1>2, <1>3, <1>4, <1>5, <1>6, <1>7, <1>8, <1>9, <1>10, <1>11, <1>12, <1>13, <1>14, <1>15
     DEF Next, Membership, Delivery

-----------------------------------------------------------------------------
(***************************************************************************)
(* Delivery: the lock of a partition and the cursor.                       *)
(***************************************************************************)

Ranges == (\A x \in txs : BelowCursor(x)) /\ (\A x \in handouts : BelowCursor(x))

\* A cursor that is moved ahead, or back together with its era, stays above what
\* was consumed.
LEMMA StaysBelow ==
  ASSUME NEW x, BelowCursor(x), era \in [Parts -> Nat], era' \in [Parts -> Nat],
         cursor \in [Parts -> Nat], cursor' \in [Parts -> Nat],
         \A p \in Parts : \/ era'[p] = era[p] /\ cursor'[p] >= cursor[p]
                          \/ era'[p] > era[p]
  PROVE  BelowCursor(x)'
  BY DEF BelowCursor

\* What a step may do to the cursors (_validate_commit, the lock of a partition,
\* reset of a cursor): ahead, or anywhere with a new era.
CursorStep ==
  \A p \in Parts : \/ era'[p] = era[p] /\ cursor'[p] >= cursor[p]
                   \/ era'[p] > era[p]

\* Operations that leave delivery alone.
LEMMA QuietDelivery ==
  ASSUME Shapes, Ranges, DeliveredOnce, LockedCursor, UNCHANGED <<cursor, era, txs, handouts>>,
         \A p \in Parts : op'[p] = op[p] \/ op'[p] = NoOp
  PROVE  Ranges' /\ DeliveredOnce' /\ LockedCursor' /\ CursorStep
<1>1. Ranges'
  BY DEF Ranges, BelowCursor
<1>2. DeliveredOnce'
  BY DEF DeliveredOnce, ProcessedOnce, HandedOutOnce, Overlap
<1>3. LockedCursor'
  BY DEF LockedCursor, NoOp
<1>4. CursorStep
  BY DEF CursorStep, Shapes, TypeOK
<1> QED
  BY <1>1, <1>2, <1>3, <1>4

\* Every step keeps the locked cursors, and consumes a record at most once per
\* era of its partition.
LEMMA NextDelivery ==
  ASSUME Assumption, Shapes, Shapes', Ranges, DeliveredOnce, LockedCursor, [Next]_vars
  PROVE  Ranges' /\ DeliveredOnce' /\ LockedCursor' /\ CursorStep
<1>t. /\ cursor \in [Parts -> Nat] /\ cursor' \in [Parts -> Nat]
      /\ era \in [Parts -> Nat] /\ era' \in [Parts -> Nat]
      /\ op \in [Parts -> Operations]
      /\ \A p \in Parts : cursor[p] \in Nat /\ cursor'[p] \in Nat /\ era[p] \in Nat /\ era'[p] \in Nat
  BY Bounds DEF Shapes, TypeOK
<1>k. ASSUME CursorStep PROVE \A x : BelowCursor(x) => BelowCursor(x)'
  BY <1>k, <1>t, StaysBelow DEF CursorStep
<1>1. ASSUME NEW c \in Clients, Join(c) \/ Heartbeat(c) \/ Leave(c)
      PROVE  Ranges' /\ DeliveredOnce' /\ LockedCursor' /\ CursorStep
  BY <1>1, QuietDelivery DEF Join, Heartbeat, Leave, history
<1>2. ASSUME NEW m \in Members, Lapse(m)
      PROVE  Ranges' /\ DeliveredOnce' /\ LockedCursor' /\ CursorStep
  BY <1>2, QuietDelivery DEF Lapse, history
<1>3. ASSUME Expand
      PROVE  Ranges' /\ DeliveredOnce' /\ LockedCursor' /\ CursorStep
  BY <1>3, QuietDelivery DEF Expand, history
<1>4. ASSUME NEW p \in Parts, Publish(p)
      PROVE  Ranges' /\ DeliveredOnce' /\ LockedCursor' /\ CursorStep
  BY <1>4, QuietDelivery DEF Publish, history
<1>5. ASSUME NEW p \in Parts, NEW c \in Clients, NEW s, FetchBegin(c, p, s)
      PROVE  Ranges' /\ DeliveredOnce' /\ LockedCursor' /\ CursorStep
  <2>1. UNCHANGED <<cursor, era, txs, handouts>>
    BY <1>5 DEF FetchBegin, history
  <2>2. op' = [op EXCEPT ![p] = [kind |-> "fetch", client |-> c, cred |-> cred[c],
                                 semantics |-> s, offset |-> cursor[p]]]
    BY <1>5 DEF FetchBegin
  <2>3. LockedCursor'
    BY <2>1, <2>2, <1>t DEF LockedCursor
  <2>4. Ranges'
    BY <2>1 DEF Ranges, BelowCursor
  <2>5. DeliveredOnce'
    BY <2>1 DEF DeliveredOnce, ProcessedOnce, HandedOutOnce, Overlap
  <2> QED
    BY <2>1, <2>3, <2>4, <2>5, <1>t DEF CursorStep
<1>6. ASSUME NEW p \in Parts, NEW n \in 0..MaxRecords, FetchEnd(p, n)
      PROVE  Ranges' /\ DeliveredOnce' /\ LockedCursor' /\ CursorStep
  <2> DEFINE f == op[p]
             y == [part |-> p, era |-> era[p], from |-> f.offset, to |-> n, client |-> f.client]
  <2>1. f.offset = cursor[p] /\ n \in Nat /\ n >= f.offset
    BY <1>6, <1>t, Bounds DEF FetchEnd, LockedCursor, Shapes, TypeOK
  <2>2. UNCHANGED <<txs, era>> /\ op' = [op EXCEPT ![p] = NoOp]
    BY <1>6 DEF FetchEnd
  <2>3. \/ cursor' = [cursor EXCEPT ![p] = n]
        \/ cursor' = cursor /\ handouts' = handouts
    BY <1>6 DEF FetchEnd
  <2>4. CursorStep
    BY <2>1, <2>2, <2>3, <1>t DEF CursorStep
  <2>5. \/ handouts' = handouts
        \/ n > f.offset /\ cursor' = [cursor EXCEPT ![p] = n] /\ handouts' = handouts \cup {y}
    BY <1>6 DEF FetchEnd
  <2>6. ASSUME n > f.offset, cursor' = [cursor EXCEPT ![p] = n], NEW z, z = y
        PROVE  BelowCursor(z)'
    BY <2>6, <2>1, <2>2, <1>t DEF BelowCursor
  <2>7. Ranges'
    BY <2>2, <2>4, <2>5, <2>6, <1>k DEF Ranges
  <2>8. ASSUME NEW x \in handouts PROVE ~Overlap(x, y) /\ ~Overlap(y, x)
    BY <2>1, <1>t DEF Ranges, BelowCursor, Overlap
  <2>9. HandedOutOnce'
    BY <2>5, <2>8 DEF HandedOutOnce, DeliveredOnce, Overlap
  <2>10. ProcessedOnce'
    BY <2>2 DEF ProcessedOnce, DeliveredOnce, Overlap
  <2>11. LockedCursor'
    <3>1. \A q \in Parts : q # p => op'[q] = op[q] /\ cursor'[q] = cursor[q]
      BY <2>2, <2>3, <1>t
    <3>2. op'[p].kind = "none"
      BY <2>2, <1>t DEF NoOp
    <3> QED
      BY <3>1, <3>2 DEF LockedCursor
  <2> QED
    BY <2>4, <2>7, <2>9, <2>10, <2>11 DEF DeliveredOnce
<1>7. ASSUME NEW p \in Parts, FetchFails(p) \/ ProcessFails(p)
      PROVE  Ranges' /\ DeliveredOnce' /\ LockedCursor' /\ CursorStep
  BY <1>7, <1>t, QuietDelivery DEF FetchFails, ProcessFails, history
<1>8. ASSUME NEW p \in Parts, NEW c \in Clients, NEW n \in 0..MaxRecords, Commit(c, p, n) \/ Reset(c, p, n)
      PROVE  Ranges' /\ DeliveredOnce' /\ LockedCursor' /\ CursorStep
  <2>1. op[p] = NoOp /\ UNCHANGED <<txs, handouts, op>> /\ cursor' = [cursor EXCEPT ![p] = n]
    BY <1>8 DEF Commit, Reset, history
  <2>2. \/ n >= cursor[p] /\ era' = era
        \/ era' = [era EXCEPT ![p] = @ + 1]
    BY <1>8 DEF Commit, Committable, Reset, history
  <2>3. CursorStep
    BY <2>1, <2>2, <1>t DEF CursorStep
  <2>4. Ranges'
    BY <2>1, <2>3, <1>k DEF Ranges
  <2>5. DeliveredOnce'
    BY <2>1 DEF DeliveredOnce, ProcessedOnce, HandedOutOnce, Overlap
  <2>6. LockedCursor'
    BY <2>1, <1>t DEF LockedCursor, NoOp
  <2> QED
    BY <2>3, <2>4, <2>5, <2>6
<1>9. ASSUME NEW p \in Parts, NEW c \in Clients, NEW t \in Txids, NEW n \in 0..MaxRecords, ProcessBegin(c, p, t, n)
      PROVE  Ranges' /\ DeliveredOnce' /\ LockedCursor' /\ CursorStep
  <2>1. UNCHANGED <<cursor, era, txs, handouts>>
    BY <1>9 DEF ProcessBegin, history
  <2>2. op' = [op EXCEPT ![p] = [kind |-> "process", id |-> t, client |-> c, cred |-> cred[c],
                                 from |-> cursor[p], to |-> n]]
    BY <1>9 DEF ProcessBegin
  <2>3. cursor[p] < n
    BY <1>9, <1>t, Bounds DEF ProcessBegin
  <2>4. LockedCursor'
    BY <2>1, <2>2, <2>3, <1>t DEF LockedCursor
  <2>5. Ranges'
    BY <2>1 DEF Ranges, BelowCursor
  <2>6. DeliveredOnce'
    BY <2>1 DEF DeliveredOnce, ProcessedOnce, HandedOutOnce, Overlap
  <2> QED
    BY <2>1, <2>4, <2>5, <2>6, <1>t DEF CursorStep
<1>10. ASSUME NEW p \in Parts, ProcessEnd(p)
       PROVE  Ranges' /\ DeliveredOnce' /\ LockedCursor' /\ CursorStep
  <2> DEFINE f == op[p]
             y == [id |-> f.id, part |-> p, era |-> era[p], from |-> f.from, to |-> f.to, client |-> f.client]
  <2>1. f.from = cursor[p] /\ f.from < f.to
    BY <1>10 DEF ProcessEnd, LockedCursor
  <2>2. f.to \in Nat
    BY <1>10, <1>t DEF ProcessEnd, Operations, NoOp
  <2>3. /\ UNCHANGED <<handouts, era>> /\ op' = [op EXCEPT ![p] = NoOp]
        /\ cursor' = [cursor EXCEPT ![p] = f.to] /\ txs' = txs \cup {y}
    BY <1>10 DEF ProcessEnd, history
  <2>4. CursorStep
    BY <2>1, <2>2, <2>3, <1>t DEF CursorStep
  <2>5. ASSUME NEW z, z = y PROVE BelowCursor(z)'
    BY <2>5, <2>1, <2>2, <2>3, <1>t DEF BelowCursor
  <2>6. Ranges'
    BY <2>3, <2>4, <2>5, <1>k DEF Ranges
  <2>7. ASSUME NEW x \in txs PROVE ~Overlap(x, y) /\ ~Overlap(y, x)
    BY <2>1, <2>2, <1>t DEF Ranges, BelowCursor, Overlap
  <2>8. ProcessedOnce'
    BY <2>3, <2>7 DEF ProcessedOnce, DeliveredOnce, Overlap
  <2>9. HandedOutOnce'
    BY <2>3 DEF HandedOutOnce, DeliveredOnce, Overlap
  <2>10. LockedCursor'
    BY <2>3, <1>t DEF LockedCursor, NoOp
  <2> QED
    BY <2>4, <2>6, <2>8, <2>9, <2>10 DEF DeliveredOnce
<1>11. ASSUME Restart
       PROVE  Ranges' /\ DeliveredOnce' /\ LockedCursor' /\ CursorStep
  BY <1>11, QuietDelivery DEF Restart, history
<1>12. CASE UNCHANGED vars
  BY <1>12, QuietDelivery DEF vars, history
<1> QED
  BY <1>1, <1>2, <1>3, <1>4, <1>5, <1>6, <1>7, <1>8, <1>9, <1>10, <1>11, <1>12
     DEF Next, Membership, Delivery

-----------------------------------------------------------------------------
(***************************************************************************)
(* Sessions: who knows which one.                                          *)
(***************************************************************************)

\* Only a join hands out a session: in every other operation members keep theirs
\* or lose it, clients know what they knew, and a new operation carries what its
\* client knows.
LEMMA QuietSessions ==
  ASSUME Assumption, Shapes, SessionsUnique, sessions' = sessions,
         \A m \in Members : session'[m] = session[m] \/ session'[m] = 0,
         \A c \in Clients : cred'[c].session = cred[c].session,
         \A p \in Parts : \/ op'[p] = op[p]
                          \/ op'[p] = NoOp
                          \/ \E c \in Clients : op'[p].client = c /\ op'[p].cred = cred[c]
  PROVE  SessionsUnique'
<1>t. /\ sessions \in Nat
      /\ \A c \in Clients : MemberOf[c] \in Members /\ cred[c].session \in Nat
      /\ \A p \in Parts : op[p] \in Operations
      /\ \A p \in Parts : op[p].kind # "none" => op[p].client \in Clients /\ op[p].cred.session \in Nat
  <2>1. \A p \in Parts : op[p] \in Operations
    BY DEF Shapes
  <2>2. \A p \in Parts : op[p].kind # "none" => op[p].client \in Clients /\ op[p].cred.session \in Nat
    BY <2>1 DEF Operations, NoOp
  <2> QED
    BY <2>1, <2>2, Bounds DEF Shapes, TypeOK
<1>1. \A m \in Members : session'[m] <= sessions'
  BY <1>t DEF SessionsUnique
<1>2. \A c \in Clients : cred'[c].session <= sessions'
  BY DEF SessionsUnique
<1>3. \A c, d \in Clients : cred'[c].session = cred'[d].session /\ cred'[c].session # 0 => c = d
  BY DEF SessionsUnique
<1>4. ASSUME NEW p \in Parts, op'[p].kind # "none"
      PROVE  /\ op'[p].cred.session <= sessions'
             /\ \A c \in Clients : cred'[c].session = op'[p].cred.session /\ op'[p].cred.session # 0
                                     => c = op'[p].client
             /\ session'[MemberOf[op'[p].client]] = op'[p].cred.session /\ op'[p].cred.session # 0
                  => cred'[op'[p].client].session = op'[p].cred.session
  <2>1. CASE op'[p] = op[p]
    <3>1. /\ op[p].cred.session <= sessions
          /\ \A c \in Clients : cred[c].session = op[p].cred.session /\ op[p].cred.session # 0
                                  => c = op[p].client
          /\ session[MemberOf[op[p].client]] = op[p].cred.session /\ op[p].cred.session # 0
               => cred[op[p].client].session = op[p].cred.session
      BY <1>4, <2>1 DEF SessionsUnique
    <3>2. op[p].client \in Clients /\ MemberOf[op[p].client] \in Members
      BY <1>4, <2>1, <1>t
    <3> QED
      BY <2>1, <3>1, <3>2
  <2>2. CASE op'[p] = NoOp
    BY <1>4, <2>2 DEF NoOp
  <2>3. ASSUME NEW d \in Clients, op'[p].client = d, op'[p].cred = cred[d]
        PROVE  /\ op'[p].cred.session <= sessions'
               /\ \A c \in Clients : cred'[c].session = op'[p].cred.session /\ op'[p].cred.session # 0
                                       => c = op'[p].client
               /\ cred'[op'[p].client].session = op'[p].cred.session
    BY <2>3, <1>2, <1>3
  <2> QED
    BY <2>1, <2>2, <2>3
<1> QED
  BY <1>1, <1>2, <1>3, <1>4 DEF SessionsUnique

\* A session stays with one client, through joins under the same member ID,
\* expiry and operations that began before.
LEMMA NextSessions ==
  ASSUME Assumption, Shapes, SessionsUnique, [Next]_vars
  PROVE  SessionsUnique'
<1>t. /\ TypeOK
      /\ sessions \in Nat
      /\ session \in [Members -> Nat]
      /\ cred \in [Clients -> [session : Nat, gen : Nat]]
      /\ op \in [Parts -> Operations]
      /\ \A c \in Clients : MemberOf[c] \in Members
  BY Bounds DEF Shapes, TypeOK
<1>s. \A m \in Members : SessionNow[m] = session[m] \/ SessionNow[m] = 0
  BY DEF SessionNow
<1>1. ASSUME NEW e \in Clients, Join(e) PROVE SessionsUnique'
  <2>1. /\ sessions' = sessions + 1 /\ op' = op
        /\ session' = [SessionNow EXCEPT ![MemberOf[e]] = sessions + 1]
        /\ cred' = [cred EXCEPT ![e] = [session |-> sessions + 1, gen |-> GenNow + 1]]
    BY <1>1 DEF Join
  <2>2. \A m \in Members : session'[m] = IF m = MemberOf[e] THEN sessions + 1 ELSE SessionNow[m]
    BY <2>1 DEF SessionNow
  <2>3. \A c \in Clients : cred'[c].session = IF c = e THEN sessions + 1 ELSE cred[c].session
    BY <2>1, <1>t
  <2>4. \A m \in Members : session'[m] <= sessions'
    BY <2>1, <2>2, <1>s, <1>t DEF SessionsUnique
  <2>5. \A c \in Clients : cred'[c].session <= sessions'
    BY <2>1, <2>3, <1>t DEF SessionsUnique
  <2>6. \A c, d \in Clients : cred'[c].session = cred'[d].session /\ cred'[c].session # 0 => c = d
    <3>1. \A c \in Clients : cred[c].session <= sessions /\ cred[c].session \in Nat
      BY <1>t DEF SessionsUnique
    <3> QED
      BY <2>3, <3>1, <1>t DEF SessionsUnique
  <2>7. ASSUME NEW p \in Parts, op'[p].kind # "none"
        PROVE  /\ op'[p].cred.session <= sessions'
               /\ \A c \in Clients : cred'[c].session = op'[p].cred.session /\ op'[p].cred.session # 0
                                       => c = op'[p].client
               /\ session'[MemberOf[op'[p].client]] = op'[p].cred.session /\ op'[p].cred.session # 0
                    => cred'[op'[p].client].session = op'[p].cred.session
    <3> DEFINE k == op[p].cred.session
    <3>1. op[p] \in Operations /\ op[p].kind # "none"
      BY <2>1, <2>7, <1>t
    <3>2. op[p].client \in Clients /\ k \in Nat
      BY <3>1 DEF Operations, NoOp
    <3>3. /\ k <= sessions
          /\ \A c \in Clients : cred[c].session = k /\ k # 0 => c = op[p].client
          /\ session[MemberOf[op[p].client]] = k /\ k # 0 => cred[op[p].client].session = k
      BY <3>1 DEF SessionsUnique
    <3>4. k # sessions + 1
      BY <3>2, <3>3, <1>t
    <3>5. k <= sessions'
      BY <3>2, <3>3, <2>1, <1>t
    <3>6. \A c \in Clients : cred'[c].session = k /\ k # 0 => c = op[p].client
      BY <2>3, <3>3, <3>4
    <3>7. ASSUME session'[MemberOf[op[p].client]] = k, k # 0 PROVE cred'[op[p].client].session = k
      <4>1. MemberOf[op[p].client] \in Members /\ MemberOf[op[p].client] # MemberOf[e]
        BY <3>7, <3>2, <3>4, <2>2, <1>t
      <4>2. session[MemberOf[op[p].client]] = k
        BY <3>7, <4>1, <2>2, <1>s
      <4> QED
        BY <4>1, <4>2, <3>2, <3>3, <3>7, <2>3
    <3> QED
      BY <3>5, <3>6, <3>7, <2>1
  <2> QED
    BY <2>4, <2>5, <2>6, <2>7 DEF SessionsUnique
<1>2. ASSUME NEW c \in Clients, Heartbeat(c) PROVE SessionsUnique'
  <2>1. cred' = [cred EXCEPT ![c].gen = GenNow] /\ session' = SessionNow /\ UNCHANGED <<sessions, op>>
    BY <1>2 DEF Heartbeat, Expire
  <2>2. \A d \in Clients : cred'[d].session = cred[d].session
    BY <2>1, <1>t
  <2> QED
    BY <2>1, <2>2, <1>s, QuietSessions
<1>3. ASSUME NEW c \in Clients, Leave(c) PROVE SessionsUnique'
  <2>1. session' = [SessionNow EXCEPT ![MemberOf[c]] = 0] /\ UNCHANGED <<sessions, op, cred>>
    BY <1>3 DEF Leave
  <2>2. \A m \in Members : session'[m] = session[m] \/ session'[m] = 0
    BY <2>1, <1>s DEF SessionNow
  <2> QED
    BY <2>1, <2>2, QuietSessions
<1>4. ASSUME NEW m \in Members, Lapse(m) PROVE SessionsUnique'
  BY <1>4, QuietSessions DEF Lapse
<1>5. ASSUME Expand PROVE SessionsUnique'
  BY <1>5, QuietSessions DEF Expand
<1>6. ASSUME NEW p \in Parts, Publish(p) PROVE SessionsUnique'
  BY <1>6, QuietSessions DEF Publish, group
<1>7. ASSUME NEW p \in Parts, NEW c \in Clients, NEW s, FetchBegin(c, p, s) PROVE SessionsUnique'
  <2>1. session' = SessionNow /\ UNCHANGED <<sessions, cred>>
    BY <1>7 DEF FetchBegin, Expire
  <2>2. \A q \in Parts : op'[q] = op[q] \/ (op'[q].client = c /\ op'[q].cred = cred[c])
    BY <1>7, <1>t DEF FetchBegin
  <2> QED
    BY <2>1, <2>2, <1>s, QuietSessions
<1>8. ASSUME NEW p \in Parts, NEW n \in 0..MaxRecords, FetchEnd(p, n) PROVE SessionsUnique'
  <2>1. session' = SessionNow /\ UNCHANGED <<sessions, cred>> /\ op' = [op EXCEPT ![p] = NoOp]
    BY <1>8 DEF FetchEnd
  <2> QED
    BY <2>1, <1>s, <1>t, QuietSessions
<1>9. ASSUME NEW p \in Parts, FetchFails(p) \/ ProcessFails(p) PROVE SessionsUnique'
  <2>1. UNCHANGED <<session, sessions, cred>> /\ op' = [op EXCEPT ![p] = NoOp]
    BY <1>9 DEF FetchFails, ProcessFails, group
  <2> QED
    BY <2>1, <1>t, QuietSessions
<1>10. ASSUME NEW p \in Parts, NEW c \in Clients, NEW n \in 0..MaxRecords, Commit(c, p, n) \/ Reset(c, p, n)
       PROVE SessionsUnique'
  <2>1. session' = SessionNow /\ UNCHANGED <<sessions, cred, op>>
    BY <1>10 DEF Commit, Reset, Expire
  <2> QED
    BY <2>1, <1>s, QuietSessions
<1>11. ASSUME NEW p \in Parts, NEW c \in Clients, NEW t \in Txids, NEW n \in 0..MaxRecords, ProcessBegin(c, p, t, n)
       PROVE SessionsUnique'
  <2>1. session' = SessionNow /\ UNCHANGED <<sessions, cred>>
    BY <1>11 DEF ProcessBegin, Expire
  <2>2. \A q \in Parts : op'[q] = op[q] \/ (op'[q].client = c /\ op'[q].cred = cred[c])
    BY <1>11, <1>t DEF ProcessBegin
  <2> QED
    BY <2>1, <2>2, <1>s, QuietSessions
<1>12. ASSUME NEW p \in Parts, ProcessEnd(p) PROVE SessionsUnique'
  <2>1. session' = SessionNow /\ UNCHANGED <<sessions, cred>> /\ op' = [op EXCEPT ![p] = NoOp]
    BY <1>12 DEF ProcessEnd, Expire
  <2> QED
    BY <2>1, <1>s, <1>t, QuietSessions
<1>13. ASSUME Restart PROVE SessionsUnique'
  BY <1>13, QuietSessions DEF Restart, group
<1>14. CASE UNCHANGED vars
  BY <1>14, QuietSessions DEF vars
<1> QED
  BY <1>1, <1>2, <1>3, <1>4, <1>5, <1>6, <1>7, <1>8, <1>9, <1>10, <1>11, <1>12, <1>13, <1>14
     DEF Next, Membership, Delivery

-----------------------------------------------------------------------------
(***************************************************************************)
(* Delivery bounds: what the owner was served.                             *)
(***************************************************************************)

\* A step that runs _expire keeps owners; the client of an owner was that before.
LEMMA ExpireHolds ==
  ASSUME Assumption, Shapes, lapsed' = {}, session' = SessionNow,
         \A c \in Clients : cred'[c].session = cred[c].session
  PROVE  /\ ~Expiring'
         /\ \A c \in Clients, p \in Parts : Holds(c, p)' => Holds(c, p)
<1>1. Live' = Live /\ ~Expiring' /\ \A m \in Live : session'[m] = session[m]
  BY ExpireLive DEF Shapes
<1>2. \A p \in Parts : Owner(p)' = Owner(p)
  BY <1>1 DEF Owner
<1>3. ASSUME NEW c \in Clients, Known(c, cred[c])' PROVE Known(c, cred[c])
  BY <1>1, <1>3 DEF Known
<1> QED
  BY <1>1, <1>2, <1>3 DEF Holds

\* Bounds that are reset say nothing.
LEMMA NoBounds ==
  ASSUME Shapes', bounds' = [p \in Parts |-> -1]
  PROVE  BoundServed'
  BY DEF BoundServed, Shapes

\* A step that runs _expire and delivers nothing.
LEMMA ExpireBounds ==
  ASSUME Assumption, Shapes, Shapes', BoundServed, Expire, served' = served,
         \A c \in Clients : cred'[c].session = cred[c].session
  PROVE  BoundServed'
<1>0. lapsed' = {} /\ session' = SessionNow /\ bounds' = BoundsNow
  BY DEF Expire
<1>1. CASE Expiring
  BY <1>0, <1>1, NoBounds DEF BoundsNow
<1>2. CASE ~Expiring
  <2>1. \A c \in Clients, p \in Parts : Holds(c, p)' => Holds(c, p)
    BY <1>0, ExpireHolds
  <2>2. bounds' = bounds
    BY <1>0, <1>2 DEF BoundsNow
  <2> QED
    BY <1>2, <2>1, <2>2 DEF BoundServed
<1> QED
  BY <1>1, <1>2

\* A step that does not touch the group.
LEMMA QuietBounds ==
  ASSUME BoundServed, UNCHANGED <<session, lapsed, bounds, cred, served>>
  PROVE  BoundServed'
<1>1. Live' = Live /\ Expiring' = Expiring
  BY DEF Live, Expiring
<1>2. \A p \in Parts : Owner(p)' = Owner(p)
  BY <1>1 DEF Owner
<1>3. \A c \in Clients : Known(c, cred[c])' = Known(c, cred[c])
  BY <1>1 DEF Known
<1> QED
  BY <1>1, <1>2, <1>3 DEF BoundServed, Holds

\* The client whose operation is valid is the one that knows the session.
LEMMA ValidClient ==
  ASSUME Assumption, Shapes, SessionsUnique, NEW p \in Parts, op[p].kind # "none",
         Valid(op[p].client, op[p].cred, p)
  PROVE  /\ op[p].client \in Clients
         /\ Known(op[p].client, cred[op[p].client])
         /\ \A c \in Clients : Holds(c, p) => c = op[p].client
<1> DEFINE f == op[p]
           m == MemberOf[f.client]
<1>1. f \in Operations
  BY DEF Shapes
<1>2. f.client \in Clients /\ f.cred.session \in Nat
  BY <1>1 DEF Operations, NoOp
<1>3. m \in Live /\ session[m] = f.cred.session /\ Owner(p) = m
  BY DEF Valid, Known
<1>4. f.cred.session # 0
  BY <1>3 DEF Live
<1>5. cred[f.client].session = f.cred.session
  BY <1>3, <1>4 DEF SessionsUnique
<1>6. Known(f.client, cred[f.client])
  BY <1>3, <1>5 DEF Known
<1>7. ASSUME NEW c \in Clients, Holds(c, p) PROVE c = f.client
  <2>1. MemberOf[c] = m /\ session[m] = cred[c].session
    BY <1>3, <1>7 DEF Holds, Known
  <2> QED
    BY <2>1, <1>3, <1>4 DEF SessionsUnique
<1> QED
  BY <1>2, <1>6, <1>7

\* Every step keeps the bounds within what the client of the owner was served,
\* through rebalances, expiry and fetches that began in an earlier generation.
LEMMA NextBounds ==
  ASSUME Assumption, Shapes, Shapes', SessionsUnique, BoundServed, [Next]_vars
  PROVE  BoundServed'
<1>t. /\ cred \in [Clients -> [session : Nat, gen : Nat]]
      /\ bounds \in [Parts -> Int]
      /\ served \in [Clients -> [Parts -> Nat]]
      /\ served' \in [Clients -> [Parts -> Nat]]
      /\ BoundsNow \in [Parts -> Int]
  <2>1. BoundsNow \in [Parts -> -1..MaxRecords]
    BY ExpireTypes DEF Shapes
  <2> QED
    BY <2>1, Bounds DEF Shapes, TypeOK
<1>1. ASSUME NEW c \in Clients, Join(c) \/ Leave(c) PROVE BoundServed'
  BY <1>1, NoBounds DEF Join, Leave
<1>2. ASSUME NEW c \in Clients, Heartbeat(c) PROVE BoundServed'
  <2>1. \A d \in Clients : cred'[d].session = cred[d].session
    BY <1>2, <1>t DEF Heartbeat
  <2> QED
    BY <1>2, <2>1, ExpireBounds DEF Heartbeat, history
<1>3. ASSUME NEW m \in Members, Lapse(m) PROVE BoundServed'
  <2>1. Expiring'
    BY <1>3 DEF Lapse, Live, Expiring
  <2> QED
    BY <2>1 DEF BoundServed
<1>4. ASSUME Expand PROVE BoundServed'
  BY <1>4, NoBounds DEF Expand
<1>5. ASSUME NEW p \in Parts, Publish(p) \/ FetchFails(p) \/ ProcessFails(p) PROVE BoundServed'
  BY <1>5, QuietBounds DEF Publish, FetchFails, ProcessFails, group, history
<1>6. ASSUME NEW p \in Parts, NEW c \in Clients, NEW s, FetchBegin(c, p, s) PROVE BoundServed'
  BY <1>6, ExpireBounds DEF FetchBegin, history
<1>7. ASSUME NEW p \in Parts, NEW n \in 0..MaxRecords, FetchEnd(p, n) PROVE BoundServed'
  <2> DEFINE f == op[p]
  <2>1. /\ lapsed' = {} /\ session' = SessionNow /\ cred' = cred
        /\ bounds' = [BoundsNow EXCEPT ![p] = IF n > @ THEN n ELSE @]
        /\ served' = [served EXCEPT ![f.client][p] = IF n > @ THEN n ELSE @]
        /\ f.kind # "none" /\ Valid(f.client, f.cred, p)
    BY <1>7 DEF FetchEnd
  <2>2. /\ f.client \in Clients
        /\ \A c \in Clients : Holds(c, p) => c = f.client
    BY <2>1, ValidClient
  <2>3. \A c \in Clients, q \in Parts : Holds(c, q)' => Holds(c, q)
    BY <2>1, ExpireHolds
  <2>4. n \in Nat
    BY Bounds
  <2>5. ASSUME NEW c \in Clients, NEW q \in Parts, Holds(c, q)
        PROVE  BoundsNow[q] <= served[c][q]
    <3>1. CASE Expiring
      BY <3>1, <1>t DEF BoundsNow
    <3>2. CASE ~Expiring
      BY <3>2, <2>5 DEF BoundsNow, BoundServed
    <3> QED
      BY <3>1, <3>2
  <2>6. \A c \in Clients, q \in Parts : served[c][q] <= served'[c][q]
    BY <2>1, <2>2, <2>4, <1>t
  <2>7. served'[f.client][p] >= n
    BY <2>1, <2>2, <2>4, <1>t
  <2>8. ASSUME NEW c \in Clients, NEW q \in Parts, Holds(c, q)'
        PROVE  bounds'[q] <= served'[c][q]
    <3>1. Holds(c, q) /\ BoundsNow[q] <= served[c][q] /\ served[c][q] <= served'[c][q]
      BY <2>3, <2>5, <2>6, <2>8
    <3>2. served[c][q] \in Nat /\ served'[c][q] \in Nat /\ BoundsNow[q] \in Int
      BY <1>t
    <3>3. CASE q # p
      BY <3>1, <3>2, <3>3, <2>1, <1>t
    <3>4. CASE q = p
      <4>1. c = f.client
        BY <3>1, <3>4, <2>2
      <4>2. bounds'[p] = n \/ bounds'[p] = BoundsNow[p]
        BY <2>1, <1>t
      <4> QED
        BY <3>1, <3>2, <3>4, <4>1, <4>2, <2>7, <2>4
    <3> QED
      BY <3>3, <3>4
  <2> QED
    BY <2>8 DEF BoundServed
<1>8. ASSUME NEW p \in Parts, NEW c \in Clients, NEW n \in 0..MaxRecords, Commit(c, p, n) PROVE BoundServed'
  BY <1>8, ExpireBounds DEF Commit, history
<1>9. ASSUME NEW p \in Parts, NEW c \in Clients, NEW n \in 0..MaxRecords, Reset(c, p, n) PROVE BoundServed'
  <2>1. /\ lapsed' = {} /\ session' = SessionNow /\ UNCHANGED <<cred, served>>
        /\ bounds' = [BoundsNow EXCEPT ![p] = -1]
    BY <1>9 DEF Reset
  <2>2. \A d \in Clients, q \in Parts : Holds(d, q)' => Holds(d, q)
    BY <2>1, ExpireHolds
  <2>3. \A q \in Parts : bounds'[q] = -1 \/ (bounds'[q] = bounds[q] /\ ~Expiring)
    BY <2>1, <1>t DEF BoundsNow
  <2>4. \A d \in Clients, q \in Parts : -1 <= served[d][q]
    BY <1>t
  <2> QED
    BY <2>1, <2>2, <2>3, <2>4 DEF BoundServed
<1>10. ASSUME NEW p \in Parts, NEW c \in Clients, NEW t \in Txids, NEW n \in 0..MaxRecords, ProcessBegin(c, p, t, n)
       PROVE BoundServed'
  BY <1>10, ExpireBounds DEF ProcessBegin, history
<1>11. ASSUME NEW p \in Parts, ProcessEnd(p) PROVE BoundServed'
  BY <1>11, ExpireBounds DEF ProcessEnd, history
<1>12. ASSUME Restart PROVE BoundServed'
  BY <1>12, QuietBounds DEF Restart, group, history
<1>13. CASE UNCHANGED vars
  BY <1>13, QuietBounds DEF vars, history
<1> QED
  BY <1>1, <1>2, <1>3, <1>4, <1>5, <1>6, <1>7, <1>8, <1>9, <1>10, <1>11, <1>12, <1>13
     DEF Next, Membership, Delivery

-----------------------------------------------------------------------------
(***************************************************************************)
(* The theorems.                                                           *)
(***************************************************************************)

\* The invariant holds of a new group.
LEMMA InitIInv ==
  ASSUME Assumption, Init
  PROVE  IInv
<1>1. Shapes
  BY InitShapes
<1>2. txs = {} /\ handouts = {} /\ DeliveredOnce
  BY DEF Init, DeliveredOnce, ProcessedOnce, HandedOutOnce
<1>3. LockedCursor
  BY DEF Init, LockedCursor, NoOp
<1>4. SessionsUnique
  BY Bounds DEF Init, SessionsUnique, NoCred, NoOp
<1>5. BoundServed
  <2>1. \A c \in Clients, p \in Parts : bounds[p] <= served[c][p]
    BY DEF Init
  <2> QED
    BY <2>1 DEF BoundServed
<1> QED
  BY <1>1, <1>2, <1>3, <1>4, <1>5 DEF IInv

\* Every step keeps it.
LEMMA NextIInv ==
  ASSUME Assumption, IInv, [Next]_vars
  PROVE  IInv' /\ CursorStep
<1>1. Shapes /\ Ranges /\ DeliveredOnce /\ LockedCursor /\ SessionsUnique /\ BoundServed
  BY DEF IInv, Ranges
<1>2. Shapes'
  BY <1>1, NextShapes
<1>3. Ranges' /\ DeliveredOnce' /\ LockedCursor' /\ CursorStep
  BY <1>1, <1>2, NextDelivery
<1>4. SessionsUnique' /\ BoundServed'
  BY <1>1, <1>2, NextSessions, NextBounds
<1> QED
  BY <1>2, <1>3, <1>4 DEF IInv, Ranges

\* A step of a cursor is backed by what its client was served.
LEMMA NextServed ==
  ASSUME Assumption, IInv, IInv', [Next]_vars
  PROVE  ServedAdvance
<1>t. /\ Shapes /\ Shapes' /\ SessionsUnique /\ BoundServed
      /\ cursor \in [Parts -> Nat] /\ bounds \in [Parts -> Int]
      /\ served \in [Clients -> [Parts -> Nat]]
      /\ served' \in [Clients -> [Parts -> Nat]]
      /\ op \in [Parts -> Operations]
      /\ era \in [Parts -> Nat]
  BY Bounds DEF IInv, Shapes, TypeOK
<1>v. ASSUME NEW p \in Parts, NEW c \in Clients, NEW k, NEW n \in Nat, n > cursor[p],
             Committable(c, k, p, n), Known(c, cred[c])
      PROVE  served[c][p] >= n
  <2>1. n <= BoundsNow[p]
    BY <1>v DEF Committable
  <2>2. ~Expiring
    BY <1>v, <2>1, <1>t DEF BoundsNow
  <2>3. BoundsNow[p] = bounds[p] /\ bounds[p] <= served[c][p]
    BY <1>v, <2>2, <1>t DEF BoundsNow, BoundServed, Holds, Committable, Valid
  <2> QED
    BY <2>1, <2>3, <1>t
<1>1. CASE cursor' = cursor
  BY <1>1, <1>t DEF ServedAdvance
<1>2. ASSUME NEW p \in Parts, NEW n \in 0..MaxRecords, FetchEnd(p, n) PROVE ServedAdvance
  <2> DEFINE f == op[p]
  <2>1. /\ cursor' = cursor \/ cursor' = [cursor EXCEPT ![p] = n]
        /\ served' = [served EXCEPT ![f.client][p] = IF n > @ THEN n ELSE @]
        /\ f.kind # "none" /\ Valid(f.client, f.cred, p)
    BY <1>2 DEF FetchEnd
  <2>2. f.client \in Clients /\ Known(f.client, cred[f.client])
    BY <2>1, <1>t, ValidClient
  <2>3. served'[f.client][p] >= n
    BY <2>1, <2>2, <1>t, Bounds
  <2>4. \A q \in Parts : cursor'[q] > cursor[q] => q = p /\ cursor'[q] = n
    BY <2>1, <1>t
  <2> QED
    BY <2>2, <2>3, <2>4 DEF ServedAdvance
<1>3. ASSUME NEW p \in Parts, NEW c \in Clients, NEW n \in 0..MaxRecords, Commit(c, p, n) PROVE ServedAdvance
  <2>1. cursor' = [cursor EXCEPT ![p] = n] /\ served' = served /\ Committable(c, cred[c], p, n)
    BY <1>3 DEF Commit, history
  <2>2. Known(c, cred[c]) /\ n \in Nat
    BY <2>1, Bounds DEF Committable, Valid
  <2>3. n > cursor[p] => served[c][p] >= n
    BY <2>1, <2>2, <1>v
  <2>4. \A q \in Parts : cursor'[q] > cursor[q] => q = p /\ cursor'[q] = n
    BY <2>1, <1>t
  <2> QED
    BY <2>1, <2>2, <2>3, <2>4 DEF ServedAdvance
<1>4. ASSUME NEW p \in Parts, NEW c \in Clients, NEW n \in 0..MaxRecords, Reset(c, p, n) PROVE ServedAdvance
  <2>1. cursor' = [cursor EXCEPT ![p] = n] /\ era' = [era EXCEPT ![p] = @ + 1]
    BY <1>4 DEF Reset
  <2>2. \A q \in Parts : cursor'[q] > cursor[q] => era'[q] # era[q]
    BY <2>1, <1>t
  <2> QED
    BY <2>2 DEF ServedAdvance
<1>5. ASSUME NEW p \in Parts, ProcessEnd(p) PROVE ServedAdvance
  <2> DEFINE f == op[p]
  <2>1. /\ cursor' = [cursor EXCEPT ![p] = f.to] /\ served' = served
        /\ f.kind = "process" /\ Committable(f.client, f.cred, p, f.to)
    BY <1>5 DEF ProcessEnd, history
  <2>2. f.client \in Clients /\ Known(f.client, cred[f.client])
    BY <2>1, <1>t, ValidClient DEF Committable
  <2>3. f.to \in Nat
    BY <2>1, <1>t DEF Operations, NoOp
  <2>4. f.to > cursor[p] => served[f.client][p] >= f.to
    BY <2>1, <2>2, <2>3, <1>v
  <2>5. \A q \in Parts : cursor'[q] > cursor[q] => q = p /\ cursor'[q] = f.to
    BY <2>1, <1>t
  <2> QED
    BY <2>1, <2>2, <2>4, <2>5 DEF ServedAdvance
<1>6. ASSUME NEW c \in Clients, Join(c) \/ Heartbeat(c) \/ Leave(c) PROVE cursor' = cursor
  BY <1>6 DEF Join, Heartbeat, Leave
<1>7. ASSUME NEW m \in Members, Lapse(m) PROVE cursor' = cursor
  BY <1>7 DEF Lapse
<1>8. Expand \/ Restart \/ UNCHANGED vars => cursor' = cursor
  BY DEF Expand, Restart, vars
<1>9. ASSUME NEW p \in Parts, NEW c \in Clients, NEW s, FetchBegin(c, p, s) PROVE cursor' = cursor
  BY <1>9 DEF FetchBegin
<1>10. ASSUME NEW p \in Parts, Publish(p) \/ FetchFails(p) \/ ProcessFails(p) PROVE cursor' = cursor
  BY <1>10 DEF Publish, FetchFails, ProcessFails
<1>11. ASSUME NEW p \in Parts, NEW c \in Clients, NEW t \in Txids, NEW n \in 0..MaxRecords, ProcessBegin(c, p, t, n)
       PROVE cursor' = cursor
  BY <1>11 DEF ProcessBegin
<1> QED
  BY <1>1, <1>2, <1>3, <1>4, <1>5, <1>6, <1>7, <1>8, <1>9, <1>10, <1>11 DEF Next, Membership, Delivery

\* The inductive invariant of the group holds in every reachable state.
THEOREM GroupInvariant ==
  ASSUME Assumption
  PROVE  Spec => []IInv
<1>1. Init => IInv
  BY InitIInv
<1>2. IInv /\ [Next]_vars => IInv'
  BY NextIInv
<1> QED
  BY <1>1, <1>2, PTL DEF Spec

\* Cursors and delivery bounds stay within the committed records, and no record
\* is consumed by two transactions or handed out twice under at_most_once: for
\* any number of clients, partitions and records, through joins, expiry,
\* rebalances and restarts between the two validations of a fetch or of a
\* transaction (_group_fetch, _process).
THEOREM EachDeliveredOnce ==
  ASSUME Assumption
  PROVE  Spec => [](TypeOK /\ DeliveredOnce)
<1>1. IInv => TypeOK /\ DeliveredOnce
  BY DEF IInv, Shapes
<1> QED
  BY <1>1, GroupInvariant, PTL

\* A cursor goes back only by a reset, and advances only over records served in
\* its session to a client that is in the group at that moment (_validate_commit).
THEOREM CursorSteps ==
  ASSUME Assumption
  PROVE  Spec => CursorMonotone /\ AdvanceWasServed
<1>1. IInv /\ IInv' /\ [Next]_vars => [\A p \in Parts : cursor'[p] < cursor[p] => era'[p] > era[p]]_vars
  <2> SUFFICES ASSUME IInv, [Next]_vars, NEW p \in Parts, cursor'[p] < cursor[p]
               PROVE  era'[p] > era[p]
    OBVIOUS
  <2>1. CursorStep /\ IInv'
    BY NextIInv
  <2>2. cursor[p] \in Nat /\ cursor'[p] \in Nat
    BY <2>1, Bounds DEF IInv, Shapes, TypeOK
  <2> QED
    BY <2>1, <2>2 DEF CursorStep
<1>2. IInv /\ IInv' /\ [Next]_vars => [ServedAdvance]_vars
  BY NextServed
<1>3. Spec => []IInv
  BY GroupInvariant
<1> QED
  BY <1>1, <1>2, <1>3, PTL DEF Spec, CursorMonotone, AdvanceWasServed

-----------------------------------------------------------------------------
(***************************************************************************)
(* The partition.                                                          *)
(*                                                                         *)
(* A majority of the brokers keeps every committed batch, for any brokers, *)
(* producers, batches, elections, expiry, late requests and failures.      *)
(*                                                                         *)
(* The argument: a request carries the history of its time and one batch   *)
(* more, so what it has below its checkpoint is the history of now.  A     *)
(* broker's checkpoint never goes back, and its log ends at most one batch *)
(* above it; a request that the broker accepts is therefore as long as the *)
(* log that it replaces.  Only a torn write, or the batch of an abandoned  *)
(* transaction, can take a batch away, and only the one above the          *)
(* checkpoint.                                                             *)
(***************************************************************************)

\* The first k records of s are those of t.
Agree(s, t, k) == k <= Len(s) /\ k <= Len(t) /\ \A i \in 1..k : s[i] = t[i]

\* The history and the journalled batch.
Ahead == IF pending = NoBatch THEN hist ELSE Append(hist, pending)

PartitionShapes ==
  /\ PartitionTypeOK
  /\ pop \in [pc : {"idle", "elect", "send"}, acks : {"all", "leader"}, todo : SUBSET Brokers,
              synced : SUBSET Brokers, call : net \cup {NoRequest}]
  /\ pop.pc # "idle" => pending # NoBatch
  /\ pop.call # NoRequest => pop.pc = "send"

\* A broker's log ends at its checkpoint or one batch above it.
BrokersAgree ==
  \A b \in Brokers :
    /\ broker[b].base <= broker[b].committed
    /\ Agree(broker[b].log, hist, broker[b].committed)
    /\ Len(broker[b].log) <= broker[b].committed + 1

\* A request has the history of its time, and one batch more.
RequestsAgree ==
  \A m \in net :
    /\ m.base <= m.committed
    /\ Len(m.log) = m.committed + 1
    /\ Agree(m.log, hist, m.committed)

\* What the running replication has sent, and where it was acknowledged.
RoundAgrees ==
  /\ pop.call # NoRequest => pop.call.committed = Len(hist) /\ pop.call.log = Append(hist, pending)
  /\ \A b \in pop.synced : broker[b].committed >= Len(hist)

Settled == {b \in Brokers : broker[b].committed >= Len(hist) - 1}
MajoritySettled == hist # <<>> => Cardinality(Settled) >= Majority

\* Without an abandoned stage or a torn write every log is a part of one history.
Complete == {b \in Brokers : Len(broker[b].log) >= Len(hist)}
OneHistory ==
  aborts = 0 /\ crashes = 0 =>
    /\ \A b \in Brokers : Agree(broker[b].log, Ahead, Len(broker[b].log))
    /\ \A m \in net : Agree(m.log, Ahead, Len(m.log))
    /\ \A b \in pop.synced : Len(broker[b].log) > Len(hist)
    /\ Cardinality(Complete) >= Majority

LogIInv == PartitionShapes /\ BrokersAgree /\ RequestsAgree /\ RoundAgrees /\ MajoritySettled /\ OneHistory

\* Sequences of the producers: those of the history are below the next one, those
\* of the journalled batch are the next one.
SequencesUsed ==
  \A i \in 1..Len(hist), p \in Producers, e \in 0..MaxPid :
    hist[i].producer = p /\ hist[i].pid = e => e <= pid[p] /\ hist[i].seq < Expected(p, e)
PendingIsNext ==
  pending # NoBatch /\ pending.producer # NoTx =>
    /\ pending.pid <= pid[pending.producer]
    /\ pending.seq = Expected(pending.producer, pending.pid)
    /\ \A i \in 1..Len(hist) : hist[i].producer = pending.producer => hist[i].pid <= pending.pid

SequenceIInv == ExactlyOnceInOrder /\ SequencesUsed /\ PendingIsNext

-----------------------------------------------------------------------------

\* The first k records.
LEMMA PrefixIs ==
  ASSUME NEW S, NEW s \in Seq(S), NEW k \in Nat, k <= Len(s)
  PROVE  SubSeq(s, 1, k) \in Seq(S) /\ Len(SubSeq(s, 1, k)) = k /\ \A i \in 1..k : SubSeq(s, 1, k)[i] = s[i]
<1>1. \A i \in 1..k : s[i] \in S
  OBVIOUS
<1> DEFINE a == SubSeq(s, 1, k)
<1>2. /\ a \in Seq(S) /\ Len(a) = (IF 1 <= k THEN k - 1 + 1 ELSE 0) /\ \A i \in 1..(k - 1 + 1) : a[i] = s[1 + i - 1]
  BY <1>1, SubSeqProperties
<1> HIDE DEF a
<1>3. a \in Seq(S) /\ Len(a) = k /\ \A i \in 1..k : a[i] = s[i]
  BY <1>2
<1> QED
  BY <1>3 DEF a

\* Equal prefixes, record by record.
LEMMA PrefixAgree ==
  ASSUME NEW S, NEW s \in Seq(S), NEW t \in Seq(S), NEW k \in Nat, k <= Len(s), k <= Len(t)
  PROVE  SubSeq(s, 1, k) = SubSeq(t, 1, k) <=> Agree(s, t, k)
<1> DEFINE a == SubSeq(s, 1, k)
           b == SubSeq(t, 1, k)
<1>1. /\ a \in Seq(S) /\ Len(a) = k /\ \A i \in 1..k : a[i] = s[i]
      /\ b \in Seq(S) /\ Len(b) = k /\ \A i \in 1..k : b[i] = t[i]
  BY PrefixIs
<1> HIDE DEF a, b
<1>2. ASSUME a = b PROVE \A i \in 1..k : s[i] = t[i]
  BY <1>1, <1>2
<1>3. ASSUME \A i \in 1..k : s[i] = t[i] PROVE a = b
  <2>1. \A i \in 1..k : a[i] = b[i]
    BY <1>1, <1>3
  <2> QED
    BY <1>1, <2>1, SeqEqual
<1> QED
  BY <1>2, <1>3 DEF a, b, Agree

\* More brokers are still a majority.
LEMMA MajorityMore ==
  ASSUME PartitionAssumption, NEW A, NEW B, A \subseteq B, B \subseteq Brokers, Cardinality(A) >= Majority
  PROVE  Cardinality(B) >= Majority
<1>1. IsFiniteSet(B) /\ IsFiniteSet(Brokers)
  BY FS_Subset DEF PartitionAssumption
<1>2. IsFiniteSet(A) /\ Cardinality(A) <= Cardinality(B)
  BY <1>1, FS_Subset
<1>3. Cardinality(A) \in Nat /\ Cardinality(B) \in Nat /\ Cardinality(Brokers) \in Nat
  BY <1>1, <1>2, FS_CardinalityType
<1>4. Majority \in Int
  BY <1>3 DEF Majority
<1> QED
  BY <1>2, <1>3, <1>4

\* The types that the steps use most.
LEMMA Typed ==
  ASSUME PartitionAssumption, LogIInv
  PROVE  /\ hist \in Seq(Batch) /\ Len(hist) \in Nat /\ net \subseteq Request
         /\ \A b \in Brokers : /\ broker[b] \in Log /\ broker[b].log \in Seq(Batch) /\ Len(broker[b].log) \in Nat
                               /\ broker[b].base \in Nat /\ broker[b].committed \in Nat /\ broker[b].epoch \in Nat
         /\ \A m \in net : /\ m.to \in Brokers /\ m.log \in Seq(Batch) /\ Len(m.log) \in Nat /\ m # NoRequest
                           /\ m.base \in Nat /\ m.committed \in Nat /\ m.epoch \in Nat
                           /\ m.kind \in {"sync", "install"}
         /\ pending # NoBatch => pending \in Batch
         /\ pop = [pc |-> pop.pc, acks |-> pop.acks, todo |-> pop.todo, synced |-> pop.synced, call |-> pop.call]
         /\ pop.todo \subseteq Brokers /\ pop.synced \subseteq Brokers /\ pop.call \in net \cup {NoRequest}
<1>1. PartitionTypeOK
  BY DEF LogIInv, PartitionShapes
<1>2. hist \in Seq(Batch) /\ Len(hist) \in Nat /\ net \subseteq Request
  BY <1>1 DEF PartitionTypeOK
<1>3. ASSUME NEW b \in Brokers
      PROVE  /\ broker[b] \in Log /\ broker[b].log \in Seq(Batch) /\ Len(broker[b].log) \in Nat
             /\ broker[b].base \in Nat /\ broker[b].committed \in Nat /\ broker[b].epoch \in Nat
  BY SMTT(60), <1>1 DEF PartitionTypeOK, Log
<1>4. ASSUME NEW m \in net
      PROVE  /\ m.to \in Brokers /\ m.log \in Seq(Batch) /\ Len(m.log) \in Nat /\ m # NoRequest
             /\ m.base \in Nat /\ m.committed \in Nat /\ m.epoch \in Nat
             /\ m.kind \in {"sync", "install"}
  BY <1>2 DEF Request, NoRequest
<1>5. /\ pending # NoBatch => pending \in Batch
      /\ pop = [pc |-> pop.pc, acks |-> pop.acks, todo |-> pop.todo, synced |-> pop.synced, call |-> pop.call]
      /\ pop.todo \subseteq Brokers /\ pop.synced \subseteq Brokers /\ pop.call \in net \cup {NoRequest}
  BY <1>1 DEF PartitionTypeOK, LogIInv, PartitionShapes
<1> QED
  BY <1>2, <1>3, <1>4, <1>5

\* What has been journalled after the history.
LEMMA AheadIs ==
  ASSUME PartitionAssumption, LogIInv
  PROVE  /\ Ahead \in Seq(Batch) /\ Len(Ahead) \in {Len(hist), Len(hist) + 1} /\ Agree(hist, Ahead, Len(hist))
         /\ pending # NoBatch => Ahead = Append(hist, pending) /\ Len(Ahead) = Len(hist) + 1
         /\ pending = NoBatch => Ahead = hist
<1>1. hist \in Seq(Batch) /\ Len(hist) \in Nat /\ (pending # NoBatch => pending \in Batch)
  BY Typed
<1> QED
  BY <1>1 DEF Ahead, Agree

-----------------------------------------------------------------------------
(***************************************************************************)
(* What a step may do to the logs.                                         *)
(***************************************************************************)

\* Checkpoints that do not go back leave a majority settled.
LEMMA SettledKept ==
  ASSUME PartitionAssumption, LogIInv, hist' = hist,
         \A b \in Brokers : broker'[b].committed \in Nat /\ broker'[b].committed >= broker[b].committed
  PROVE  MajoritySettled'
<1>1. Settled \subseteq Settled' /\ Settled' \subseteq Brokers
  BY Typed DEF Settled
<1>2. hist # <<>> => Cardinality(Settled) >= Majority
  BY DEF LogIInv, MajoritySettled
<1>3. hist # <<>> => Cardinality(Settled') >= Majority
  BY <1>1, <1>2, MajorityMore
<1> QED
  BY <1>3 DEF MajoritySettled

\* So do logs that only grow along the one history.
LEMMA HistoryKept ==
  ASSUME PartitionAssumption, LogIInv, hist' = hist, aborts' = 0 /\ crashes' = 0 => aborts = 0 /\ crashes = 0,
         ASSUME aborts' = 0, crashes' = 0
         PROVE  /\ pending = NoBatch \/ pending' = pending
                /\ pending' = NoBatch \/ pending' \in Batch
                /\ \A b \in Brokers : /\ Len(broker'[b].log) \in Nat /\ Len(broker'[b].log) >= Len(broker[b].log)
                                      /\ broker'[b].log = broker[b].log \/ \E m \in net : broker'[b].log = m.log
                /\ \A m \in net' : m \in net \/ (pending # NoBatch /\ m.log = Append(hist, pending))
                /\ \A b \in pop'.synced : Len(broker'[b].log) > Len(hist)
  PROVE  OneHistory'
<1> SUFFICES ASSUME aborts' = 0, crashes' = 0
             PROVE  /\ \A b \in Brokers : Agree(broker'[b].log, Ahead', Len(broker'[b].log))
                    /\ \A m \in net' : Agree(m.log, Ahead', Len(m.log))
                    /\ \A b \in pop'.synced : Len(broker'[b].log) > Len(hist')
                    /\ Cardinality(Complete') >= Majority
  BY DEF OneHistory
<1>1. /\ \A b \in Brokers : Agree(broker[b].log, Ahead, Len(broker[b].log))
      /\ \A m \in net : Agree(m.log, Ahead, Len(m.log))
      /\ Cardinality(Complete) >= Majority
  BY DEF LogIInv, OneHistory
<1>2. hist \in Seq(Batch) /\ Len(hist) \in Nat
  BY Typed
<1>3. Ahead' \in Seq(Batch) /\ Ahead \in Seq(Batch) /\ Agree(Ahead, Ahead', Len(Ahead))
  <2>1. CASE pending' = pending
    <3>1. Ahead' = Ahead /\ Ahead \in Seq(Batch)
      BY <2>1, AheadIs DEF Ahead
    <3> QED
      BY <3>1 DEF Agree
  <2>2. CASE pending = NoBatch
    <3>1. Ahead = hist /\ Ahead' \in {hist, Append(hist, pending')}
      BY <2>2 DEF Ahead
    <3> QED
      BY <1>2, <3>1 DEF Agree, Ahead
  <2> QED
    BY <2>1, <2>2
<1>4. ASSUME NEW s, Len(s) \in Nat, Agree(s, Ahead, Len(s)) PROVE Agree(s, Ahead', Len(s))
  <2>1. Len(Ahead) \in Nat /\ Len(Ahead') \in Nat
    BY <1>3
  <2> QED
    BY <1>3, <1>4, <2>1 DEF Agree
<1>5. \A b \in Brokers : Agree(broker'[b].log, Ahead', Len(broker'[b].log))
  BY <1>1, <1>4
<1>6. ASSUME NEW m \in net' PROVE Agree(m.log, Ahead', Len(m.log))
  <2>1. CASE m \in net
    BY <1>1, <1>4, <2>1, Typed
  <2>2. CASE pending # NoBatch /\ m.log = Append(hist, pending)
    <3>1. m.log = Ahead /\ Len(Ahead) \in Nat
      BY <1>3, <2>2, AheadIs
    <3> QED
      BY <1>3, <3>1 
  <2> QED
    BY <2>1, <2>2
<1>7. Complete \subseteq Complete' /\ Complete' \subseteq Brokers
  BY <1>2, Typed DEF Complete
<1>8. Cardinality(Complete') >= Majority
  BY <1>1, <1>7, MajorityMore
<1> QED
  BY <1>5, <1>6, <1>8

\* A request that the broker accepts moves its checkpoint forward and is as long
\* as the log that it replaces; torn, it ends at the checkpoint.
LEMMA WriteEffect ==
  ASSUME PartitionAssumption, LogIInv, NEW m \in net, Accepts(broker[m.to], m),
         NEW w \in {Written(m), Torn(m)}
  PROVE  /\ w \in Log /\ w.base <= w.committed /\ w.committed = m.committed /\ w.base = m.base
         /\ w.committed >= broker[m.to].committed
         /\ Agree(w.log, hist, w.committed) /\ Len(w.log) <= w.committed + 1 /\ Len(w.log) \in Nat
         /\ w = Written(m) => w.log = m.log /\ Len(w.log) = m.committed + 1 /\ Len(w.log) >= Len(broker[m.to].log)
<1>1. /\ m.to \in Brokers /\ m.log \in Seq(Batch) /\ Len(m.log) \in Nat
      /\ m.base \in Nat /\ m.committed \in Nat /\ m.epoch \in Nat /\ m.kind \in {"sync", "install"}
      /\ Len(broker[m.to].log) \in Nat /\ broker[m.to].committed \in Nat
  BY Typed
<1>2. m.base <= m.committed /\ Len(m.log) = m.committed + 1 /\ Agree(m.log, hist, m.committed)
  BY DEF LogIInv, RequestsAgree
<1>3. broker[m.to].committed <= m.committed /\ Len(broker[m.to].log) <= broker[m.to].committed + 1
  BY <1>1 DEF Accepts, SyncAccepts, InstallAccepts, LogIInv, BrokersAgree
<1>4. Written(m) = [log |-> m.log, base |-> m.base, committed |-> m.committed, epoch |-> m.epoch]
  BY DEF Written
<1>5. CASE w = Written(m)
  <2>1. w.log = m.log /\ w.base = m.base /\ w.committed = m.committed /\ w \in Log
    BY <1>1, <1>4, <1>5 DEF Log
  <2> QED
    BY SMTT(60), <1>1, <1>2, <1>3, <2>1
<1>6. CASE w = Torn(m) /\ w # Written(m)
  <2> DEFINE c == SubSeq(m.log, 1, m.committed)
  <2>0. m.committed <= Len(m.log)
    BY <1>1, <1>2
  <2>1. w = [log |-> c, base |-> m.base, committed |-> m.committed, epoch |-> m.epoch]
    <3>1. w = [Written(m) EXCEPT !.log = c]
      BY <1>6 DEF Torn
    <3> HIDE DEF c
    <3> QED
      BY <1>4, <3>1
  <2>2. c \in Seq(Batch) /\ Len(c) = m.committed /\ \A i \in 1..m.committed : c[i] = m.log[i]
    BY <1>1, <2>0, PrefixIs
  <2> HIDE DEF c
  <2>3. w.log = c /\ w.base = m.base /\ w.committed = m.committed /\ w \in Log
    BY <1>1, <2>1, <2>2 DEF Log
  <2>4. Agree(c, hist, m.committed)
    <3>1. m.committed <= Len(hist) /\ \A i \in 1..m.committed : m.log[i] = hist[i]
      BY <1>2 DEF Agree
    <3>2. m.committed <= Len(c)
      BY <1>1, <2>2
    <3> QED
      BY <2>2, <3>1, <3>2 DEF Agree
  <2> QED
    BY <1>1, <1>2, <1>3, <1>6, <2>2, <2>3, <2>4
<1> QED
  BY <1>5, <1>6

-----------------------------------------------------------------------------
(***************************************************************************)
(* Steps that leave the logs alone.                                        *)
(***************************************************************************)

\* The logs stay, requests are only forgotten, and the lock's holder keeps what
\* it knows or starts afresh.
LEMMA QuietStep ==
  ASSUME PartitionAssumption, LogIInv, PartitionShapes', hist' = hist, broker' = broker, net' \subseteq net,
         pop'.synced \subseteq pop.synced,
         pop'.call # NoRequest => pop'.call = pop.call /\ pending' = pending,
         aborts' = 0 /\ crashes' = 0 => aborts = 0 /\ crashes = 0 /\ (pending = NoBatch \/ pending' = pending)
  PROVE  LogIInv'
<1>1. BrokersAgree' /\ RequestsAgree'
  BY DEF LogIInv, BrokersAgree, RequestsAgree
<1>2. RoundAgrees'
  <2>1. \A b \in pop'.synced : broker'[b].committed >= Len(hist')
    BY DEF LogIInv, RoundAgrees
  <2>2. pop'.call # NoRequest => pop'.call.committed = Len(hist') /\ pop'.call.log = Append(hist', pending')
    BY DEF LogIInv, RoundAgrees
  <2> QED
    BY <2>1, <2>2 DEF RoundAgrees
<1>3. MajoritySettled'
  <2>1. \A b \in Brokers : broker'[b].committed \in Nat /\ broker'[b].committed >= broker[b].committed
    BY Typed
  <2> QED
    BY <2>1, SettledKept
<1>4. OneHistory'
  <2>1. pending' = NoBatch \/ pending' \in Batch
    BY DEF PartitionShapes, PartitionTypeOK
  <2>2. \A b \in Brokers : /\ Len(broker'[b].log) \in Nat /\ Len(broker'[b].log) >= Len(broker[b].log)
                           /\ broker'[b].log = broker[b].log \/ \E m \in net : broker'[b].log = m.log
    BY Typed
  <2>3. ASSUME aborts' = 0, crashes' = 0
        PROVE  \A b \in pop'.synced : Len(broker'[b].log) > Len(hist)
    BY <2>3 DEF LogIInv, OneHistory
  <2> QED
    BY <2>1, <2>2, <2>3, HistoryKept
<1> QED
  BY <1>1, <1>2, <1>3, <1>4 DEF LogIInv

\* Elect, and a fetch that elects.
LEMMA ElectStep ==
  ASSUME PartitionAssumption, LogIInv, NEW b \in Brokers, Elect(b) \/ Fetch(b)
  PROVE  LogIInv'
<1>1. /\ UNCHANGED <<hist, floor, pending, pid, receipts, cleanup, broker, net, bound>>
      /\ leader' = b /\ epoch' \in {epoch, epoch + 1} /\ (epoch' # epoch => epoch < MaxEpoch)
  BY DEF Elect, Fetch, Elects
<1>2. PartitionTypeOK /\ MaxEpoch \in Nat
  BY DEF LogIInv, PartitionShapes, PartitionAssumption
<1>3. epoch' \in 0..MaxEpoch
  BY <1>1, <1>2 DEF PartitionTypeOK
<1>4. \/ pop' = pop
      \/ pop' = [pop EXCEPT !.pc = "send", !.todo = Brokers, !.synced = {}] /\ pop.pc = "elect"
  BY DEF Elect, Fetch
<1>5. pop'.call = pop.call /\ pop'.synced \subseteq pop.synced
  BY <1>4, Typed
<1>6. PartitionShapes'
  <2>1. CASE pop' = pop
    BY <1>1, <1>2, <1>3, <2>1 DEF PartitionShapes, PartitionTypeOK, LogIInv, bound
  <2>2. CASE pop' = [pop EXCEPT !.pc = "send", !.todo = Brokers, !.synced = {}] /\ pop.pc = "elect"
    <3>1. /\ pop' \in [pc : {"idle", "elect", "send"}, acks : {"all", "leader"}, todo : SUBSET Brokers,
                       synced : SUBSET Brokers, call : net \cup {NoRequest}]
          /\ pop'.pc = "send" /\ pop'.todo = Brokers /\ pop'.synced = {} /\ pop'.call \in net \cup {NoRequest}
      BY <2>2 DEF LogIInv, PartitionShapes
    <3>2. pending # NoBatch
      BY <2>2 DEF LogIInv, PartitionShapes
    <3> QED
      BY <1>1, <1>2, <1>3, <3>1, <3>2 DEF PartitionShapes, PartitionTypeOK, bound
  <2> QED
    BY <1>4, <2>1, <2>2
<1> QED
  BY <1>1, <1>5, <1>6, QuietStep DEF bound

\* The lock is free again.
LEMMA IdleShape ==
        /\ Idle \in [pc : {"idle", "elect", "send"}, acks : {"all", "leader"}, todo : SUBSET Brokers,
                     synced : SUBSET Brokers, call : net' \cup {NoRequest}]
        /\ Idle.pc = "idle" /\ Idle.todo = {} /\ Idle.synced = {} /\ Idle.call = NoRequest
BY DEF Idle

\* A new replication is about to elect.
LEMMA ReplicatingShape ==
  ASSUME NEW acks \in {"all", "leader"}
  PROVE  /\ Replicating(acks) \in [pc : {"idle", "elect", "send"}, acks : {"all", "leader"}, todo : SUBSET Brokers,
                                   synced : SUBSET Brokers, call : net' \cup {NoRequest}]
         /\ Replicating(acks).pc = "elect" /\ Replicating(acks).todo = {}
         /\ Replicating(acks).synced = {} /\ Replicating(acks).call = NoRequest
BY DEF Replicating, Idle

\* A replication that fails, and an abandoned stage.
LEMMA FailStep ==
  ASSUME PartitionAssumption, LogIInv, Fails \/ AbortTx
  PROVE  LogIInv'
<1>1. /\ UNCHANGED <<hist, floor, leader, epoch, pid, receipts, cleanup, broker, net, crashes>>
      /\ pop' = Idle
      /\ \/ pending' = pending /\ aborts' = aborts
         \/ pending' = NoBatch /\ aborts < MaxAborts /\ aborts' = aborts + 1
  BY DEF Fails, AbortTx, meta, bound
<1>2. PartitionTypeOK /\ MaxAborts \in Nat
  BY DEF LogIInv, PartitionShapes, PartitionAssumption
<1>3. aborts' \in 0..MaxAborts /\ aborts \in Nat
  BY <1>1, <1>2 DEF PartitionTypeOK
<1>4. pop'.call = NoRequest /\ pop'.synced = {}
  BY <1>1, IdleShape
<1>5. PartitionShapes'
  BY <1>1, <1>2, <1>3, IdleShape DEF PartitionShapes, PartitionTypeOK
<1> QED
  BY <1>1, <1>3, <1>4, <1>5, QuietStep

\* A restart drops an unfinished stage and nothing else.
LEMMA RestartStep ==
  ASSUME PartitionAssumption, LogIInv, PartitionRestart
  PROVE  LogIInv'
<1>1. /\ UNCHANGED <<hist, floor, leader, epoch, pid, receipts, cleanup, broker, net, aborts>>
      /\ pop' = Idle /\ pending' \in {pending, NoBatch} /\ crashes < MaxCrashes /\ crashes' = crashes + 1
  BY DEF PartitionRestart
<1>2. PartitionTypeOK /\ MaxCrashes \in Nat
  BY DEF LogIInv, PartitionShapes, PartitionAssumption
<1>3. crashes' \in 0..MaxCrashes /\ crashes \in Nat
  BY <1>1, <1>2 DEF PartitionTypeOK
<1>4. pop'.call = NoRequest /\ pop'.synced = {}
  BY <1>1, IdleShape
<1>5. PartitionShapes'
  BY <1>1, <1>2, <1>3, IdleShape DEF PartitionShapes, PartitionTypeOK
<1> QED
  BY <1>1, <1>3, <1>4, <1>5, QuietStep

\* A new batch, a retried one and the output of a transaction.
LEMMA JournalStep ==
  ASSUME PartitionAssumption, LogIInv, NEW acks \in {"all", "leader"},
         UNCHANGED <<hist, floor, leader, epoch, pid, receipts, cleanup, broker, net, bound>>,
         pop' = Replicating(acks),
         \/ pending' = pending /\ pending # NoBatch
         \/ pending = NoBatch /\ pending' \in Batch
  PROVE  LogIInv'
<1>1. PartitionTypeOK
  BY DEF LogIInv, PartitionShapes
<1>2. pending' \in Batch /\ pending' # NoBatch
  BY <1>1 DEF PartitionTypeOK, PartitionAssumption
<1>3. pop'.call = NoRequest /\ pop'.synced = {}
  BY ReplicatingShape
<1>4. PartitionShapes'
  BY <1>1, <1>2, ReplicatingShape DEF PartitionShapes, PartitionTypeOK, bound
<1> QED
  BY <1>3, <1>4, QuietStep DEF bound

\* Opening a producer changes only its epoch.
LEMMA OpenStep ==
  ASSUME PartitionAssumption, LogIInv, NEW p \in Producers, OpenProducer(p)
  PROVE  LogIInv'
<1>1. /\ UNCHANGED <<hist, floor, leader, epoch, pending, receipts, cleanup, broker, pop, net, aborts, crashes>>
      /\ pid' = [pid EXCEPT ![p] = @ + 1] /\ pid[p] < MaxPid
  BY DEF OpenProducer, bound
<1>2. PartitionTypeOK /\ MaxPid \in Nat
  BY DEF LogIInv, PartitionShapes, PartitionAssumption
<1>3. pid' \in [Producers -> -1..MaxPid]
  BY <1>1, <1>2 DEF PartitionTypeOK
<1>4. PartitionShapes'
  BY <1>1, <1>2, <1>3 DEF PartitionShapes, PartitionTypeOK, LogIInv
<1> QED
  BY <1>1, <1>4, QuietStep

\* The metadata's floor.
LEMMA RetainStep ==
  ASSUME PartitionAssumption, LogIInv, NEW k \in 1..Len(hist), Retain(k)
  PROVE  LogIInv'
<1>1. /\ UNCHANGED <<hist, leader, epoch, pending, pid, broker, pop, net, aborts, crashes>>
      /\ floor' = k /\ cleanup' = [b \in Brokers |-> k] /\ receipts' \subseteq receipts
  BY DEF Retain, bound
<1>2. PartitionTypeOK
  BY DEF LogIInv, PartitionShapes
<1>3. floor' \in 0..Len(hist') /\ cleanup' \in [Brokers -> 0..floor']
  BY <1>1, <1>2 DEF PartitionTypeOK
<1>4. PartitionShapes'
  BY <1>1, <1>2, <1>3 DEF PartitionShapes, PartitionTypeOK, LogIInv
<1> QED
  BY <1>1, <1>4, QuietStep

\* A broker that does not answer, and a late request that is refused.
LEMMA ForgetStep ==
  ASSUME PartitionAssumption, LogIInv, UNCHANGED <<meta, broker, bound>>,
         net' \subseteq net,
         \/ pop' = pop /\ pop.call \in net' \cup {NoRequest}
         \/ \E b \in Brokers : pop' = [pop EXCEPT !.call = NoRequest, !.todo = @ \ {b}]
  PROVE  LogIInv'
<1>1. PartitionTypeOK
  BY DEF LogIInv, PartitionShapes
<1>2. /\ UNCHANGED <<hist, floor, leader, epoch, pending, pid, receipts, cleanup, broker, aborts, crashes>>
      /\ net' \subseteq Request
  BY <1>1 DEF meta, bound, PartitionTypeOK
<1>3. /\ pop' \in [pc : {"idle", "elect", "send"}, acks : {"all", "leader"}, todo : SUBSET Brokers,
                   synced : SUBSET Brokers, call : net' \cup {NoRequest}]
      /\ pop'.pc = pop.pc /\ pop'.synced = pop.synced /\ pop'.call \in {pop.call, NoRequest}
      /\ pop'.todo \subseteq Brokers /\ pop'.call \in net' \cup {NoRequest}
  <2>1. pop \in [pc : {"idle", "elect", "send"}, acks : {"all", "leader"}, todo : SUBSET Brokers,
                 synced : SUBSET Brokers, call : net \cup {NoRequest}]
    BY DEF LogIInv, PartitionShapes
  <2>2. CASE pop' = pop /\ pop.call \in net' \cup {NoRequest}
    BY <2>1, <2>2
  <2>3. CASE \E b \in Brokers : pop' = [pop EXCEPT !.call = NoRequest, !.todo = @ \ {b}]
    BY <2>1, <2>3
  <2> QED
    BY <2>2, <2>3
<1>4. PartitionShapes'
  BY <1>1, <1>2, <1>3 DEF PartitionShapes, PartitionTypeOK, LogIInv
<1> QED
  BY <1>2, <1>3, <1>4, QuietStep

-----------------------------------------------------------------------------
(***************************************************************************)
(* Requests and what they write.                                           *)
(***************************************************************************)

\* A request carries the history of now and the journalled batch.
LEMMA SendStep ==
  ASSUME PartitionAssumption, LogIInv, NEW b \in Brokers, Send(b)
  PROVE  LogIInv'
<1>1. PICK m : /\ m \in {RequestTo(b, "sync"), RequestTo(b, "install")}
               /\ pop' = [pop EXCEPT !.call = m] /\ net' = net \cup {m}
  BY DEF Send
<1>2. /\ pop.pc = "send" /\ pop.call = NoRequest
      /\ UNCHANGED <<hist, floor, leader, epoch, pending, pid, receipts, cleanup, broker, aborts, crashes>>
  BY DEF Send, meta, bound
<1>3. PartitionTypeOK /\ pending \in Batch /\ pending # NoBatch
  BY <1>2 DEF LogIInv, PartitionShapes, PartitionTypeOK
<1>4. /\ hist \in Seq(Batch) /\ Len(hist) \in Nat /\ floor \in Nat /\ floor <= Len(hist) /\ epoch \in Nat
      /\ Append(hist, pending) \in Seq(Batch) /\ Len(Append(hist, pending)) = Len(hist) + 1
      /\ \A i \in 1..Len(hist) : Append(hist, pending)[i] = hist[i]
  BY <1>3, Typed DEF PartitionTypeOK
<1>5. /\ m \in Request /\ m.base = floor /\ m.committed = Len(hist) /\ m.log = Append(hist, pending)
      /\ m # NoRequest
  <2>1. PICK kind \in {"sync", "install"} : m = RequestTo(b, kind)
    BY <1>1
  <2>2. m = [kind |-> kind, to |-> b, epoch |-> epoch, base |-> floor, committed |-> Len(hist),
             log |-> Append(hist, pending)]
    BY <2>1 DEF RequestTo
  <2>3. m \in Request
    BY <1>4, <2>2 DEF Request
  <2>4. m.kind # NoRequest.kind
    BY <2>2 DEF NoRequest
  <2> QED
    BY <2>2, <2>3, <2>4
<1>6. PartitionShapes'
  <2>1. /\ pop' \in [pc : {"idle", "elect", "send"}, acks : {"all", "leader"}, todo : SUBSET Brokers,
                     synced : SUBSET Brokers, call : net' \cup {NoRequest}]
        /\ pop'.pc = "send" /\ pop'.todo \subseteq Brokers /\ pop'.synced \subseteq Brokers
        /\ pop'.call \in net' \cup {NoRequest}
    BY <1>1, <1>2 DEF LogIInv, PartitionShapes
  <2>2. net' \subseteq Request
    BY <1>1, <1>3, <1>5 DEF PartitionTypeOK
  <2> QED
    BY <1>2, <1>3, <2>1, <2>2 DEF PartitionShapes, PartitionTypeOK
<1>7. BrokersAgree'
  BY <1>2 DEF LogIInv, BrokersAgree
<1>8. RequestsAgree'
  <2>1. m.base <= m.committed /\ Len(m.log) = m.committed + 1 /\ Agree(m.log, hist, m.committed)
    BY <1>4, <1>5 DEF Agree
  <2> QED
    BY <1>1, <1>2, <2>1 DEF LogIInv, RequestsAgree
<1>9. pop'.call = m /\ pop'.synced = pop.synced
  BY <1>1, Typed
<1>10. RoundAgrees'
  BY <1>2, <1>5, <1>9 DEF LogIInv, RoundAgrees
<1>11. MajoritySettled'
  <2>1. \A c \in Brokers : broker'[c].committed \in Nat /\ broker'[c].committed >= broker[c].committed
    BY <1>2, Typed
  <2> QED
    BY <1>2, <2>1, SettledKept
<1>12. OneHistory'
  <2>1. \A c \in Brokers : /\ Len(broker'[c].log) \in Nat /\ Len(broker'[c].log) >= Len(broker[c].log)
                           /\ broker'[c].log = broker[c].log \/ \E n \in net : broker'[c].log = n.log
    BY <1>2, Typed
  <2>2. ASSUME aborts' = 0, crashes' = 0
        PROVE  \A c \in pop'.synced : Len(broker'[c].log) > Len(hist)
    BY <1>2, <1>9, <2>2 DEF LogIInv, OneHistory
  <2>3. \A n \in net' : n \in net \/ (pending # NoBatch /\ n.log = Append(hist, pending))
    BY <1>1, <1>3, <1>5
  <2> QED
    BY <1>2, <1>3, <2>1, <2>2, <2>3, HistoryKept
<1> QED
  BY <1>6, <1>7, <1>8, <1>10, <1>11, <1>12 DEF LogIInv

\* A broker executes a request, or is torn while it does.
LEMMA WriteStep ==
  ASSUME PartitionAssumption, LogIInv, NEW m \in net, Accepts(broker[m.to], m),
         NEW w \in {Written(m), Torn(m)}, broker' = [broker EXCEPT ![m.to] = w],
         UNCHANGED <<meta, aborts>>, net' = net \ {m},
         \/ crashes' = crashes /\ w = Written(m)
         \/ crashes < MaxCrashes /\ crashes' = crashes + 1,
         pop' \in [pc : {"idle", "elect", "send"}, acks : {"all", "leader"}, todo : SUBSET Brokers,
                   synced : SUBSET Brokers, call : net' \cup {NoRequest}],
         pop'.pc # "idle" => pop.pc # "idle",
         pop'.call # NoRequest => pop'.call = pop.call /\ pop'.pc = pop.pc,
         \A b \in pop'.synced : b \in pop.synced \/ (b = m.to /\ w = Written(m) /\ m = pop.call)
  PROVE  LogIInv'
<1>1. /\ w \in Log /\ w.base <= w.committed /\ w.committed = m.committed /\ w.base = m.base
      /\ w.committed >= broker[m.to].committed
      /\ Agree(w.log, hist, w.committed) /\ Len(w.log) <= w.committed + 1 /\ Len(w.log) \in Nat
      /\ w = Written(m) => w.log = m.log /\ Len(w.log) = m.committed + 1 /\ Len(w.log) >= Len(broker[m.to].log)
  BY WriteEffect
<1>2. PartitionTypeOK /\ m.to \in Brokers /\ MaxCrashes \in Nat /\ m # NoRequest
  BY Typed DEF LogIInv, PartitionShapes, PartitionAssumption
<1>3. /\ UNCHANGED <<hist, floor, leader, epoch, pending, pid, receipts, cleanup, aborts>>
      /\ broker'[m.to] = w /\ \A b \in Brokers : b # m.to => broker'[b] = broker[b]
      /\ broker' \in [Brokers -> Log]
  BY <1>1, <1>2 DEF meta, PartitionTypeOK
<1>4. crashes \in Nat /\ crashes' \in 0..MaxCrashes /\ (crashes' = 0 => crashes = 0 /\ w = Written(m))
  BY <1>2 DEF PartitionTypeOK
<1>5. PartitionShapes'
  <2>1. /\ pop'.pc \in {"idle", "elect", "send"} /\ pop'.todo \subseteq Brokers /\ pop'.synced \subseteq Brokers
        /\ pop'.call \in net' \cup {NoRequest}
    OBVIOUS
  <2>2. net' \subseteq Request
    BY <1>2 DEF PartitionTypeOK
  <2>3. PartitionTypeOK'
    BY <1>2, <1>3, <1>4, <2>1, <2>2 DEF PartitionTypeOK
  <2>4. (pop'.pc # "idle" => pending' # NoBatch) /\ (pop'.call # NoRequest => pop'.pc = "send")
    BY <1>3 DEF LogIInv, PartitionShapes
  <2> QED
    BY <2>3, <2>4 DEF PartitionShapes
<1>6. BrokersAgree'
  <2> SUFFICES ASSUME NEW b \in Brokers
               PROVE  /\ broker'[b].base <= broker'[b].committed
                      /\ Agree(broker'[b].log, hist', broker'[b].committed)
                      /\ Len(broker'[b].log) <= broker'[b].committed + 1
    BY DEF BrokersAgree
  <2>1. CASE b = m.to
    BY <1>1, <1>3, <2>1
  <2>2. CASE b # m.to
    BY <1>3, <2>2 DEF LogIInv, BrokersAgree
  <2> QED
    BY <2>1, <2>2
<1>7. RequestsAgree'
  BY <1>3 DEF LogIInv, RequestsAgree
<1>8. \A b \in Brokers : broker'[b].committed \in Nat /\ broker'[b].committed >= broker[b].committed
  <2> TAKE b \in Brokers
  <2>1. broker[b].committed \in Nat
    BY Typed
  <2>2. w.committed \in Nat
    BY <1>1 DEF Log
  <2> QED
    BY <1>1, <1>3, <2>1, <2>2
<1>9. RoundAgrees'
  <2>1. pop'.call # NoRequest => pop'.call.committed = Len(hist') /\ pop'.call.log = Append(hist', pending')
    BY <1>3 DEF LogIInv, RoundAgrees
  <2>2. ASSUME NEW b \in pop'.synced PROVE broker'[b].committed >= Len(hist')
    <3>1. b \in Brokers /\ Len(hist) \in Nat /\ broker[b].committed \in Nat
      BY Typed
    <3>2. CASE b \in pop.synced
      <4>1. broker[b].committed >= Len(hist)
        BY <3>2 DEF LogIInv, RoundAgrees
      <4> QED
        BY <1>3, <1>8, <3>1, <4>1
    <3>3. CASE b = m.to /\ m = pop.call
      <4>1. m.committed = Len(hist)
        BY <1>2, <3>3 DEF LogIInv, RoundAgrees
      <4> QED
        BY <1>1, <1>3, <3>1, <3>3, <4>1
    <3> QED
      BY <3>2, <3>3
  <2> QED
    BY <2>1, <2>2 DEF RoundAgrees
<1>10. MajoritySettled'
  BY <1>3, <1>8, SettledKept
<1>11. OneHistory'
  <2>1. ASSUME aborts' = 0, crashes' = 0
        PROVE  /\ \A b \in Brokers : /\ Len(broker'[b].log) \in Nat /\ Len(broker'[b].log) >= Len(broker[b].log)
                                     /\ broker'[b].log = broker[b].log \/ \E n \in net : broker'[b].log = n.log
               /\ \A b \in pop'.synced : Len(broker'[b].log) > Len(hist)
    <3>1. /\ aborts = 0 /\ crashes = 0 /\ w = Written(m)
          /\ w.log = m.log /\ Len(w.log) = m.committed + 1 /\ Len(w.log) >= Len(broker[m.to].log)
      BY <1>1, <1>3, <1>4, <2>1
    <3>2. ASSUME NEW b \in Brokers
          PROVE  /\ Len(broker'[b].log) \in Nat /\ Len(broker'[b].log) >= Len(broker[b].log)
                 /\ broker'[b].log = broker[b].log \/ \E n \in net : broker'[b].log = n.log
      <4>1. CASE b = m.to
        BY <1>1, <1>3, <3>1, <4>1
      <4>2. CASE b # m.to
        <5>1. broker'[b].log = broker[b].log /\ Len(broker[b].log) \in Nat
          BY <1>3, <4>2, Typed
        <5> QED
          BY <5>1
      <4> QED
        BY <4>1, <4>2
    <3>3. ASSUME NEW b \in pop'.synced PROVE Len(broker'[b].log) > Len(hist)
      <4>1. b \in Brokers /\ Len(hist) \in Nat /\ Len(broker[b].log) \in Nat /\ Len(broker'[b].log) \in Nat
        BY <3>2, Typed
      <4>2. CASE b \in pop.synced
        <5>1. Len(broker[b].log) > Len(hist)
          BY <3>1, <4>2 DEF LogIInv, OneHistory
        <5>2. Len(broker'[b].log) >= Len(broker[b].log)
          BY <3>2, <4>1
        <5> QED
          BY <4>1, <5>1, <5>2
      <4>3. CASE b = m.to /\ m = pop.call
        <5>1. m.committed = Len(hist)
          BY <1>2, <4>3 DEF LogIInv, RoundAgrees
        <5> QED
          BY <1>3, <3>1, <4>1, <4>3, <5>1
      <4> QED
        BY <4>2, <4>3
    <3> QED
      BY <3>2, <3>3
  <2>2. pending' = pending /\ (pending' = NoBatch \/ pending' \in Batch)
    BY <1>2, <1>3 DEF PartitionTypeOK
  <2>3. \A n \in net' : n \in net
    OBVIOUS
  <2>4. hist' = hist /\ (aborts' = 0 /\ crashes' = 0 => aborts = 0 /\ crashes = 0)
    BY <1>3, <1>4
  <2> QED
    BY <2>1, <2>2, <2>3, <2>4, HistoryKept
<1> QED
  BY <1>5, <1>6, <1>7, <1>9, <1>10, <1>11 DEF LogIInv

\* An acknowledged request.
LEMMA AcknowledgeStep ==
  ASSUME PartitionAssumption, LogIInv, Acknowledge
  PROVE  LogIInv'
<1> DEFINE m == pop.call
           p == [pop EXCEPT !.call = NoRequest, !.todo = @ \ {m.to}, !.synced = @ \cup {m.to}]
<1>1. /\ m # NoRequest /\ m \in net /\ Accepts(broker[m.to], m)
      /\ broker' = [broker EXCEPT ![m.to] = Written(m)]
      /\ net' = net \ {m} /\ pop' \in {Idle, p} /\ UNCHANGED <<meta, aborts>> /\ crashes' = crashes
  BY DEF Acknowledge, BrokerAfter, bound
<1>2. /\ p \in [pc : {"idle", "elect", "send"}, acks : {"all", "leader"}, todo : SUBSET Brokers,
                synced : SUBSET Brokers, call : net' \cup {NoRequest}]
      /\ p.pc = pop.pc /\ p.call = NoRequest /\ p.synced = pop.synced \cup {m.to}
  <2>1. m.to \in Brokers
    BY <1>1, Typed
  <2>2. pop \in [pc : {"idle", "elect", "send"}, acks : {"all", "leader"}, todo : SUBSET Brokers,
                 synced : SUBSET Brokers, call : net \cup {NoRequest}]
    BY DEF LogIInv, PartitionShapes
  <2> QED
    BY <2>1, <2>2
<1> HIDE DEF p
<1>3. /\ pop' \in [pc : {"idle", "elect", "send"}, acks : {"all", "leader"}, todo : SUBSET Brokers,
                   synced : SUBSET Brokers, call : net' \cup {NoRequest}]
      /\ pop'.pc # "idle" => pop.pc # "idle"
      /\ pop'.call = NoRequest
      /\ \A b \in pop'.synced : b \in pop.synced \/ b = m.to
  BY <1>1, <1>2, IdleShape
<1> QED
  BY <1>1, <1>3, WriteStep

\* A request that nobody waits for any more.
LEMMA LateStep ==
  ASSUME PartitionAssumption, LogIInv, NEW m \in net, DeliverLate(m) \/ TearLate(m)
  PROVE  LogIInv'
<1>0. /\ pop \in [pc : {"idle", "elect", "send"}, acks : {"all", "leader"}, todo : SUBSET Brokers,
                  synced : SUBSET Brokers, call : net \cup {NoRequest}]
      /\ m.to \in Brokers
  BY Typed DEF LogIInv, PartitionShapes
<1>1. CASE DeliverLate(m)
  <2>1. /\ m # pop.call /\ net' = net \ {m} /\ pop' = pop /\ UNCHANGED <<meta, bound>> /\ UNCHANGED <<meta, aborts>>
        /\ crashes' = crashes
    BY <1>1 DEF DeliverLate, bound
  <2>2. pop.call \in net' \cup {NoRequest}
    BY <1>0, <2>1
  <2>3. CASE Accepts(broker[m.to], m)
    <3>1. broker' = [broker EXCEPT ![m.to] = Written(m)]
      BY <1>1, <2>3 DEF DeliverLate, BrokerAfter
    <3>2. pop' \in [pc : {"idle", "elect", "send"}, acks : {"all", "leader"}, todo : SUBSET Brokers,
                    synced : SUBSET Brokers, call : net' \cup {NoRequest}]
      BY <1>0, <2>1, <2>2
    <3> QED
      BY <2>1, <2>3, <3>1, <3>2, WriteStep
  <2>4. CASE ~Accepts(broker[m.to], m)
    <3>1. broker' = broker
      BY <1>1, <2>4 DEF DeliverLate, BrokerAfter
    <3> QED
      BY <2>1, <2>2, <3>1, ForgetStep
  <2> QED
    BY <2>3, <2>4
<1>2. CASE TearLate(m)
  <2> DEFINE p == [pop EXCEPT !.call = NoRequest, !.todo = @ \ {m.to}]
  <2>1. /\ Accepts(broker[m.to], m) /\ broker' = [broker EXCEPT ![m.to] = Torn(m)]
        /\ net' = net \ {m} /\ crashes < MaxCrashes /\ crashes' = crashes + 1 /\ UNCHANGED <<meta, aborts>>
        /\ pop' = IF pop.call = m THEN p ELSE pop
    BY <1>2 DEF TearLate, Accepts
  <2>2. /\ pop' \in [pc : {"idle", "elect", "send"}, acks : {"all", "leader"}, todo : SUBSET Brokers,
                     synced : SUBSET Brokers, call : net' \cup {NoRequest}]
        /\ pop'.pc = pop.pc /\ pop'.synced = pop.synced /\ pop'.call \in {NoRequest, pop.call}
    <3>1. CASE pop.call = m
      BY <1>0, <2>1, <3>1
    <3>2. CASE pop.call # m
      BY <1>0, <2>1, <3>2
    <3> QED
      BY <3>1, <3>2
  <2> HIDE DEF p
  <2> QED
    BY <2>1, <2>2, WriteStep
<1> QED
  BY <1>1, <1>2

\* A broker drops the records below the floor and counts them as committed.
LEMMA RetryStep ==
  ASSUME PartitionAssumption, LogIInv, NEW b \in Brokers, NEW acked \in BOOLEAN, RetryRetention(b, acked)
  PROVE  LogIInv'
<1> DEFINE k == cleanup[b]
           w == Retained(broker[b], k)
<1>1. /\ RetainAccepts(broker[b], k) /\ broker' = [broker EXCEPT ![b] = w]
      /\ cleanup' \in {cleanup, [cleanup EXCEPT ![b] = 0]}
      /\ UNCHANGED <<hist, floor, leader, epoch, pending, pid, receipts, pop, net, aborts, crashes>>
  BY DEF RetryRetention, bound
<1>2. PartitionTypeOK
  BY DEF LogIInv, PartitionShapes
<1>3. /\ broker[b] \in Log /\ broker[b].log \in Seq(Batch) /\ Len(broker[b].log) \in Nat
      /\ broker[b].base \in Nat /\ broker[b].committed \in Nat /\ broker[b].epoch \in Nat
      /\ hist \in Seq(Batch) /\ Len(hist) \in Nat
  BY Typed
<1>4. k \in Nat /\ k <= Len(hist) /\ k <= Len(broker[b].log) /\ Agree(broker[b].log, hist, k)
  <2>1. k \in Nat
    BY <1>2 DEF PartitionTypeOK
  <2>2. /\ k <= Len(hist) /\ k <= Len(broker[b].log)
        /\ SubSeq(broker[b].log, 1, k) = SubSeq(hist, 1, k)
    BY <1>1 DEF RetainAccepts, HashAt
  <2> HIDE DEF k
  <2> QED
    BY <1>3, <2>1, <2>2, PrefixAgree
<1>5. cleanup' \in [Brokers -> 0..floor']
  BY <1>1, <1>2 DEF PartitionTypeOK
<1> HIDE DEF k
<1>6. /\ w \in Log /\ w.log = broker[b].log /\ w.base = k
      /\ w.committed = IF broker[b].committed < k THEN k ELSE broker[b].committed
  BY <1>3, <1>4 DEF Retained, Log
<1> HIDE DEF w
<1>7. /\ w.base <= w.committed /\ Agree(w.log, hist, w.committed) /\ Len(w.log) <= w.committed + 1
      /\ w.committed \in Nat /\ w.committed >= broker[b].committed
  <2>1. Agree(broker[b].log, hist, broker[b].committed) /\ Len(broker[b].log) <= broker[b].committed + 1
    BY DEF LogIInv, BrokersAgree
  <2> QED
    BY <1>3, <1>4, <1>6, <2>1
<1>8. broker'[b] = w /\ (\A c \in Brokers : c # b => broker'[c] = broker[c]) /\ broker' \in [Brokers -> Log]
  BY <1>1, <1>2, <1>6 DEF PartitionTypeOK
<1>9. PartitionShapes'
  <2>1. PartitionTypeOK'
    BY <1>1, <1>2, <1>5, <1>8 DEF PartitionTypeOK
  <2> QED
    BY <1>1, <2>1 DEF PartitionShapes, LogIInv
<1>10. BrokersAgree'
  <2> SUFFICES ASSUME NEW c \in Brokers
               PROVE  /\ broker'[c].base <= broker'[c].committed
                      /\ Agree(broker'[c].log, hist', broker'[c].committed)
                      /\ Len(broker'[c].log) <= broker'[c].committed + 1
    BY DEF BrokersAgree
  <2>1. CASE c = b
    BY <1>1, <1>7, <1>8, <2>1
  <2>2. CASE c # b
    BY <1>1, <1>8, <2>2 DEF LogIInv, BrokersAgree
  <2> QED
    BY <2>1, <2>2
<1>11. RequestsAgree'
  BY <1>1 DEF LogIInv, RequestsAgree
<1>12. \A c \in Brokers : broker'[c].committed \in Nat /\ broker'[c].committed >= broker[c].committed
                          /\ broker'[c].log = broker[c].log
  <2> TAKE c \in Brokers
  <2>1. broker[c].committed \in Nat
    BY Typed
  <2> QED
    BY <1>6, <1>7, <1>8, <2>1
<1>13. RoundAgrees'
  <2>1. ASSUME NEW c \in pop'.synced PROVE broker'[c].committed >= Len(hist')
    <3>1. c \in Brokers /\ broker[c].committed \in Nat /\ broker[c].committed >= Len(hist)
      BY <1>1, Typed DEF LogIInv, RoundAgrees
    <3> QED
      BY <1>1, <1>3, <1>12, <3>1
  <2> QED
    BY <1>1, <2>1 DEF LogIInv, RoundAgrees
<1>14. MajoritySettled'
  BY <1>1, <1>12, SettledKept
<1>15. OneHistory'
  <2>1. \A c \in Brokers : /\ Len(broker'[c].log) \in Nat /\ Len(broker'[c].log) >= Len(broker[c].log)
                           /\ broker'[c].log = broker[c].log \/ \E n \in net : broker'[c].log = n.log
    BY <1>12, Typed
  <2>2. ASSUME aborts' = 0, crashes' = 0
        PROVE  \A c \in pop'.synced : Len(broker'[c].log) > Len(hist)
    <3> TAKE c \in pop'.synced
    <3>1. c \in Brokers /\ Len(broker[c].log) > Len(hist)
      BY <1>1, <2>2, Typed DEF LogIInv, OneHistory
    <3> QED
      BY <1>12, <3>1
  <2>3. pending' = NoBatch \/ pending' \in Batch
    BY <1>1, <1>2 DEF PartitionTypeOK
  <2> QED
    BY <1>1, <2>1, <2>2, <2>3, HistoryKept
<1> QED
  BY <1>9, <1>10, <1>11, <1>13, <1>14, <1>15 DEF LogIInv

\* The majority that acknowledged the batch is settled when it joins the history.
LEMMA FinalizeStep ==
  ASSUME PartitionAssumption, LogIInv, Finalize
  PROVE  LogIInv'
<1>1. /\ hist' = Append(hist, pending) /\ pending' = NoBatch /\ pop' = Idle
      /\ receipts' \in {receipts, receipts \cup {pending}}
      /\ UNCHANGED <<floor, leader, epoch, pid, cleanup, broker, net, aborts, crashes>>
      /\ pop.pc = "send" /\ Cardinality(pop.synced) >= Majority
  BY DEF Finalize, Replicated, bound
<1>2. PartitionTypeOK /\ pending \in Batch /\ pending # NoBatch
  BY <1>1 DEF LogIInv, PartitionShapes, PartitionTypeOK
<1>3. /\ hist \in Seq(Batch) /\ Len(hist) \in Nat /\ hist' \in Seq(Batch) /\ Len(hist') = Len(hist) + 1
      /\ \A i \in 1..Len(hist) : hist'[i] = hist[i]
  BY <1>1, <1>2, Typed
<1>4. ASSUME NEW s, NEW k \in Nat, Agree(s, hist, k) PROVE Agree(s, hist', k)
  BY <1>3, <1>4 DEF Agree
<1>5. PartitionShapes'
  <2>1. floor' \in 0..Len(hist') /\ receipts' \subseteq Batch
    BY <1>1, <1>2, <1>3 DEF PartitionTypeOK
  <2> QED
    BY <1>1, <1>2, <1>3, <2>1, IdleShape DEF PartitionShapes, PartitionTypeOK
<1>6. BrokersAgree'
  BY <1>1, <1>4, Typed DEF LogIInv, BrokersAgree
<1>7. RequestsAgree'
  BY <1>1, <1>4, Typed DEF LogIInv, RequestsAgree
<1>8. pop'.call = NoRequest /\ pop'.synced = {}
  BY <1>1, IdleShape
<1>9. RoundAgrees'
  BY <1>8 DEF RoundAgrees
<1>10. pop.synced \subseteq Brokers
  BY Typed
<1>11. MajoritySettled'
  <2>1. pop.synced \subseteq Settled' /\ Settled' \subseteq Brokers
    BY <1>1, <1>3, <1>10 DEF Settled, LogIInv, RoundAgrees
  <2>2. Cardinality(Settled') >= Majority
    BY <1>1, <2>1, MajorityMore
  <2> QED
    BY <2>2 DEF MajoritySettled
<1>12. OneHistory'
  <2> SUFFICES ASSUME aborts' = 0, crashes' = 0
               PROVE  /\ \A b \in Brokers : Agree(broker'[b].log, Ahead', Len(broker'[b].log))
                      /\ \A m \in net' : Agree(m.log, Ahead', Len(m.log))
                      /\ \A b \in pop'.synced : Len(broker'[b].log) > Len(hist')
                      /\ Cardinality(Complete') >= Majority
    BY DEF OneHistory
  <2>1. Ahead' = Ahead
    BY <1>1, <1>2 DEF Ahead
  <2>2. pop.synced \subseteq Complete' /\ Complete' \subseteq Brokers
    BY <1>1, <1>3, <1>10, Typed DEF Complete, LogIInv, OneHistory
  <2>3. Cardinality(Complete') >= Majority
    BY <1>1, <2>2, MajorityMore
  <2> QED
    BY <1>1, <1>8, <2>1, <2>3 DEF LogIInv, OneHistory
<1> QED
  BY <1>5, <1>6, <1>7, <1>9, <1>11, <1>12 DEF LogIInv

-----------------------------------------------------------------------------

LEMMA PartitionInitIInv ==
  ASSUME PartitionAssumption, PartitionInit
  PROVE  LogIInv
<1>1. IsFiniteSet(Brokers) /\ Brokers # {} /\ Cardinality(Brokers) \in Nat
  BY FS_CardinalityType DEF PartitionAssumption
<1>2. Cardinality(Brokers) >= Majority
  <2>1. Cardinality(Brokers) # 0
    BY <1>1, FS_EmptySet
  <2> QED
    BY <1>1, <2>1 DEF Majority
<1>3. hist = <<>> /\ Len(hist) = 0 /\ hist \in Seq(Batch) /\ pending = NoBatch /\ net = {} /\ pop = Idle
  BY DEF PartitionInit
<1>4. /\ broker = [b \in Brokers |-> [log |-> <<>>, base |-> 0, committed |-> 0, epoch |-> 0]]
      /\ broker \in [Brokers -> Log]
      /\ \A b \in Brokers : broker[b].log = <<>> /\ broker[b].committed = 0 /\ broker[b].base = 0
  BY DEF PartitionInit, Log
<1>5. Idle \in [pc : {"idle", "elect", "send"}, acks : {"all", "leader"}, todo : SUBSET Brokers,
                synced : SUBSET Brokers, call : net \cup {NoRequest}]
      /\ Idle.pc = "idle" /\ Idle.todo = {} /\ Idle.synced = {} /\ Idle.call = NoRequest
  BY DEF Idle
<1>6. PartitionShapes
  <2>1. PartitionTypeOK
    <3>1. pid \in [Producers -> -1..MaxPid] /\ cleanup \in [Brokers -> 0..floor]
      BY DEF PartitionInit, PartitionAssumption
    <3> QED
      BY <1>3, <1>4, <1>5, <3>1 DEF PartitionInit, PartitionTypeOK, PartitionAssumption
  <2> QED
    BY <1>3, <1>5, <2>1 DEF PartitionShapes
<1>7. BrokersAgree /\ RequestsAgree /\ RoundAgrees /\ MajoritySettled
  BY <1>3, <1>4, <1>5 DEF BrokersAgree, RequestsAgree, RoundAgrees, MajoritySettled, Agree
<1>8. OneHistory
  <2>1. Complete = Brokers
    BY <1>3, <1>4 DEF Complete
  <2> QED
    BY <1>2, <1>3, <1>4, <1>5, <2>1 DEF OneHistory, Ahead, Agree
<1> QED
  BY <1>6, <1>7, <1>8 DEF LogIInv

LEMMA PartitionNextIInv ==
  ASSUME PartitionAssumption, LogIInv, [PartitionNext]_pvars
  PROVE  LogIInv'
<1>1. CASE \E b \in Brokers : Elect(b) \/ Fetch(b)
  BY <1>1, ElectStep
<1>2. CASE \E b \in Brokers : Send(b)
  BY <1>2, SendStep
<1>3. CASE \E b \in Brokers : GiveUp(b)
  <2>1. PICK b \in Brokers : GiveUp(b)
    BY <1>3
  <2>2. /\ UNCHANGED <<meta, broker, bound>> /\ net' \subseteq net
        /\ pop' = [pop EXCEPT !.call = NoRequest, !.todo = @ \ {b}]
    BY <2>1 DEF GiveUp
  <2> QED
    BY <2>2, ForgetStep
<1>4. CASE Acknowledge
  BY <1>4, AcknowledgeStep
<1>5. CASE Finalize
  BY <1>5, FinalizeStep
<1>6. CASE Fails \/ AbortTx
  BY <1>6, FailStep
<1>7. CASE \E m \in net : DeliverLate(m) \/ TearLate(m)
  BY <1>7, LateStep
<1>8. CASE \E p \in Producers : OpenProducer(p)
  BY <1>8, OpenStep
<1>9. CASE \E p \in Producers, e \in 0..MaxPid, s \in 0..MaxSeq, v \in Bodies, acks \in {"all", "leader"} :
             Produce([producer |-> p, pid |-> e, seq |-> s, body |-> v], acks)
  <2>1. PICK p \in Producers, e \in 0..MaxPid, s \in 0..MaxSeq, v \in Bodies, acks \in {"all", "leader"} :
             Produce([producer |-> p, pid |-> e, seq |-> s, body |-> v], acks)
    BY <1>9
  <2>2. [producer |-> p, pid |-> e, seq |-> s, body |-> v] \in Batch
    BY DEF Batch
  <2>3. /\ UNCHANGED <<hist, floor, leader, epoch, pid, receipts, cleanup, broker, net, bound>>
        /\ pop' = Replicating(acks) /\ pending = NoBatch /\ pending' \in Batch
    BY <2>1, <2>2 DEF Produce
  <2> QED
    BY <2>3, JournalStep
<1>10. CASE \E acks \in {"all", "leader"} : Republish(acks)
  <2>1. PICK acks \in {"all", "leader"} : Republish(acks)
    BY <1>10
  <2>2. /\ UNCHANGED <<hist, floor, leader, epoch, pid, receipts, cleanup, broker, net, bound>>
        /\ pop' = Replicating(acks) /\ pending # NoBatch /\ pending' = pending
    BY <2>1 DEF Republish, meta
  <2> QED
    BY <2>2, JournalStep
<1>11. CASE \E v \in Bodies : Stage(v)
  <2>1. PICK v \in Bodies : Stage(v)
    BY <1>11
  <2>2. [producer |-> NoTx, pid |-> 0, seq |-> 0, body |-> v] \in Batch
    BY DEF Batch, PartitionAssumption
  <2>3. /\ UNCHANGED <<hist, floor, leader, epoch, pid, receipts, cleanup, broker, net, bound>>
        /\ pop' = Replicating("all") /\ pending = NoBatch /\ pending' \in Batch
    BY <2>1, <2>2 DEF Stage
  <2> QED
    BY <2>3, JournalStep
<1>12. CASE \E k \in 1..Len(hist) : Retain(k)
  BY <1>12, RetainStep
<1>13. CASE \E b \in Brokers, acked \in BOOLEAN : RetryRetention(b, acked)
  BY <1>13, RetryStep
<1>14. CASE PartitionRestart
  BY <1>14, RestartStep
<1>15. CASE UNCHANGED pvars
  <2>1. UNCHANGED <<meta, broker, bound>> /\ net' \subseteq net /\ pop' = pop /\ net' = net
    BY <1>15 DEF pvars
  <2>2. pop.call \in net' \cup {NoRequest}
    BY <2>1, Typed
  <2> QED
    BY <2>1, <2>2, ForgetStep
<1> QED
  BY <1>1, <1>2, <1>3, <1>4, <1>5, <1>6, <1>7, <1>8, <1>9, <1>10, <1>11, <1>12, <1>13, <1>14, <1>15
     DEF PartitionNext, Replicate

\* What the run checks follows.
LEMMA LogIInvImplies ==
  ASSUME PartitionAssumption, LogIInv
  PROVE  LogsKept
<1>1. PartitionTypeOK /\ hist \in Seq(Batch) /\ Len(hist) \in Nat
  BY Typed DEF LogIInv, PartitionShapes
<1>2. ASSUME NEW b \in Brokers, NEW k \in Nat, Agree(broker[b].log, hist, k) PROVE Stores(b, k)
  <2>1. broker[b].log \in Seq(Batch) /\ k <= Len(broker[b].log) /\ k <= Len(hist)
    BY <1>2, Typed DEF Agree
  <2> QED
    BY <1>1, <1>2, <2>1, PrefixAgree DEF Stores
<1>3. ASSUME NEW A, NEW k \in Nat, A \subseteq Brokers, Cardinality(A) >= Majority,
             \A b \in A : Agree(broker[b].log, hist, k)
      PROVE  OnMajority(k)
  <2>1. A \subseteq {b \in Brokers : Stores(b, k)}
    BY <1>2, <1>3
  <2>2. {b \in Brokers : Stores(b, k)} \subseteq Brokers
    OBVIOUS
  <2>3. Cardinality({b \in Brokers : Stores(b, k)}) >= Majority
    BY <1>3, <2>1, <2>2, MajorityMore
  <2> QED
    BY <2>3 DEF OnMajority
<1>4. CommittedOnMajority
  <2> SUFFICES ASSUME aborts = 0, crashes = 0 PROVE OnMajority(Len(hist))
    BY DEF CommittedOnMajority
  <2>1. Complete \subseteq Brokers /\ Cardinality(Complete) >= Majority
    BY DEF LogIInv, OneHistory, Complete
  <2>2. ASSUME NEW b \in Complete PROVE Agree(broker[b].log, hist, Len(hist))
    <3>1. b \in Brokers /\ Len(broker[b].log) >= Len(hist) /\ Len(broker[b].log) \in Nat
      BY Typed DEF Complete
    <3>2. Agree(broker[b].log, Ahead, Len(broker[b].log))
      BY <3>1 DEF LogIInv, OneHistory
    <3>3. Agree(hist, Ahead, Len(hist))
      BY AheadIs
    <3> QED
      BY <1>1, <3>1, <3>2, <3>3 DEF Agree
  <2> QED
    BY <1>1, <1>3, <2>1, <2>2
<1>5. SettledOnMajority
  <2> SUFFICES ASSUME hist # <<>> PROVE OnMajority(Len(hist) - 1)
    BY DEF SettledOnMajority
  <2>1. Len(hist) - 1 \in Nat
    BY <1>1
  <2>2. Settled \subseteq Brokers /\ Cardinality(Settled) >= Majority
    BY DEF LogIInv, MajoritySettled, Settled
  <2>3. ASSUME NEW b \in Settled PROVE Agree(broker[b].log, hist, Len(hist) - 1)
    <3>1. /\ b \in Brokers /\ broker[b].committed >= Len(hist) - 1 /\ broker[b].committed \in Nat
          /\ Len(broker[b].log) \in Nat
      BY Typed DEF Settled
    <3>2. Agree(broker[b].log, hist, broker[b].committed)
      BY <3>1 DEF LogIInv, BrokersAgree
    <3> QED
      BY <1>1, <2>1, <3>1, <3>2 DEF Agree
  <2> QED
    BY <1>3, <2>1, <2>2, <2>3
<1>6. CheckpointsAgree
  <2> SUFFICES ASSUME NEW b \in Brokers
               PROVE  /\ broker[b].base <= broker[b].committed
                      /\ broker[b].committed <= Len(hist)
                      /\ SubSeq(broker[b].log, 1, broker[b].committed) = SubSeq(hist, 1, broker[b].committed)
    BY DEF CheckpointsAgree
  <2>1. broker[b].base <= broker[b].committed /\ Agree(broker[b].log, hist, broker[b].committed)
    BY DEF LogIInv, BrokersAgree
  <2>2. broker[b].committed \in Nat
    BY Typed
  <2>3. Stores(b, broker[b].committed)
    BY <1>2, <2>1, <2>2
  <2> QED
    BY <2>1, <2>3 DEF Stores, Agree
<1> QED
  BY <1>1, <1>4, <1>5, <1>6 DEF LogsKept

\* The inductive invariant of the partition, in every reachable state.
THEOREM PartitionInvariant ==
  ASSUME PartitionAssumption
  PROVE  PartitionSpec => []LogIInv
<1>1. PartitionInit => LogIInv
  BY PartitionInitIInv
<1>2. LogIInv /\ [PartitionNext]_pvars => LogIInv'
  BY PartitionNextIInv
<1> QED
  BY <1>1, <1>2, PTL DEF PartitionSpec

\* A majority of the brokers stores every committed batch, or all but the last once
\* a stage was abandoned or a write torn, and no log forks below a checkpoint: for
\* any brokers and batches, whatever requests execute late, through elections,
\* expiry, failed replications and restarts (Replication._replicate,
\* PartitionLog.synchronize).
THEOREM MajorityKeepsLogs ==
  ASSUME PartitionAssumption
  PROVE  PartitionSpec => []LogsKept
<1>1. LogIInv => LogsKept
  BY LogIInvImplies
<1> QED
  BY <1>1, PartitionInvariant, PTL

-----------------------------------------------------------------------------
(***************************************************************************)
(* Producer sequences.                                                     *)
(***************************************************************************)

\* A committed batch takes the next sequence of its producer and epoch.
LEMMA ExpectedAppend ==
  ASSUME hist \in Seq(Batch), NEW x \in Batch, hist' = Append(hist, x), NEW p, NEW e
  PROVE  /\ Expected(p, e) \in Nat
         /\ x.producer = p /\ x.pid = e => Expected(p, e)' = Expected(p, e) + 1
         /\ ~(x.producer = p /\ x.pid = e) => Expected(p, e)' = Expected(p, e)
<1> DEFINE n == Len(hist)
           S == {i \in 1..Len(hist) : hist[i].producer = p /\ hist[i].pid = e}
           T == {i \in 1..Len(hist') : hist'[i].producer = p /\ hist'[i].pid = e}
<1>1. n \in Nat /\ Len(hist') = n + 1 /\ hist'[n + 1] = x /\ \A i \in 1..n : hist'[i] = hist[i]
  OBVIOUS
<1>2. IsFiniteSet(S) /\ n + 1 \notin S
  <2>1. IsFiniteSet(1..Len(hist))
    BY <1>1, FS_Interval
  <2>2. S \subseteq 1..Len(hist)
    OBVIOUS
  <2>3. n + 1 \notin 1..Len(hist)
    BY <1>1
  <2> QED
    BY <2>1, <2>2, <2>3, FS_Subset
<1>3. Cardinality(S) \in Nat /\ Cardinality(S \cup {n + 1}) = Cardinality(S) + 1
  BY <1>2, FS_CardinalityType, FS_AddElement
<1>4. ASSUME x.producer = p, x.pid = e PROVE T = S \cup {n + 1}
  <2>1. 1..Len(hist') = (1..n) \cup {n + 1}
    BY <1>1
  <2> HIDE DEF n
  <2> QED
    BY <1>1, <1>4, <2>1 DEF n
<1>5. ASSUME ~(x.producer = p /\ x.pid = e) PROVE T = S
  <2>1. 1..Len(hist') = (1..n) \cup {n + 1}
    BY <1>1
  <2> QED
    BY <1>1, <1>5, <2>1
<1>6. Expected(p, e) = Cardinality(S) /\ Expected(p, e)' = Cardinality(T)
  BY DEF Expected
<1> HIDE DEF S, T, n
<1> QED
  BY <1>3, <1>4, <1>5, <1>6

\* The fields of a batch.
LEMMA BatchFields ==
  ASSUME PartitionAssumption
  PROVE  \A z \in Batch : /\ z.producer \in Producers \cup {NoTx} /\ z.pid \in 0..MaxPid
                          /\ z.pid \in Int /\ z.seq \in Int
<1> TAKE z \in Batch
<1>1. z.producer \in Producers \cup {NoTx} /\ z.pid \in 0..MaxPid /\ z.seq \in 0..MaxSeq
  BY DEF Batch
<1>2. MaxPid \in Nat /\ MaxSeq \in Nat
  BY DEF PartitionAssumption
<1> QED
  BY <1>1, <1>2

\* A step that commits nothing keeps the order; a batch it journals is the next of
\* its producer.
LEMMA SameHistory ==
  ASSUME PartitionAssumption, LogIInv, SequenceIInv, hist' = hist,
         \A p \in Producers : pid[p] \in Int /\ pid'[p] \in Int /\ pid'[p] >= pid[p],
         \/ pending' \in {pending, NoBatch}
         \/ pending'.producer = NoTx
         \/ /\ pending' \in Batch /\ pid' = pid /\ pid[pending'.producer] = pending'.pid
            /\ pending'.seq = Expected(pending'.producer, pending'.pid)
  PROVE  SequenceIInv'
<1>2. /\ hist \in Seq(Batch) /\ (pending # NoBatch => pending \in Batch)
      /\ \A i \in 1..Len(hist) : hist[i].producer \in Producers \cup {NoTx} /\ hist[i].pid \in 0..MaxPid
      /\ \A z \in Batch : z.producer \in Producers \cup {NoTx} /\ z.pid \in Int
  <2>1. hist \in Seq(Batch) /\ (pending # NoBatch => pending \in Batch)
    BY Typed
  <2>2. \A i \in 1..Len(hist) : hist[i] \in Batch
    BY <2>1
  <2>3. \A z \in Batch : z.producer \in Producers \cup {NoTx} /\ z.pid \in 0..MaxPid /\ z.pid \in Int
    BY BatchFields
  <2> QED
    BY <2>1, <2>2, <2>3
<1>3. ExactlyOnceInOrder'
  BY DEF SequenceIInv, ExactlyOnceInOrder
<1>4. SequencesUsed'
  <2> SUFFICES ASSUME NEW i \in 1..Len(hist), NEW p \in Producers, NEW e \in 0..MaxPid,
                      hist[i].producer = p, hist[i].pid = e
               PROVE  e <= pid'[p] /\ hist[i].seq < Expected(p, e)
    BY DEF SequencesUsed, Expected
  <2>1. e <= pid[p] /\ hist[i].seq < Expected(p, e)
    BY DEF SequenceIInv, SequencesUsed
  <2>2. e \in Int
    OBVIOUS
  <2> QED
    BY <2>1, <2>2
<1>5. PendingIsNext'
  <2> SUFFICES ASSUME pending' # NoBatch, pending'.producer # NoTx
               PROVE  /\ pending'.pid <= pid'[pending'.producer]
                      /\ pending'.seq = Expected(pending'.producer, pending'.pid)
                      /\ \A i \in 1..Len(hist) : hist[i].producer = pending'.producer => hist[i].pid <= pending'.pid
    BY DEF PendingIsNext, Expected
  <2>1. CASE pending' = pending
    <3>1. /\ pending.pid <= pid[pending.producer] /\ pending.seq = Expected(pending.producer, pending.pid)
          /\ \A i \in 1..Len(hist) : hist[i].producer = pending.producer => hist[i].pid <= pending.pid
      BY <2>1 DEF SequenceIInv, PendingIsNext
    <3>2. pending.producer \in Producers /\ pending.pid \in Int
      BY <1>2, <2>1
    <3> QED
      BY <2>1, <3>1, <3>2
  <2>2. CASE /\ pending' \in Batch /\ pid' = pid /\ pid[pending'.producer] = pending'.pid
             /\ pending'.seq = Expected(pending'.producer, pending'.pid)
    <3>1. pending'.producer \in Producers /\ pending'.pid \in Int
      BY <1>2, <2>2
    <3>2. ASSUME NEW i \in 1..Len(hist), hist[i].producer = pending'.producer PROVE hist[i].pid <= pending'.pid
      <4>1. hist[i].pid <= pid[hist[i].producer]
        BY <1>2, <3>1, <3>2 DEF SequenceIInv, SequencesUsed
      <4> QED
        BY <2>2, <3>2, <4>1
    <3> QED
      BY <2>2, <3>1, <3>2
  <2> QED
    BY <2>1, <2>2
<1> QED
  BY <1>3, <1>4, <1>5 DEF SequenceIInv

\* A committed batch is after all of its producer.
LEMMA FinalizeOrder ==
  ASSUME PartitionAssumption, LogIInv, SequenceIInv, Finalize
  PROVE  SequenceIInv'
<1>1. hist' = Append(hist, pending) /\ pending' = NoBatch /\ pid' = pid /\ pop.pc = "send"
  BY DEF Finalize, Replicated
<1>2. pending \in Batch /\ pending # NoBatch /\ hist \in Seq(Batch)
  BY <1>1, Typed DEF LogIInv, PartitionShapes
<1> DEFINE n == Len(hist)
<1>3. n \in Nat /\ Len(hist') = n + 1 /\ hist'[n + 1] = pending /\ \A i \in 1..n : hist'[i] = hist[i]
  BY <1>1, <1>2
<1>4. /\ \A i \in 1..n : hist[i] \in Batch
      /\ \A z \in Batch : /\ z.producer \in Producers \cup {NoTx} /\ z.pid \in 0..MaxPid
                         /\ z.pid \in Int /\ z.seq \in Int
  BY <1>2, BatchFields
<1>5. \A p, e : /\ Expected(p, e) \in Nat
                /\ pending.producer = p /\ pending.pid = e => Expected(p, e)' = Expected(p, e) + 1
                /\ ~(pending.producer = p /\ pending.pid = e) => Expected(p, e)' = Expected(p, e)
  BY <1>1, <1>2, ExpectedAppend
<1>6. \A i \in 1..(n + 1) : i \in 1..n \/ i = n + 1
  BY <1>3
<1>7. pending.producer # NoTx =>
        /\ pending.pid <= pid[pending.producer] /\ pending.seq = Expected(pending.producer, pending.pid)
        /\ \A i \in 1..n : hist[i].producer = pending.producer => hist[i].pid <= pending.pid
  BY <1>2 DEF SequenceIInv, PendingIsNext
<1>8. \A i \in 1..n : hist[i].producer # NoTx =>
        hist[i].pid <= pid[hist[i].producer] /\ hist[i].seq < Expected(hist[i].producer, hist[i].pid)
  BY <1>4 DEF SequenceIInv, SequencesUsed
<1>9. \A i, j \in 1..n :
        i < j /\ hist[i].producer = hist[j].producer /\ hist[i].producer # NoTx
        => hist[i].pid < hist[j].pid \/ (hist[i].pid = hist[j].pid /\ hist[i].seq < hist[j].seq)
  BY DEF SequenceIInv, ExactlyOnceInOrder
<1> HIDE DEF n
<1>10. ExactlyOnceInOrder'
  <2> SUFFICES ASSUME NEW i \in 1..(n + 1), NEW j \in 1..(n + 1), i < j,
                      hist'[i].producer = hist'[j].producer, hist'[i].producer # NoTx
               PROVE  \/ hist'[i].pid < hist'[j].pid
                      \/ hist'[i].pid = hist'[j].pid /\ hist'[i].seq < hist'[j].seq
    BY <1>3 DEF ExactlyOnceInOrder
  <2>1. i \in 1..n
    BY <1>3
  <2>2. CASE j \in 1..n
    BY <1>3, <1>9, <2>1, <2>2
  <2>3. CASE j = n + 1
    <3>1. hist'[i] = hist[i] /\ hist'[j] = pending
      BY <1>3, <2>1, <2>3
    <3>2. hist[i].pid <= pending.pid /\ hist[i].seq < Expected(hist[i].producer, hist[i].pid)
      BY <1>7, <1>8, <2>1, <3>1
    <3>3. pending.seq = Expected(pending.producer, pending.pid)
      BY <1>7, <3>1
    <3>4. hist[i].pid \in Int /\ pending.pid \in Int
      BY <1>2, <1>4, <2>1
    <3>5. CASE hist[i].pid = pending.pid
      <4>1. hist[i].seq < pending.seq
        BY <3>1, <3>2, <3>3, <3>5
      <4> QED
        BY <3>1, <3>5, <4>1
    <3>6. CASE hist[i].pid # pending.pid
      <4>1. hist[i].pid < pending.pid
        BY <3>2, <3>4, <3>6
      <4> QED
        BY <3>1, <4>1
    <3> QED
      BY <3>5, <3>6
  <2> QED
    BY <1>6, <2>2, <2>3
<1>11. SequencesUsed'
  <2> SUFFICES ASSUME NEW i \in 1..(n + 1), NEW p \in Producers, NEW e \in 0..MaxPid,
                      hist'[i].producer = p, hist'[i].pid = e
               PROVE  e <= pid[p] /\ hist'[i].seq < Expected(p, e)'
    BY <1>1, <1>3 DEF SequencesUsed
  <2>0. p # NoTx
    BY DEF PartitionAssumption
  <2>1. CASE i \in 1..n
    <3>1. p = hist[i].producer /\ e = hist[i].pid /\ hist'[i].seq = hist[i].seq /\ hist[i].seq \in Int
      BY <1>3, <1>4, <2>1
    <3>2. e <= pid[p] /\ hist[i].seq < Expected(p, e)
      BY <1>8, <2>0, <2>1, <3>1
    <3>3. Expected(p, e)' \in {Expected(p, e), Expected(p, e) + 1} /\ Expected(p, e) \in Nat
      BY <1>5
    <3> QED
      BY <3>1, <3>2, <3>3
  <2>2. CASE i = n + 1
    <3>1. p = pending.producer /\ e = pending.pid /\ hist'[i].seq = pending.seq
      BY <1>3, <2>2
    <3>2. e <= pid[p] /\ pending.seq = Expected(p, e)
      BY <1>7, <2>0, <3>1
    <3> QED
      BY <1>5, <3>1, <3>2
  <2> QED
    BY <1>6, <2>1, <2>2
<1>12. PendingIsNext'
  BY <1>1 DEF PendingIsNext
<1> QED
  BY <1>10, <1>11, <1>12 DEF SequenceIInv


LEMMA SequenceNext ==
  ASSUME PartitionAssumption, LogIInv, SequenceIInv, [PartitionNext]_pvars
  PROVE  SequenceIInv'
<1>1. CASE Finalize
  BY <1>1, FinalizeOrder
<1>2. PartitionTypeOK /\ \A p \in Producers : pid[p] \in Int
  BY DEF LogIInv, PartitionShapes, PartitionTypeOK
<1>3. CASE UNCHANGED <<hist, pid>> /\ (pending' \in {pending, NoBatch} \/ pending'.producer = NoTx)
  BY <1>2, <1>3, SameHistory
<1>4. CASE \E p \in Producers, e \in 0..MaxPid, s \in 0..MaxSeq, v \in Bodies, acks \in {"all", "leader"} :
             Produce([producer |-> p, pid |-> e, seq |-> s, body |-> v], acks)
  <2>1. PICK p \in Producers, e \in 0..MaxPid, s \in 0..MaxSeq, v \in Bodies, acks \in {"all", "leader"} :
             Produce([producer |-> p, pid |-> e, seq |-> s, body |-> v], acks)
    BY <1>4
  <2>2. [producer |-> p, pid |-> e, seq |-> s, body |-> v] \in Batch
    BY DEF Batch
  <2>3. /\ hist' = hist /\ pid' = pid /\ pending' = [producer |-> p, pid |-> e, seq |-> s, body |-> v]
        /\ pid[p] = e /\ s = Expected(p, e)
    BY <2>1 DEF Produce
  <2>4. /\ pending' \in Batch /\ pid[pending'.producer] = pending'.pid
        /\ pending'.seq = Expected(pending'.producer, pending'.pid)
    BY <2>2, <2>3
  <2> QED
    BY <1>2, <2>3, <2>4, SameHistory
<1>5. CASE \E p \in Producers : OpenProducer(p)
  <2>1. PICK p \in Producers : OpenProducer(p)
    BY <1>5
  <2>2. hist' = hist /\ pending' = pending /\ pid' = [pid EXCEPT ![p] = @ + 1] /\ pid \in [Producers -> -1..MaxPid]
    BY <1>2, <2>1 DEF OpenProducer, PartitionTypeOK
  <2>3. \A q \in Producers : pid'[q] \in Int /\ pid'[q] >= pid[q]
    BY <1>2, <2>2
  <2> QED
    BY <1>2, <2>2, <2>3, SameHistory
<1>6. ASSUME Replicate, ~Finalize PROVE UNCHANGED <<hist, pid>> /\ pending' \in {pending, NoBatch}
  BY <1>6 DEF Replicate, Elect, Send, GiveUp, Acknowledge, Fails, AbortTx, meta
<1>7. ASSUME \E m \in net : DeliverLate(m) \/ TearLate(m) PROVE UNCHANGED <<hist, pid, pending>>
  BY <1>7 DEF DeliverLate, TearLate, meta
<1>8. ASSUME (\E acks \in {"all", "leader"} : Republish(acks)) \/ (\E b \in Brokers : Fetch(b))
             \/ (\E k \in 1..Len(hist) : Retain(k)) \/ (\E b \in Brokers, acked \in BOOLEAN : RetryRetention(b, acked))
      PROVE  UNCHANGED <<hist, pid, pending>>
  BY <1>8 DEF Republish, Fetch, Retain, RetryRetention, meta
<1>9. ASSUME \E v \in Bodies : Stage(v) PROVE UNCHANGED <<hist, pid>> /\ pending'.producer = NoTx
  BY <1>9 DEF Stage
<1>10. ASSUME PartitionRestart PROVE UNCHANGED <<hist, pid>> /\ pending' \in {pending, NoBatch}
  BY <1>10 DEF PartitionRestart
<1>11. ASSUME UNCHANGED pvars PROVE UNCHANGED <<hist, pid, pending>>
  BY <1>11 DEF pvars, meta
<1> QED
  BY <1>1, <1>3, <1>4, <1>5, <1>6, <1>7, <1>8, <1>9, <1>10, <1>11 DEF PartitionNext

\* A producer's batches are committed once and in sequence, epoch after epoch: for
\* any producers and any history, whatever is retried, flushed by others, expired
\* or interrupted by a restart (Coordinator._produce).
THEOREM ProducerOrder ==
  ASSUME PartitionAssumption
  PROVE  PartitionSpec => []ExactlyOnceInOrder
<1>1. PartitionInit => SequenceIInv
  BY DEF PartitionInit, SequenceIInv, ExactlyOnceInOrder, SequencesUsed, PendingIsNext
<1>2. LogIInv /\ SequenceIInv /\ [PartitionNext]_pvars => SequenceIInv'
  BY SequenceNext
<1>3. SequenceIInv => ExactlyOnceInOrder
  BY DEF SequenceIInv
<1> QED
  BY <1>1, <1>2, <1>3, PartitionInvariant, PTL DEF PartitionSpec

\* A journalled batch of a producer is committed before any other batch of the
\* partition, through failed replications and restarts (_flush, _recover).
THEOREM JournalGoesFirst == PartitionSpec => JournalFirst
<1> DEFINE A == pending = NoBatch \/ pending.producer = NoTx \/ pending' = pending \/ hist' = Append(hist, pending)
<1>1. [PartitionNext]_pvars => [A]_pvars
  <2> SUFFICES ASSUME PartitionNext PROVE A
    OBVIOUS
  <2>1. CASE Replicate
    BY <2>1 DEF Replicate, Elect, Send, GiveUp, Acknowledge, Finalize, Fails, AbortTx, IsTx, meta
  <2>2. CASE \E m \in net : DeliverLate(m) \/ TearLate(m)
    BY <2>2 DEF DeliverLate, TearLate, meta
  <2>3. CASE PartitionRestart
    BY <2>3 DEF PartitionRestart, IsTx
  <2>4. ASSUME ~Replicate, ~PartitionRestart, ~\E m \in net : DeliverLate(m) \/ TearLate(m)
        PROVE  A
    <3>1. CASE \E p \in Producers, e \in 0..MaxPid, s \in 0..MaxSeq, v \in Bodies, acks \in {"all", "leader"} :
                 Produce([producer |-> p, pid |-> e, seq |-> s, body |-> v], acks)
      BY <3>1 DEF Produce
    <3>2. CASE (\E acks \in {"all", "leader"} : Republish(acks)) \/ (\E v \in Bodies : Stage(v))
      BY <3>2 DEF Republish, Stage, meta
    <3>3. CASE \/ \E p \in Producers : OpenProducer(p)
               \/ \E b \in Brokers : Fetch(b)
               \/ \E k \in 1..Len(hist) : Retain(k)
               \/ \E b \in Brokers, acked \in BOOLEAN : RetryRetention(b, acked)
      BY <3>3 DEF OpenProducer, Fetch, Retain, RetryRetention
    <3> QED
      BY <2>4, <3>1, <3>2, <3>3 DEF PartitionNext
  <2> QED
    BY <2>1, <2>2, <2>3, <2>4
<1> QED
  BY <1>1, PTL DEF PartitionSpec, JournalFirst

=============================================================================
