-------------------------------- MODULE Chat --------------------------------
(***************************************************************************)
(* The chat cluster over one Redis: stateless nodes that hold leases,      *)
(* devices that log in to any node, idempotent appends fenced by the       *)
(* session, live hints from the event stream, the durable inbox with the   *)
(* client's cursor, and the offline push workers.                          *)
(*                                                                         *)
(* One group channel.  A Redis script is one step; every await between two *)
(* commands is a step boundary.  Expiry of a lease, a session or a lock is *)
(* a step of its own: once passed it is seen by every later command.       *)
(***************************************************************************)
EXTENDS Integers, Sequences, FiniteSets, SequencesExt, FiniteSetsExt, TLC

CONSTANTS Users, Owner,      \* the group's owner is a member from the start
          Devices, UserOf, Senders, Readers,
          Instances, NodeOf, Consumers, \* runs of a node process; those that see live hints
          Keys, Contents,
          Capacity, QueueSize, BatchSize, PageSize,
          Workers, MaxAttempts,
          MaxMessages, MaxLogins, MaxFaults   \* bounds of the model

VARIABLES members, joined, log,             \* the channel and its messages
          lease, record, saved,             \* nodes, sessions, node_cursors
          admitted, faults,               \* sessions so far; processes that ended, leases, sessions and locks that ran out
          proc,                             \* node processes
          client, logins, calls,            \* devices and their requests
          push, worker                      \* offline push

cvars == <<members, joined, log>>
rvars == <<lease, record, saved, admitted, faults>>
dvars == <<client, logins, calls>>
pvars == <<push, worker>>
vars == <<cvars, rvars, proc, dvars, pvars>>

Nodes == {NodeOf[i] : i \in Instances}
Assumption ==
  /\ Owner \in Users /\ UserOf \in [Devices -> Users]
  /\ {Capacity, QueueSize, BatchSize, PageSize, MaxAttempts} \subseteq Nat \ {0}

NoLease == [instance |-> {}, live |-> FALSE]
NoRecord == [session |-> 0]
NoLocal == [session |-> 0]
Offline == [conn |-> "none", instance |-> {}, session |-> 0, attempt |-> 0]
IdleWorker == [pc |-> "idle"]

Init ==
  /\ members = {Owner} /\ joined = [u \in Users |-> IF u = Owner THEN 0 ELSE -1] /\ log = <<>>
  /\ lease = [n \in Nodes |-> NoLease] /\ record = [d \in Devices |-> NoRecord]
  /\ saved = [n \in Nodes |-> -1] /\ admitted = 0 /\ faults = 0
  /\ proc = [i \in Instances |-> [pc |-> "new", cursor |-> 0, batch |-> {}, upto |-> 0,
                                  local |-> [d \in Devices |-> NoLocal]]]
  /\ client = [d \in Devices |-> Offline @@ [acked |-> {}, cursor |-> 0, page |-> <<>>, done |-> {}]]
  /\ logins = {} /\ calls = {}
  /\ push = <<>> /\ worker = [w \in Workers |-> IdleWorker]

-----------------------------------------------------------------------------
(***************************************************************************)
(* Leases, sessions and the lifecycle of a node.                           *)
(***************************************************************************)
Holds(i) == lease[NodeOf[i]].instance = {i} /\ lease[NodeOf[i]].live
\* _SESSION (check): the record is this session, unexpired, on a leased node.
Valid(d, s) ==
  /\ s # 0 /\ record[d].session = s /\ record[d].live /\ Holds(record[d].instance)
Online(u) == \E d \in Devices : UserOf[d] = u /\ record[d].session # 0 /\ Valid(d, record[d].session)

\* _start reads the saved position, or the end of the stream, then the lease.
StartRead(i) ==
  /\ proc[i].pc = "new"
  /\ proc' = [proc EXCEPT ![i].pc = "starting",
                          ![i].cursor = IF saved[NodeOf[i]] # -1 THEN saved[NodeOf[i]] ELSE Len(log)]
  /\ UNCHANGED <<cvars, rvars, dvars, pvars>>
\* _LEASE
Leasable(i) == lease[NodeOf[i]].live => lease[NodeOf[i]].instance = {i}
StartLease(i) ==
  /\ proc[i].pc = "starting"
  /\ \/ /\ Leasable(i)
        /\ lease' = [lease EXCEPT ![NodeOf[i]] = [instance |-> {i}, live |-> TRUE]]
        /\ proc' = [proc EXCEPT ![i].pc = "on"]
     \/ /\ ~ Leasable(i)
        /\ proc' = [proc EXCEPT ![i].pc = "off"] /\ UNCHANGED lease
  /\ UNCHANGED <<cvars, record, saved, admitted, faults, dvars, pvars>>

LocalClosed(p, ds) == [p EXCEPT !.local = [d \in Devices |-> IF d \in ds THEN NoLocal ELSE @[d]]]
Stopped(p) == [LocalClosed(p, Devices) EXCEPT !.pc = "off", !.batch = {}, !.upto = 0]
\* _maintenance: renews, or closes every session of the process and stops.
Renew(i) ==
  /\ proc[i].pc = "on" /\ ~ Holds(i)
  /\ \/ /\ Leasable(i)
        /\ lease' = [lease EXCEPT ![NodeOf[i]] = [instance |-> {i}, live |-> TRUE]]
        /\ UNCHANGED proc
     \/ /\ ~ Leasable(i)
        /\ proc' = [proc EXCEPT ![i] = Stopped(@)] /\ UNCHANGED lease
  /\ UNCHANGED <<cvars, record, saved, admitted, faults, dvars, pvars>>

\* disconnect: the session's own record is deleted, a newer one is kept.
WithoutRecords(ds, p) ==
  [d \in Devices |-> IF d \in ds /\ record[d].session = p.local[d].session THEN NoRecord ELSE record[d]]
Invalid(i) == {d \in Devices : proc[i].local[d].session # 0 /\ ~ Valid(d, proc[i].local[d].session)}
ExpireSessions(i) ==
  /\ proc[i].pc = "on" /\ Invalid(i) # {}
  /\ record' = WithoutRecords(Invalid(i), proc[i])
  /\ proc' = [proc EXCEPT ![i] = LocalClosed(@, Invalid(i))]
  /\ UNCHANGED <<cvars, lease, saved, admitted, faults, dvars, pvars>>
Expired(d) == record[d].session # 0 /\ ~ record[d].live
PruneSessions(i) ==
  /\ proc[i].pc = "on" /\ \E d \in Devices : Expired(d)
  /\ record' = [d \in Devices |-> IF Expired(d) THEN NoRecord ELSE record[d]]
  /\ UNCHANGED <<cvars, lease, saved, admitted, faults, proc, dvars, pvars>>

\* close() disconnects every session and gives the lease back; a crash does not.
Close(i) ==
  /\ proc[i].pc = "on"
  /\ record' = WithoutRecords(Devices, proc[i])
  /\ lease' = [lease EXCEPT ![NodeOf[i]] = IF @.instance = {i} THEN NoLease ELSE @]
  /\ proc' = [proc EXCEPT ![i] = Stopped(@)]
  /\ faults < MaxFaults /\ faults' = faults + 1
  /\ UNCHANGED <<cvars, saved, admitted, dvars, pvars>>
Crash(i) ==
  /\ proc[i].pc \in {"starting", "on"}
  /\ proc' = [proc EXCEPT ![i] = Stopped(@)]
  /\ faults < MaxFaults /\ faults' = faults + 1
  /\ UNCHANGED <<cvars, lease, record, saved, admitted, dvars, pvars>>

LeaseExpires(n) ==
  /\ lease[n].live /\ faults < MaxFaults
  /\ lease' = [lease EXCEPT ![n].live = FALSE] /\ faults' = faults + 1
  /\ UNCHANGED <<cvars, record, saved, admitted, proc, dvars, pvars>>
SessionExpires(d) ==
  /\ record[d].session # 0 /\ record[d].live /\ faults < MaxFaults
  /\ record' = [record EXCEPT ![d].live = FALSE] /\ faults' = faults + 1
  /\ UNCHANGED <<cvars, lease, saved, admitted, proc, dvars, pvars>>

(***************************************************************************)
(* Logging in.  The client may give up; the admission still runs.          *)
(***************************************************************************)
Load(i) == Cardinality({d \in Devices : record[d].session # 0 /\ record[d].live /\ record[d].instance = i})
\* Discovery answers the least loaded node with a live lease and room.
Room(i) == Holds(i) /\ Load(i) < Capacity
Discovered(i) ==
  /\ Room(i)
  /\ \A j \in Instances \ {i} : Room(j) =>
       Load(i) < Load(j) \/ (Load(i) = Load(j) /\ NodeOf[i] < NodeOf[j])
Login(d, i) ==
  /\ client[d].conn = "none" /\ client[d].attempt < MaxLogins /\ Discovered(i) /\ proc[i].pc = "on"
  /\ client' = [client EXCEPT ![d].conn = "login", ![d].attempt = @ + 1, ![d].instance = {i}]
  /\ logins' = logins \cup {[device |-> d, attempt |-> client[d].attempt + 1, instance |-> i, old |-> record[d]]}
  /\ UNCHANGED <<cvars, rvars, proc, calls, pvars>>

\* _ADMIT; a record that changed since it was read is read again.
CountedOthers(l) ==
  Load(l.instance) - (IF record[l.device].session # 0 /\ record[l.device].live /\ record[l.device].instance = l.instance
                      THEN 1 ELSE 0)
Admit(l) ==
  LET i == l.instance
      d == l.device
      s == admitted + 1
      current == client[d].conn = "login" /\ client[d].attempt = l.attempt
  IN
  /\ proc[i].pc = "on"
  /\ \/ /\ Holds(i) /\ record[d] # l.old
        /\ logins' = (logins \ {l}) \cup {[l EXCEPT !.old = record[d]]}
        /\ UNCHANGED <<record, admitted, proc, client>>
     \/ /\ Holds(i) /\ record[d] = l.old /\ CountedOthers(l) < Capacity
        /\ record' = [record EXCEPT ![d] = [session |-> s, instance |-> i, live |-> TRUE]] /\ admitted' = s
        /\ proc' = [proc EXCEPT ![i].local[d] = [session |-> s, since |-> Len(log), hinted |-> {}, unread |-> 0]]
        /\ logins' = logins \ {l}
        /\ client' = IF current THEN [client EXCEPT ![d].conn = "ready", ![d].session = s] ELSE client
     \/ /\ ~ Holds(i) \/ (record[d] = l.old /\ CountedOthers(l) >= Capacity)
        /\ logins' = logins \ {l}
        /\ client' = IF current THEN [client EXCEPT ![d].conn = "none", ![d].instance = {}] ELSE client
        /\ UNCHANGED <<record, admitted, proc>>
  /\ UNCHANGED <<cvars, lease, saved, faults, calls, pvars>>

\* A timeout, a closed queue or a lost connection: call() reconnects.
Hangup(c) == [c EXCEPT !.conn = "none", !.instance = {}]
GiveUp(d) ==
  /\ client[d].conn # "none"
  /\ client' = [client EXCEPT ![d] = Hangup(@)]
  /\ UNCHANGED <<cvars, rvars, proc, logins, calls, pvars>>

(***************************************************************************)
(* Sending.  The retry key belongs to the sender.                          *)
(***************************************************************************)
Send(d, k, c) ==
  /\ client[d].conn = "ready" /\ d \in Senders
  /\ client' = [client EXCEPT ![d].conn = "waiting"]
  /\ calls' = calls \cup {[device |-> d, session |-> client[d].session, instance |-> CHOOSE i \in client[d].instance : TRUE,
                           key |-> k, content |-> c, pc |-> "validate", raw |-> {}]}
  /\ UNCHANGED <<cvars, rvars, proc, logins, pvars>>

\* The answer reaches the device if it still waits on this session.
Answer(r, ok) ==
  LET d == r.device IN
  /\ calls' = calls \ {r}
  /\ client' = IF client[d].conn = "waiting" /\ client[d].session = r.session
               THEN [client EXCEPT ![d] =
                       IF ok THEN [@ EXCEPT !.conn = "ready", !.acked = @ \cup {<<r.key, r.content>>}] ELSE Hangup(@)]
               ELSE client
Drop(r) == calls' = calls \ {r} /\ UNCHANGED client
Moves(r, q) == calls' = (calls \ {r}) \cup {q} /\ UNCHANGED client

Validate(r) ==
  /\ r.pc = "validate" /\ proc[r.instance].pc = "on"
  /\ \/ /\ proc[r.instance].local[r.device].session = r.session /\ Valid(r.device, r.session)
        /\ Moves(r, [r EXCEPT !.pc = "read"]) /\ UNCHANGED proc
     \/ /\ proc[r.instance].local[r.device].session # r.session
        /\ Answer(r, FALSE) /\ UNCHANGED proc
     \/ /\ proc[r.instance].local[r.device].session = r.session /\ ~ Valid(r.device, r.session)
        /\ Answer(r, FALSE) /\ proc' = [proc EXCEPT ![r.instance] = LocalClosed(@, {r.device})]
  /\ UNCHANGED <<cvars, rvars, logins, pvars>>
ReadChannel(r) ==
  /\ r.pc = "read" /\ proc[r.instance].pc = "on"
  /\ IF UserOf[r.device] \in members THEN Moves(r, [r EXCEPT !.pc = "append", !.raw = members]) ELSE Answer(r, FALSE)
  /\ UNCHANGED <<cvars, rvars, proc, logins, pvars>>

\* _APPEND, in the order of the script.
Fenced_CurrentRecord(r) == ~ Valid(r.device, record[r.device].session)
Fenced(r) == ~ (Valid(r.device, r.session) /\ record[r.device].instance = r.instance)
Known(r) == {m \in 1..Len(log) : log[m].sender = UserOf[r.device] /\ log[m].key = r.key}
Entries(r) == SetToSeq({[user |-> u, id |-> Len(log) + 1, state |-> "pending", lock |-> {}, attempts |-> 0, shown |-> FALSE]
                          : u \in r.raw \ {UserOf[r.device]}})
SameMembers(r) == members = r.raw
Append_(r) ==
  /\ r.pc = "append"
  /\ \/ /\ Fenced(r)
        /\ Answer(r, FALSE) /\ UNCHANGED <<log, push>>
     \/ /\ ~ Fenced(r) /\ Known(r) # {}
        /\ Answer(r, \A m \in Known(r) : log[m].content = r.content) /\ UNCHANGED <<log, push>>
     \/ /\ ~ Fenced(r) /\ Known(r) = {} /\ ~ SameMembers(r)
        /\ Moves(r, [r EXCEPT !.pc = "read", !.raw = {}]) /\ UNCHANGED <<log, push>>
     \/ /\ ~ Fenced(r) /\ Known(r) = {} /\ SameMembers(r) /\ Len(log) < MaxMessages
        /\ log' = Append(log, [sender |-> UserOf[r.device], device |-> r.device, key |-> r.key, content |-> r.content,
                               members |-> r.raw, session |-> r.session])
        /\ push' = IF Workers = {} THEN push ELSE push \o Entries(r)
        /\ Answer(r, TRUE) \/ Drop(r)      \* WAIT fails or the answer is lost
  /\ UNCHANGED <<members, joined, rvars, proc, logins, worker>>
\* The process of a request is gone before it reached Redis.
Lost(r) ==
  /\ proc[r.instance].pc = "off" /\ r.pc # "append"
  /\ Drop(r)
  /\ UNCHANGED <<cvars, rvars, proc, logins, pvars>>

\* _ADD_MEMBER, by the owner.
AddMember(u) ==
  /\ u \notin members
  /\ members' = members \cup {u} /\ joined' = [joined EXCEPT ![u] = Len(log)]
  /\ UNCHANGED <<log, rvars, proc, dvars, pvars>>

(***************************************************************************)
(* The durable inbox.  Only a page of sync advances the client's cursor.   *)
(***************************************************************************)
Inbox(u, after) == {m \in 1..Len(log) : m > after /\ u \in log[m].members}
Page(S) == SubSeq(SetToSortSeq(S, <), 1, Min({PageSize, Cardinality(S)}))
NextCursor(c) == Last(c.page)
Receive(d) ==
  /\ client[d].conn = "ready" /\ client[d].page = <<>> /\ d \in Readers
  /\ Valid(d, client[d].session) /\ Inbox(UserOf[d], client[d].cursor) # {}
  /\ LET page == Page(Inbox(UserOf[d], client[d].cursor))
     IN client' = [client EXCEPT ![d].page = page, ![d].done = @ \cup ToSet(page)]
  /\ UNCHANGED <<cvars, rvars, proc, logins, calls, pvars>>
Acknowledge(d) ==
  /\ client[d].page # <<>>
  /\ client' = [client EXCEPT ![d].cursor = NextCursor(client[d]), ![d].page = <<>>]
  /\ UNCHANGED <<cvars, rvars, proc, logins, calls, pvars>>
\* The application stops after it processed a page; the cursor file remains.
ClientRestarts(d) ==
  /\ client[d].page # <<>>
  /\ client' = [client EXCEPT ![d] = Hangup([@ EXCEPT !.page = <<>>])]
  /\ UNCHANGED <<cvars, rvars, proc, logins, calls, pvars>>

(***************************************************************************)
(* _consume: live hints.                                                   *)
(***************************************************************************)
Recipients(i, upto) ==
  {d \in Devices : proc[i].local[d].session # 0 /\
     \E m \in proc[i].cursor + 1 .. upto : UserOf[d] \in log[m].members}
Fetch(i) ==
  LET upto == Min({Len(log), proc[i].cursor + BatchSize}) IN
  /\ proc[i].pc = "on" /\ i \in Consumers /\ proc[i].upto = 0 /\ proc[i].cursor < Len(log)
  /\ proc' = [proc EXCEPT ![i].upto = upto,
                          ![i].batch = {<<d, proc[i].local[d].session>> : d \in Recipients(i, upto)}]
  /\ UNCHANGED <<cvars, rvars, dvars, pvars>>

\* Hints for one session; a full queue disconnects it.
Hints(i, d) == {m \in proc[i].cursor + 1 .. proc[i].upto : UserOf[d] \in log[m].members}
Open(i) == {d \in Devices : \E s \in 1..admitted : <<d, s>> \in proc[i].batch /\ proc[i].local[d].session = s}
Fits(i, d) == proc[i].local[d].unread + Cardinality(Hints(i, d)) <= QueueSize
Enqueue(i) ==
  LET bad == {d \in Open(i) : ~ Valid(d, proc[i].local[d].session) \/ ~ Fits(i, d)} IN
  /\ proc[i].pc = "on" /\ proc[i].upto # 0 /\ proc[i].batch # {}
  /\ record' = WithoutRecords(bad, proc[i])
  /\ proc' = [proc EXCEPT ![i] =
       [LocalClosed(@, bad) EXCEPT !.batch = {},
          !.local = [d \in Devices |->
             IF d \in Open(i) \ bad
             THEN [@[d] EXCEPT !.hinted = @ \cup Hints(i, d), !.unread = @ + Cardinality(Hints(i, d))]
             ELSE @[d]]]]
  /\ UNCHANGED <<cvars, lease, saved, admitted, faults, dvars, pvars>>
\* Fenced by the lease; if it is lost the batch is read again later.
Checkpoint(i) ==
  /\ proc[i].pc = "on" /\ proc[i].upto # 0 /\ proc[i].batch = {}
  /\ \/ /\ Holds(i)
        /\ saved' = [saved EXCEPT ![NodeOf[i]] = proc[i].upto]
        /\ proc' = [proc EXCEPT ![i].cursor = proc[i].upto, ![i].upto = 0]
     \/ ~ Holds(i) /\ proc' = [proc EXCEPT ![i].upto = 0] /\ UNCHANGED saved
  /\ UNCHANGED <<cvars, lease, record, admitted, faults, dvars, pvars>>
ReadHint(i, d) ==
  /\ proc[i].local[d].session # 0 /\ proc[i].local[d].unread > 0
  /\ proc' = [proc EXCEPT ![i].local[d].unread = @ - 1]
  /\ UNCHANGED <<cvars, rvars, dvars, pvars>>

(***************************************************************************)
(* Offline push: a lock per entry, read state, look, deliver, settle.      *)
(***************************************************************************)
PushLock(w, e) ==
  /\ worker[w].pc = "idle" /\ push[e].state = "pending" /\ push[e].lock = {}
  /\ push' = [push EXCEPT ![e].lock = {w}]
  /\ worker' = [worker EXCEPT ![w] = [pc |-> "locked", entry |-> e]]
  /\ UNCHANGED <<cvars, rvars, proc, dvars>>
\* A lapsed lock of a worker is not the lock it takes next, so it stays busy
\* until it has seen the loss.
Owns(w) == push[worker[w].entry].lock = {w}
LockExpires(e) ==
  /\ push[e].lock # {} /\ faults < MaxFaults
  /\ push' = [push EXCEPT ![e].lock = {}] /\ faults' = faults + 1
  /\ UNCHANGED <<cvars, lease, record, saved, admitted, proc, dvars, worker>>
ReadState(w) ==
  /\ worker[w].pc = "locked"
  /\ worker' = [worker EXCEPT ![w] = [pc |-> "look", entry |-> @.entry, attempts |-> push[@.entry].attempts]]
  /\ UNCHANGED <<cvars, rvars, proc, dvars, push>>
Look(w) ==
  /\ worker[w].pc = "look"
  /\ worker' = [worker EXCEPT ![w].pc = IF Online(push[worker[w].entry].user) THEN "complete" ELSE "deliver"]
  /\ push' = IF Online(push[worker[w].entry].user) THEN [push EXCEPT ![worker[w].entry].shown = TRUE] ELSE push
  /\ UNCHANGED <<cvars, rvars, proc, dvars>>
Deliver(w) ==
  /\ worker[w].pc = "deliver"
  /\ \/ worker' = [worker EXCEPT ![w].pc = "complete"] /\ push' = [push EXCEPT ![worker[w].entry].shown = TRUE]
     \/ /\ worker' = [worker EXCEPT ![w].pc = "failed"]        \* error or timeout, delivered or not
        /\ \/ push' = [push EXCEPT ![worker[w].entry].shown = TRUE]
           \/ UNCHANGED push
  /\ UNCHANGED <<cvars, rvars, proc, dvars>>
\* _PUSH_COMPLETE, _PUSH_RETRY, and the release of the lock
Settled(w) ==
  LET e == push[worker[w].entry]
      n == worker[w].attempts + 1
  IN CASE worker[w].pc = "complete"                       -> [e EXCEPT !.state = "done"]
       [] worker[w].pc = "failed" /\ n >= MaxAttempts     -> [e EXCEPT !.state = "dead", !.attempts = n]
       [] worker[w].pc = "failed" /\ n < MaxAttempts      -> [e EXCEPT !.attempts = n]
Settle(w) ==
  /\ worker[w].pc \in {"complete", "failed"}
  /\ push' = IF Owns(w) /\ push[worker[w].entry].state = "pending"
             THEN [push EXCEPT ![worker[w].entry] = [Settled(w) EXCEPT !.lock = {}]]
             ELSE push
  /\ worker' = [worker EXCEPT ![w] = IdleWorker]
  /\ UNCHANGED <<cvars, rvars, proc, dvars>>
\* An error, or renewal finds the lock lost: the own lock is deleted.
Abandon(w) ==
  /\ worker[w].pc # "idle"
  /\ push' = IF Owns(w) THEN [push EXCEPT ![worker[w].entry].lock = {}] ELSE push
  /\ worker' = [worker EXCEPT ![w] = IdleWorker]
  /\ UNCHANGED <<cvars, rvars, proc, dvars>>

-----------------------------------------------------------------------------
NodeStep(i) ==
  \/ StartRead(i) \/ StartLease(i) \/ Renew(i) \/ ExpireSessions(i) \/ PruneSessions(i) \/ Close(i) \/ Crash(i)
  \/ Fetch(i) \/ Enqueue(i) \/ Checkpoint(i)
DeviceStep(d) ==
  \/ \E i \in Instances : Login(d, i) \/ ReadHint(i, d)
  \/ GiveUp(d) \/ Receive(d) \/ Acknowledge(d) \/ ClientRestarts(d) \/ SessionExpires(d)
  \/ \E k \in Keys, c \in Contents : Send(d, k, c)
WorkerStep(w) ==
  \/ \E e \in DOMAIN push : PushLock(w, e)
  \/ ReadState(w) \/ Look(w) \/ Deliver(w) \/ Settle(w) \/ Abandon(w)
Next ==
  \/ \E i \in Instances : NodeStep(i)
  \/ \E d \in Devices : DeviceStep(d)
  \/ \E w \in Workers : WorkerStep(w)
  \/ \E n \in Nodes : LeaseExpires(n)
  \/ \E l \in logins : Admit(l)
  \/ \E r \in calls : Validate(r) \/ ReadChannel(r) \/ Append_(r) \/ Lost(r)
  \/ \E u \in Users : AddMember(u)
  \/ \E e \in DOMAIN push : LockExpires(e)
Spec == Init /\ [][Next]_vars

-----------------------------------------------------------------------------
TypeOK ==
  /\ Owner \in members /\ members \subseteq Users /\ Len(log) <= MaxMessages
  /\ \A d \in Devices : record[d].session \in 0..admitted /\ client[d].session \in 0..admitted
  /\ \A i \in Instances : proc[i].pc \in {"new", "starting", "on", "off"} /\ proc[i].cursor \in 0..Len(log)
  /\ \A n \in Nodes : saved[n] \in -1..Len(log)

\* A retry key names one message, the acknowledged one (_APPEND, call).
OncePerKey ==
  /\ \A m, n \in DOMAIN log : log[m].sender = log[n].sender /\ log[m].key = log[n].key => m = n
  /\ \A d \in Devices : \A a \in client[d].acked :
       \E m \in DOMAIN log : log[m].sender = UserOf[d] /\ log[m].key = a[1] /\ log[m].content = a[2]
\* A member's inbox has exactly the messages since it joined (append, _ADD_MEMBER).
MembersReceive ==
  \A u \in members, m \in DOMAIN log : u \in log[m].members <=> m > joined[u]
\* Once a device has moved, no request of its earlier session appends (_ADMIT, _SESSION).
SessionsInOrder ==
  \A m, n \in DOMAIN log : m < n /\ log[m].device = log[n].device => log[m].session <= log[n].session
\* Everything up to a client's cursor was in a page it processed (receive, acknowledge).
NothingSkipped ==
  \A d \in Devices : \A m \in Inbox(UserOf[d], 0) : m <= client[d].cursor => m \in client[d].done
\* An open session was sent every message since its login, up to the position of its node (_consume).
HintsComplete ==
  \A i \in Instances, d \in Devices : proc[i].pc = "on" /\ proc[i].local[d].session # 0 =>
    \A m \in proc[i].local[d].since + 1 .. proc[i].cursor :
      UserOf[d] \in log[m].members => m \in proc[i].local[d].hinted
\* A push is completed only if it was delivered or its user was online, and
\* becomes a dead letter only after all attempts (_deliver_locked).
PushAccounted ==
  \A e \in DOMAIN push : /\ push[e].state = "done" => push[e].shown
                         /\ push[e].state = "dead" <=> push[e].attempts = MaxAttempts
ChatSound ==
  /\ TypeOK /\ OncePerKey /\ MembersReceive /\ SessionsInOrder
  /\ NothingSkipped /\ HintsComplete /\ PushAccounted
=============================================================================
