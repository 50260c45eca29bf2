-------------------------------- MODULE Mail --------------------------------
(***************************************************************************)
(* distributed-email-service: sharded mailboxes with a change log          *)
(* (store.py), outbound jobs and the senders that hand them to SMTP        *)
(* (worker.py, smtp.py), the durable spool and its receivers (spool.py,    *)
(* mail.py), asynchronous replicas (replication.py), and the cached        *)
(* listings and change polls of a mailbox (mailbox_views.py).  A database  *)
(* transaction is a step.  A delivery is its stable id: the sending user   *)
(* and the key of the request.                                             *)
(***************************************************************************)
EXTENDS Integers, Sequences, FiniteSets, FiniteSetsExt, SequencesExt

CONSTANTS
  Users, Authors, To,          \* To: the recipients of every message
  Shards, ShardOf,             \* ShardOf \in [Users -> Shards]
  Keys, Contents, Spam, Malformed,    \* contents the scanner moves aside and MIME it cannot parse
  Clients, Senders, Receivers,
  Loops,                       \* replication loops of a replica, two while it restarts
  Pollers, Listers,            \* users that poll changes and list their inbox
  PageSize, CacheSize,
  MaxSends, MaxAttempts, MaxUpdates, MaxFaults    \* bounds of the model

VARIABLES
  mails,       \* [Shards -> [MailIds -> {row}, {} without one]]
  log,         \* changes: [Shards -> <<[mail, row]>>]
  receipts,    \* [Deliveries -> {content}]
  outbox,      \* [Deliveries -> {[status, token, lapsed]}]
  spool,       \* [Deliveries -> {[content, status, token, lapsed]}]
  scanner,     \* FALSE while scanner_down
  call, sender, receiver,
  replica,     \* [Shards -> [mails, log]]
  feed,        \* [Shards \X Loops -> batch a loop fetched]
  poll,        \* [Pollers -> [cursor, view]]
  lister, cache,
  acked,       \* history: sends answered to a client
  sends, updates, faults

mvars == <<mails, log, receipts>>
jvars == <<outbox, spool, scanner>>
rvars == <<replica, feed>>
vvars == <<poll, lister, cache>>
bvars == <<sends, updates, faults>>
vars == <<mvars, jvars, call, sender, receiver, rvars, vvars, acked, bvars>>

Idle == [pc |-> "idle"]
Deliveries == Authors \X Keys
MailIds == {<<u, d, "sent">> : u \in Authors, d \in Deliveries} \cup {<<u, d, "inbox">> : u \in To, d \in Deliveries}
Home(m) == ShardOf[m[1]]
Fault == faults < MaxFaults /\ faults' = faults + 1
Only(S) == CHOOSE x \in S : TRUE
Assumption ==
  /\ Authors \cup To \subseteq Users /\ ShardOf \in [Users -> Shards]
  /\ Spam \cup Malformed \subseteq Contents
  /\ PageSize \in Nat \ {0} /\ CacheSize \in Nat

NoMails == [m \in MailIds |-> {}]
StoreInit ==
  /\ mails = [s \in Shards |-> NoMails] /\ log = [s \in Shards |-> <<>>]
  /\ receipts = [d \in Deliveries |-> {}] /\ outbox = [d \in Deliveries |-> {}]
  /\ replica = [s \in Shards |-> [mails |-> NoMails, log |-> <<>>]]
  /\ feed = [l \in Shards \X Loops |-> <<>>]
SpoolInit == spool = [d \in Deliveries |-> {}] /\ scanner = TRUE
ViewInit ==
  /\ poll = [u \in Pollers |-> [cursor |-> 0, view |-> NoMails]]
  /\ lister = [u \in Listers |-> Idle] /\ cache = {}
Init ==
  /\ StoreInit /\ SpoolInit /\ ViewInit
  /\ call = [c \in Clients |-> Idle] /\ sender = [w \in Senders |-> Idle] /\ receiver = [w \in Receivers |-> Idle]
  /\ acked = {} /\ sends = 0 /\ updates = 0 /\ faults = 0

\* insert_mail, update and settle write a row and record it in the change log.
Record(m, row) ==
  LET s == Home(m) IN
  /\ mails' = [mails EXCEPT ![s][m] = {row}]
  /\ log' = [log EXCEPT ![s] = Append(@, [mail |-> m, row |-> row])]
NewRow(c, folder, delivery) ==
  [content |-> c, folder |-> folder, delivery |-> delivery, read |-> FALSE, version |-> 1, deleted |-> FALSE]
Row(m) == Only(mails[Home(m)][m])
Exists(m) == mails[Home(m)][m] # {}

-----------------------------------------------------------------------------
(***************************************************************************)
(* Sending.                                                                *)
(***************************************************************************)
\* send: an earlier receipt answers the request, or its objects are put ...
SendStart(c, d, x) ==
  /\ call[c].pc = "idle" /\ sends < MaxSends /\ sends' = sends + 1
  /\ IF receipts[d] = {}
     THEN call' = [call EXCEPT ![c] = [pc |-> "enqueue", id |-> d, content |-> x]] /\ UNCHANGED acked
     ELSE acked' = (IF receipts[d] = {x} THEN acked \cup {<<d, x>>} ELSE acked) /\ UNCHANGED call
  /\ UNCHANGED <<mvars, jvars, sender, receiver, rvars, vvars, updates, faults>>
\* ... and enqueue looks again.
Enqueue(c) ==
  LET q == call[c]
      m == <<q.id[1], q.id, "sent">>
  IN
  /\ q.pc = "enqueue" /\ call' = [call EXCEPT ![c] = Idle]
  /\ IF receipts[q.id] = {}
     THEN /\ Record(m, NewRow(q.content, "sent", "queued")) /\ receipts' = [receipts EXCEPT ![q.id] = {q.content}]
          /\ outbox' = [outbox EXCEPT ![q.id] = {[status |-> "pending", token |-> 0, attempts |-> 0, lapsed |-> FALSE]}]
     ELSE UNCHANGED <<mvars, outbox>>
  /\ acked' = IF receipts'[q.id] = {q.content} THEN acked \cup {<<q.id, q.content>>} ELSE acked
  /\ UNCHANGED <<spool, scanner, sender, receiver, rvars, vvars, bvars>>

\* MailStore.claim
Claimable(j) == j.status = "pending" \/ (j.status = "inflight" /\ j.lapsed)
Claim(w, d) ==
  /\ sender[w].pc = "idle"
  /\ \E j \in outbox[d] :
       /\ Claimable(j) /\ j.attempts < MaxAttempts
       /\ outbox' = [outbox EXCEPT ![d] = {[status |-> "inflight", attempts |-> j.attempts + 1,
                                            token |-> j.attempts + 1, lapsed |-> FALSE]}]
       /\ sender' = [sender EXCEPT ![w] = [pc |-> "send", id |-> d, token |-> j.attempts + 1]]
  /\ UNCHANGED <<mvars, spool, scanner, call, receiver, rvars, vvars, acked, bvars>>
\* A lease runs out while its sender is still at work.
OutboxLapses(d) ==
  /\ Fault /\ \E j \in outbox[d] : /\ j.status = "inflight" /\ ~ j.lapsed
                                   /\ outbox' = [outbox EXCEPT ![d] = {[j EXCEPT !.lapsed = TRUE]}]
  /\ UNCHANGED <<mvars, spool, scanner, call, sender, receiver, rvars, vvars, acked, sends, updates>>

\* _smtp_send, and Spool.accept on the other side: the acknowledgement of a
\* message that was durably accepted can get lost.
Accepted(d, x) ==
  IF spool[d] # {} THEN spool
  ELSE [spool EXCEPT ![d] = {[content |-> x, status |-> "pending", token |-> 0, attempts |-> 0, lapsed |-> FALSE]}]
SmtpAccept(w) ==
  LET d == sender[w].id
      sent == Only(receipts[d])
      conflict == \E j \in spool[d] : j.content # sent
  IN
  /\ sender[w].pc = "send"
  /\ spool' = IF conflict THEN spool ELSE Accepted(d, sent)
  /\ \/ sender' = [sender EXCEPT ![w].pc = IF conflict THEN "error" ELSE "ok"] /\ UNCHANGED faults
     \/ Fault /\ sender' = [sender EXCEPT ![w].pc = "error"]
  /\ UNCHANGED <<mvars, outbox, scanner, call, receiver, rvars, vvars, acked, sends, updates>>
SmtpFails(w) ==
  /\ Fault /\ sender[w].pc = "send" /\ sender' = [sender EXCEPT ![w].pc = "error"]
  /\ UNCHANGED <<mvars, jvars, call, receiver, rvars, vvars, acked, sends, updates>>
\* MailStore.settle: only the lease that is still current
Held(w) == \E j \in outbox[sender[w].id] : j.status = "inflight" /\ j.token = sender[w].token /\ ~ j.lapsed
Settled(j, ok) == [j EXCEPT !.status = IF ok THEN "done" ELSE "pending", !.token = 0]
Settle(w) ==
  LET d == sender[w].id
      m == <<d[1], d, "sent">>
      ok == sender[w].pc = "ok"
  IN
  /\ sender[w].pc \in {"ok", "error"} /\ sender' = [sender EXCEPT ![w] = Idle]
  /\ IF Held(w) THEN outbox' = [outbox EXCEPT ![d] = {Settled(Only(@), ok)}] ELSE UNCHANGED outbox
  /\ IF Held(w) /\ ok THEN Record(m, [Row(m) EXCEPT !.delivery = "accepted", !.version = @ + 1])
     ELSE UNCHANGED <<mails, log>>
  /\ UNCHANGED <<receipts, spool, scanner, call, receiver, rvars, vvars, acked, bvars>>
SenderStops(w) ==
  /\ Fault /\ sender[w].pc # "idle" /\ sender' = [sender EXCEPT ![w] = Idle]
  /\ UNCHANGED <<mvars, jvars, call, receiver, rvars, vvars, acked, sends, updates>>

-----------------------------------------------------------------------------
(***************************************************************************)
(* Receiving.                                                              *)
(***************************************************************************)
Control ==
  /\ Fault /\ scanner' = ~ scanner
  /\ UNCHANGED <<mvars, outbox, spool, call, sender, receiver, rvars, vvars, acked, sends, updates>>
\* Spool.claim
SpoolClaim(w, d) ==
  /\ receiver[w].pc = "idle"
  /\ \E j \in spool[d] :
       /\ j.status = "pending" /\ (j.token = 0 \/ j.lapsed) /\ j.attempts < MaxAttempts
       /\ spool' = [spool EXCEPT ![d] = {[j EXCEPT !.token = j.attempts + 1, !.attempts = @ + 1, !.lapsed = FALSE]}]
       /\ receiver' = [receiver EXCEPT ![w] = [pc |-> "parse", id |-> d, token |-> j.attempts + 1, content |-> j.content]]
  /\ UNCHANGED <<mvars, outbox, scanner, call, sender, rvars, vvars, acked, bvars>>
SpoolLapses(d) ==
  /\ Fault /\ \E j \in spool[d] : /\ j.status = "pending" /\ j.token # 0 /\ ~ j.lapsed
                                  /\ spool' = [spool EXCEPT ![d] = {[j EXCEPT !.lapsed = TRUE]}]
  /\ UNCHANGED <<mvars, outbox, scanner, call, sender, receiver, rvars, vvars, acked, sends, updates>>
\* process_once: parse_received and the scanner ...
Folder(x) == IF x \in Spam THEN "spam" ELSE "inbox"
Parse(w) ==
  LET j == receiver[w] IN
  /\ j.pc = "parse"
  /\ receiver' = [receiver EXCEPT ![w] =
       CASE ~ scanner                         -> [pc |-> "pending", id |-> j.id, token |-> j.token]
         [] scanner /\ j.content \in Malformed -> [pc |-> "rejected", id |-> j.id, token |-> j.token]
         [] OTHER -> [pc |-> "deliver", id |-> j.id, token |-> j.token, todo |-> To,
                      row |-> NewRow(j.content, Folder(j.content), "received")]]
  /\ UNCHANGED <<mvars, jvars, call, sender, rvars, vvars, acked, bvars>>
\* ... then the primary of every recipient, one after the other; an answer
\* that is lost ends the attempt.
Deliver(w, u) ==
  LET j == receiver[w]
      m == <<u, j.id, "inbox">>
      left == j.todo \ {u}
  IN
  /\ j.pc = "deliver" /\ u \in j.todo
  /\ IF Exists(m) THEN UNCHANGED <<mails, log>> ELSE Record(m, j.row)
  /\ \/ receiver' = [receiver EXCEPT ![w] = IF left = {} THEN [pc |-> "done", id |-> j.id, token |-> j.token]
                                            ELSE [j EXCEPT !.todo = left]] /\ UNCHANGED faults
     \/ Fault /\ receiver' = [receiver EXCEPT ![w] = [pc |-> "pending", id |-> j.id, token |-> j.token]]
  /\ UNCHANGED <<receipts, jvars, call, sender, rvars, vvars, acked, sends, updates>>
\* Spool.settle
SpoolHeld(w, j) == j.status = "pending" /\ j.token = receiver[w].token /\ ~ j.lapsed
SpoolSettle(w) ==
  LET d == receiver[w].id IN
  /\ receiver[w].pc \in {"pending", "rejected", "done"} /\ receiver' = [receiver EXCEPT ![w] = Idle]
  /\ spool' = [spool EXCEPT ![d] = {IF SpoolHeld(w, j) THEN [j EXCEPT !.status = receiver[w].pc, !.token = 0] ELSE j : j \in @}]
  /\ UNCHANGED <<mvars, outbox, scanner, call, sender, rvars, vvars, acked, bvars>>
ReceiverStops(w) ==
  /\ Fault /\ receiver[w].pc # "idle" /\ receiver' = [receiver EXCEPT ![w] = Idle]
  /\ UNCHANGED <<mvars, jvars, call, sender, rvars, vvars, acked, sends, updates>>

\* MailStore.update with the version the message has
Update(m, delete) ==
  /\ Exists(m) /\ ~ Row(m).deleted /\ updates < MaxUpdates /\ updates' = updates + 1
  /\ Record(m, [Row(m) EXCEPT !.version = @ + 1, !.deleted = delete, !.read = IF delete THEN @ ELSE ~ @])
  /\ UNCHANGED <<receipts, jvars, call, sender, receiver, rvars, vvars, acked, sends, faults>>

-----------------------------------------------------------------------------
(***************************************************************************)
(* Replicas.                                                               *)
(***************************************************************************)
\* Replication.changes: a page after the replica's position
Page(s, after) == SubSeq(log[s], after + 1, Min({after + PageSize, Len(log[s])}))
Fetch(s, l) ==
  LET after == Len(replica[s].log) IN
  /\ feed[s, l] = <<>> /\ after < Len(log[s])
  /\ feed' = [feed EXCEPT ![s, l] = <<[first |-> after + 1, changes |-> Page(s, after)]>>]
  /\ UNCHANGED <<mvars, jvars, call, sender, receiver, replica, vvars, acked, bvars>>
\* apply: known changes are skipped, the next one must fit the row it changes.
Fits(old, row) ==
  IF old = {} THEN row.version = 1 /\ ~ row.read /\ ~ row.deleted
  ELSE LET o == Only(old) IN
       /\ row.version = o.version + 1 /\ (o.deleted => row.deleted)
       /\ row.content = o.content /\ row.folder = o.folder
       /\ row.delivery = o.delivery \/ (row.folder = "sent" /\ row.delivery = "accepted")
ApplyOne(rep, e) ==
  [mails |-> [rep.mails EXCEPT ![e.mail] = {e.row}], log |-> Append(rep.log, e)]
Fresh(rep, b) == SubSeq(b.changes, Len(rep.log) - b.first + 2, Len(b.changes))
Applied(rep, b) == FoldLeft(ApplyOne, rep, Fresh(rep, b))
Applicable(rep, b) ==
  LET new == Fresh(rep, b) IN
  /\ b.first <= Len(rep.log) + 1
  /\ \A i \in 1 .. Len(new) :
       Fits(FoldLeft(ApplyOne, rep, SubSeq(new, 1, i - 1)).mails[new[i].mail], new[i].row)
Apply(s, l) ==
  /\ feed[s, l] # <<>> /\ feed' = [feed EXCEPT ![s, l] = <<>>]
  /\ replica' = IF Applicable(replica[s], feed[s, l][1]) THEN [replica EXCEPT ![s] = Applied(@, feed[s, l][1])] ELSE replica
  /\ UNCHANGED <<mvars, jvars, call, sender, receiver, vvars, acked, bvars>>

-----------------------------------------------------------------------------
(***************************************************************************)
(* Views.                                                                  *)
(***************************************************************************)
MailsOf(u) == {m \in MailIds : m[1] = u}
\* MailboxViews.changes after the client's cursor, from the primary or, when
\* the gateway cannot reach it, from the replica
Events(u, source, after) == {i \in after + 1 .. Len(source) : source[i].mail \in MailsOf(u)}
FirstEvents(S, n) == {i \in S : Cardinality({k \in S : k <= i}) <= n}
Poll(u, source) ==
  LET after == poll[u].cursor
      all == Events(u, source, after)
      page == FirstEvents(all, PageSize)
      last(m) == {i \in page : source[i].mail = m}
  IN
  /\ after < Len(source)
  /\ poll' = [poll EXCEPT ![u] =
       [cursor |-> IF page = all THEN Len(source) ELSE Max(page),
        view |-> [m \in MailIds |-> IF last(m) = {} THEN @.view[m] ELSE {source[Max(last(m))].row}]]]
  /\ UNCHANGED <<mvars, jvars, call, sender, receiver, rvars, lister, cache, acked, bvars>>

\* MailboxViews.listing reads the position, then the rows, in two transactions.
Inbox(u, rows) == {<<m, Only(rows[m]).version>> : m \in {n \in MailsOf(u) :
                     \E r \in rows[n] : ~ r.deleted /\ r.folder = "inbox"}}
ListStart(u) ==
  /\ lister[u].pc = "idle" /\ lister' = [lister EXCEPT ![u] = [pc |-> "lookup", position |-> Len(log[ShardOf[u]])]]
  /\ UNCHANGED <<mvars, jvars, call, sender, receiver, rvars, poll, cache, acked, bvars>>
Cached(u, position) == {e \in cache : e.user = u /\ e.position = position}
Remember_OldKey(u) ==
  LET s == ShardOf[u] IN [user |-> u, position |-> lister[u].position, value |-> Inbox(u, mails[s])]
Remember(u) ==
  LET s == ShardOf[u] IN [user |-> u, position |-> Len(log[s]), value |-> Inbox(u, mails[s])]
ListEnd(u) ==
  LET e == Remember(u)
      others == cache \ Cached(u, e.position)
  IN
  /\ lister[u].pc = "lookup" /\ lister' = [lister EXCEPT ![u] = Idle]
  /\ IF Cached(u, lister[u].position) # {} \/ CacheSize = 0 THEN UNCHANGED cache
     ELSE \E out \in SUBSET others : /\ Cardinality(others \ out) = Min({CacheSize - 1, Cardinality(others)})
                                     /\ cache' = (others \ out) \cup {e}
  /\ UNCHANGED <<mvars, jvars, call, sender, receiver, rvars, poll, acked, bvars>>

-----------------------------------------------------------------------------
SendStep ==
  \/ \E c \in Clients : Enqueue(c) \/ \E d \in Deliveries, x \in Contents : SendStart(c, d, x)
  \/ \E w \in Senders : \/ \E d \in Deliveries : Claim(w, d)
                        \/ SmtpAccept(w) \/ SmtpFails(w) \/ Settle(w) \/ SenderStops(w)
  \/ \E d \in Deliveries : OutboxLapses(d)
ReceiveStep ==
  \/ \E w \in Receivers : \/ \E d \in Deliveries : SpoolClaim(w, d)
                          \/ \E u \in To : Deliver(w, u)
                          \/ Parse(w) \/ SpoolSettle(w) \/ ReceiverStops(w)
  \/ \E d \in Deliveries : SpoolLapses(d)
  \/ Control
ViewStep ==
  \/ \E m \in MailIds, delete \in BOOLEAN : Update(m, delete)
  \/ \E s \in Shards, l \in Loops : Fetch(s, l) \/ Apply(s, l)
  \/ \E u \in Pollers : \E source \in {log[ShardOf[u]], replica[ShardOf[u]].log} : Poll(u, source)
  \/ \E u \in Listers : ListStart(u) \/ ListEnd(u)
Next == SendStep \/ ReceiveStep \/ ViewStep
Spec == Init /\ [][Next]_vars

-----------------------------------------------------------------------------
\* Types of rows, jobs and cursors.
TypeOK ==
  /\ \A s \in Shards, m \in MailIds : Cardinality(mails[s][m]) <= 1 /\ (mails[s][m] # {} => s = Home(m))
  /\ \A d \in Deliveries : /\ \A j \in outbox[d] : j.status \in {"pending", "inflight", "done"}
                           /\ \A j \in spool[d] : j.status \in {"pending", "done", "rejected"}
  /\ scanner \in BOOLEAN /\ Cardinality(cache) <= CacheSize
  /\ \A u \in Pollers : poll[u].cursor \in 0 .. Len(log[ShardOf[u]])

\* A message a client was told is sent is on its way: it stays what the client
\* sent, is only called accepted once the spool has it, is only settled in the
\* spool once every recipient has it (or it cannot be parsed), and reaches no
\* mailbox without (store.py settle, spool.py process_once).
NothingDropped ==
  /\ \A a \in acked : receipts[a[1]] = {a[2]} /\ outbox[a[1]] # {}
  /\ \A d \in Deliveries :
       /\ \A j \in outbox[d] : /\ (j.status = "done") = (Row(<<d[1], d, "sent">>).delivery = "accepted")
                               /\ j.status = "done" => spool[d] # {}
       /\ \A j \in spool[d] :
            /\ {j.content} = receipts[d] /\ (j.status = "rejected" => j.content \in Malformed)
            /\ j.status = "done" => \A u \in To : Exists(<<u, d, "inbox">>)
       /\ \A u \in To : Exists(<<u, d, "inbox">>) =>
            {Row(<<u, d, "inbox">>).content} = receipts[d] /\ Row(<<u, d, "inbox">>).content \notin Malformed
\* The change log determines every row, a replica is the rows of the prefix it
\* has and can always apply the next change (replication.py).
RowsAt(changes) == FoldLeft(LAMBDA rows, e : [rows EXCEPT ![e.mail] = {e.row}], NoMails, changes)
ReplicasFollow ==
  \A s \in Shards :
    LET n == Len(replica[s].log) IN
    /\ mails[s] = RowsAt(log[s]) /\ n <= Len(log[s])
    /\ replica[s] = [mails |-> RowsAt(SubSeq(log[s], 1, n)), log |-> SubSeq(log[s], 1, n)]
    /\ n < Len(log[s]) => Applicable(replica[s], [first |-> n + 1, changes |-> Page(s, n)])
\* A client that polls from its cursor, at the primary or at the replica, has
\* exactly the mailbox of that position, and a cached listing is the one of the
\* position it is filed under (mailbox_views.py).
ViewsExact ==
  /\ \A u \in Pollers :
       LET rows == RowsAt(SubSeq(log[ShardOf[u]], 1, poll[u].cursor)) IN
       \A m \in MailsOf(u) : poll[u].view[m] = rows[m]
  /\ \A e \in cache : e.value = Inbox(e.user, RowsAt(SubSeq(log[ShardOf[e.user]], 1, e.position)))
\* Delivery without loss, replicas that follow, views of one position.
MailSound == TypeOK /\ NothingDropped /\ ReplicasFollow /\ ViewsExact
=============================================================================
