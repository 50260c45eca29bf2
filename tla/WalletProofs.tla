---------------------------- MODULE WalletProofs ----------------------------
(***************************************************************************)
(* Proofs that the wallet is all-or-nothing for every set of accounts,     *)
(* shards, transactions and intents, and for every bound.                  *)
(*                                                                         *)
(* The inductive invariant relates four things: what a command decided     *)
(* (c), the journal event that may be durable without a quorum (p), what   *)
(* the shards recorded, and the requests that may still arrive.  It is     *)
(* stated for any c and p, so that a journal append, which first absorbs   *)
(* an older pending event, is two applications of one lemma.               *)
(***************************************************************************)
EXTENDS WalletCoordinator, SumTheorems

Src(c, t) == shard[ShardFor[c[t].intent.from]].parts[t].status
Dst(c, t) == shard[ShardFor[c[t].intent.to]].parts[t].status
CrossIn(c, t) == c[t] # NoCommand /\ ~IsLocal(c[t].intent)

\* A participant record belongs to an accepted command, and is where the
\* routing of that command puts it.
PartsOK(c) ==
  \A s \in Shards, t \in Txns :
    LET part == shard[s].parts[t]
    IN  part # NoPart =>
          /\ c[t] # NoCommand
          /\ part.intent = c[t].intent
          /\ part.role = "local" <=> IsLocal(part.intent)
          /\ part.role = "local" => part.status \in {"CONFIRMED", "REJECTED"}
          /\ ShardFor[RoleAccount(part.intent, part.role)] = s

\* A request under way repeats an accepted intent; a confirm or a cancel
\* follows its committed decision.
MessageOK(c, m) ==
  /\ m \in Message
  /\ c[m.txn] # NoCommand
  /\ m.intent = c[m.txn].intent
  /\ m.role = "local" <=> IsLocal(m.intent)
  /\ m.kind = "local" <=> m.role = "local"
  /\ m.kind = "confirm" => c[m.txn].decision = "COMMIT"
  /\ m.kind = "cancel" => c[m.txn].decision = "CANCEL"
  /\ m.kind = "confirm" /\ m.role = "destination" => Src(c, m.txn) = "CONFIRMED"
  /\ m.epoch <= epoch

NetOK(c) == \A m \in net : MessageOK(c, m)

\* What the shards recorded for a cross-shard command agrees with it.
CommandOK(c, t) ==
  /\ c[t] # NoCommand /\ IsLocal(c[t].intent) =>
       /\ c[t].decision = "NONE"
       /\ c[t].status = "SUCCEEDED" => Src(c, t) = "CONFIRMED"
       /\ c[t].status = "REJECTED" => Src(c, t) = "REJECTED"
  /\ CrossIn(c, t) =>
       /\ Src(c, t) = "CONFIRMED" => c[t].decision = "COMMIT"
       /\ Dst(c, t) = "CONFIRMED" => Src(c, t) = "CONFIRMED"
       /\ c[t].decision = "COMMIT" =>
            /\ Src(c, t) \in {"PREPARED", "CONFIRMED"}
            /\ Dst(c, t) \in {"PREPARED", "CONFIRMED"}
       /\ Src(c, t) = "CANCELED" \/ Dst(c, t) = "CANCELED" =>
            c[t].decision = "CANCEL"
       /\ c[t].status = "SUCCEEDED" => Dst(c, t) = "CONFIRMED"
       /\ c[t].status = "CANCELED" => Src(c, t) = "CANCELED" /\ Dst(c, t) = "CANCELED"

StatusOK(c) == \A t \in Txns : CommandOK(c, t)

\* The pending event still applies: nothing that can happen while it waits for
\* a quorum takes away what justified it.
PendingOK(c, p) ==
  /\ p.kind = "accepted" => c[p.txn] = NoCommand
  /\ p.kind = "decision" =>
       /\ c[p.txn].status = "PENDING"
       /\ c[p.txn].decision = "NONE"
       /\ ~IsLocal(c[p.txn].intent)
       /\ p.decision = "COMMIT" =>
            Src(c, p.txn) = "PREPARED" /\ Dst(c, p.txn) = "PREPARED"
  /\ p.kind = "completed" =>
       /\ c[p.txn].status = "PENDING"
       /\ IsLocal(c[p.txn].intent) =>
            \/ p.status = "SUCCEEDED" /\ Src(c, p.txn) = "CONFIRMED"
            \/ p.status = "REJECTED" /\ Src(c, p.txn) = "REJECTED"
       /\ ~IsLocal(c[p.txn].intent) =>
            \/ /\ p.status = "SUCCEEDED"
               /\ c[p.txn].decision = "COMMIT"
               /\ Src(c, p.txn) = "CONFIRMED" /\ Dst(c, p.txn) = "CONFIRMED"
            \/ /\ p.status = "CANCELED"
               /\ c[p.txn].decision = "CANCEL"
               /\ Src(c, p.txn) = "CANCELED" /\ Dst(c, p.txn) = "CANCELED"

CommandType == [Txns -> Command \cup {NoCommand}]
EventType   == JournalEvents \cup {NoEvent}

Good(c, p) ==
  /\ c \in CommandType
  /\ p \in EventType
  /\ PartsOK(c)
  /\ NetOK(c)
  /\ StatusOK(c)
  /\ PendingOK(c, p)

\* What a worker step has read is still true when it acts on it.
Fresh(seen, actual) ==
  /\ seen \in {"CONFIRMED", "CANCELED"} => actual = seen
  /\ seen = "PREPARED" /\ cmd[cursor].decision = "NONE" => actual = "PREPARED"

StepOK ==
  /\ pc = "audit" => pending = NoEvent
  /\ pc \notin {"idle", "audit"} =>
    /\ cursor \in Txns
    /\ pending = NoEvent
    /\ retries[cursor].failures < DeadAfter
    /\ cmd[cursor] # NoCommand
    /\ pc # "clear" => cmd[cursor].status = "PENDING"
    /\ pc = "readRight" => ~IsLocal(cmd[cursor].intent)
    /\ pc \in {"readRight", "act", "reply"} /\ ~IsLocal(cmd[cursor].intent) =>
         Fresh(left, Src(cmd, cursor))
    /\ pc \in {"act", "reply"} /\ ~IsLocal(cmd[cursor].intent) =>
         Fresh(right, Dst(cmd, cursor))
    /\ pc \in {"act", "reply"} /\ IsLocal(cmd[cursor].intent) =>
         left = "ABSENT" \/ left = Src(cmd, cursor)
    /\ pc = "reply" => Advance.do = "send"

IInv == TypeOK /\ Good(cmd, pending) /\ StepOK

-----------------------------------------------------------------------------
(***************************************************************************)
(* The journal.                                                            *)
(***************************************************************************)

\* Committing the pending event keeps every agreement between the commands,
\* the shards and the requests under way (project, Journal.sync).
LEMMA Absorb ==
  ASSUME NEW c, NEW p, Good(c, p)
  PROVE  Good(ProjectCmd(c, p), NoEvent)
<1> SUFFICES ASSUME NEW d, d = ProjectCmd(c, p)
             PROVE  Good(d, NoEvent)
  OBVIOUS
<1>0. c \in CommandType /\ p \in EventType
  BY DEF Good
<1>1. d \in CommandType
  BY DEF Good, PendingOK, ProjectCmd, CommandType, EventType, JournalEvents,
         NoEvent, Command, NoCommand
<1>2. ASSUME NEW t \in Txns, c[t] # NoCommand
      PROVE  /\ d[t] # NoCommand
             /\ d[t].intent = c[t].intent
             /\ c[t].decision # "NONE" => d[t].decision = c[t].decision
  BY <1>0, <1>2 DEF Good, PendingOK, ProjectCmd, CommandType, EventType,
         JournalEvents, NoEvent, Command, NoCommand
<1>3. PartsOK(d)
  BY SMTT(60), <1>2 DEF Good, PartsOK
<1>4. NetOK(d)
  <2> SUFFICES ASSUME NEW m \in net PROVE MessageOK(d, m)
    BY DEF NetOK
  <2>1. MessageOK(c, m) /\ m.txn \in Txns
    BY DEF Good, NetOK, MessageOK, Message
  <2> QED
    BY <1>2, <2>1 DEF MessageOK, Src
<1>5. StatusOK(d)
  <2> SUFFICES ASSUME NEW t \in Txns PROVE CommandOK(d, t)
    BY DEF StatusOK
  <2>0. CommandOK(c, t) /\ PendingOK(c, p)
    BY DEF Good, StatusOK
  <2>1. CASE p.kind = "none" \/ p.txn # t
    <3>1. d[t] = c[t]
      BY <1>0, <2>1 DEF ProjectCmd, EventType, JournalEvents, NoEvent, CommandType
    <3>2. Src(d, t) = Src(c, t) /\ Dst(d, t) = Dst(c, t)
      BY <3>1 DEF Src, Dst
    <3>3. CrossIn(d, t) = CrossIn(c, t)
      BY <3>1 DEF CrossIn
    <3> QED
      BY <2>0, <3>1, <3>2, <3>3 DEF CommandOK
  <2>2. CASE p.kind = "accepted" /\ p.txn = t
    <3>1. /\ d[t].decision = "NONE" /\ d[t].status = "PENDING"
          /\ \A s \in Shards : shard[s].parts[t] = NoPart
      BY <1>0, <2>0, <2>2 DEF ProjectCmd, CommandType, PendingOK, Good, PartsOK
    <3>2. d[t] # NoCommand => Src(d, t) = "ABSENT" /\ Dst(d, t) = "ABSENT"
      BY <1>1, <3>1, WalletAssumption DEF Src, Dst, NoPart, CommandType, Command
    <3> QED
      BY <3>1, <3>2 DEF CommandOK, CrossIn
  <2>3. CASE p.kind = "decision" /\ p.txn = t
    <3>1. /\ d[t].decision = p.decision /\ d[t].status = "PENDING"
          /\ d[t].intent = c[t].intent
          /\ p.decision \in {"COMMIT", "CANCEL"}
      BY <1>0, <2>0, <2>3 DEF ProjectCmd, CommandType, Command, NoCommand, PendingOK,
         EventType, JournalEvents, NoEvent
    <3>2. c[t] # NoCommand
      BY <2>0, <2>3 DEF PendingOK, NoCommand
    <3> QED
      BY <2>0, <2>3, <3>1, <3>2 DEF CommandOK, CrossIn, PendingOK, Src, Dst
  <2>4. CASE p.kind = "completed" /\ p.txn = t
    <3>1. /\ d[t].decision = c[t].decision /\ d[t].status = p.status
          /\ d[t].intent = c[t].intent
      BY <1>0, <2>0, <2>4 DEF ProjectCmd, CommandType, Command, NoCommand, PendingOK,
         EventType, JournalEvents, NoEvent
    <3>2. c[t] # NoCommand
      BY <2>0, <2>4 DEF PendingOK, NoCommand
    <3> QED
      BY <2>0, <2>4, <3>1, <3>2 DEF CommandOK, CrossIn, PendingOK, Src, Dst
  <2> QED
    BY <1>0, <2>1, <2>2, <2>3, <2>4 DEF EventType, JournalEvents, NoEvent
<1>6. PendingOK(d, NoEvent)
  BY DEF PendingOK, NoEvent
<1>7. NoEvent \in EventType
  BY DEF EventType
<1> QED
  BY <1>1, <1>3, <1>4, <1>5, <1>6, <1>7 DEF Good

-----------------------------------------------------------------------------
(***************************************************************************)
(* The shards.                                                             *)
(***************************************************************************)

\* The changes that one command can make to a participant record.
Moves(old, m, new) ==
  /\ new.intent = m.intent
  /\ new.role = m.role
  /\ ~Conflicts(old, m)
  /\ \/ m.kind = "local" /\ old = NoPart /\ new.status \in {"CONFIRMED", "REJECTED"}
     \/ m.kind = "prepare" /\ old = NoPart /\ new.status \in {"PREPARED", "REJECTED"}
     \/ m.kind = "confirm" /\ old.status = "PREPARED" /\ new.status = "CONFIRMED"
     \/ /\ m.kind = "cancel"
        /\ old.status \in {"ABSENT", "PREPARED", "REJECTED"}
        /\ new.status = "CANCELED"

ShardType ==
  /\ shard = [s \in Shards |-> [accounts |-> shard[s].accounts,
                                parts |-> shard[s].parts]]
  /\ \A s \in Shards :
       /\ shard[s].accounts \in [AccountsOf(s) -> Balance]
       /\ shard[s].parts \in [Txns -> Part \cup {NoPart}]

\* A request reaches the shard that its intent and role name.
LEMMA Routing ==
  ASSUME NEW m \in Message
  PROVE  /\ ToShard(m) \in Shards
         /\ m.txn \in Txns /\ m.intent \in Intents
         /\ m.kind \in Kinds /\ m.role \in Roles
         /\ m.intent.amount \in Nat
  BY WalletAssumption DEF Message, ToShard, RoleAccount

\* One event changes one participant record and leaves balances integers.
LEMMA ReduceMoves ==
  ASSUME NEW m \in Message, NEW s \in Shards, ShardType,
         ~Refuses(s, shard[s], m), ~Replays(shard[s].parts[m.txn], m)
  PROVE  LET next == ReduceEvent(shard[s], m)
         IN  /\ next = [accounts |-> next.accounts, parts |-> next.parts]
             /\ next.accounts \in [AccountsOf(s) -> Balance]
             /\ next.parts \in [Txns -> Part \cup {NoPart}]
             /\ \A t \in Txns \ {m.txn} : next.parts[t] = shard[s].parts[t]
             /\ Moves(shard[s].parts[m.txn], m, next.parts[m.txn])
<1> DEFINE st == shard[s]
           next == ReduceEvent(st, m)
           old == st.parts[m.txn]
<1>1. next = [accounts |-> next.accounts, parts |-> next.parts]
  BY DEF ReduceEvent
<1>2. /\ st.accounts \in [AccountsOf(s) -> Balance]
      /\ st.parts \in [Txns -> Part \cup {NoPart}]
  BY DEF ShardType
<1>3. next.accounts \in [AccountsOf(s) -> Balance]
  <2>1. \A a \in AccountsOf(s) : /\ AvailableDelta(st.accounts, old.status, m, a) \in Int
                                 /\ HeldDelta(st.accounts, old.status, m, a) \in Int
    BY Routing DEF AvailableDelta, HeldDelta
  <2>2. \A a \in AccountsOf(s) : st.accounts[a].available \in Int /\ st.accounts[a].held \in Int
    BY <1>2 DEF Balance
  <2>3. next.accounts = [a \in AccountsOf(s) |->
           [available |-> st.accounts[a].available + AvailableDelta(st.accounts, old.status, m, a),
            held |-> st.accounts[a].held + HeldDelta(st.accounts, old.status, m, a)]]
    BY <1>2 DEF ReduceEvent
  <2> QED
    BY <2>1, <2>2, <2>3 DEF Balance
<1>4. StatusAfter(st.accounts, m) \in Statuses
  BY Routing DEF StatusAfter, Statuses, Kinds
<1>5. next.parts = [st.parts EXCEPT ![m.txn] =
         [intent |-> m.intent, role |-> m.role, status |-> StatusAfter(st.accounts, m)]]
  BY DEF ReduceEvent
<1>6. next.parts \in [Txns -> Part \cup {NoPart}]
  BY <1>2, <1>4, <1>5, Routing DEF Part
<1>7. \A t \in Txns \ {m.txn} : next.parts[t] = st.parts[t]
  BY <1>2, <1>5
<1>8. next.parts[m.txn] = [intent |-> m.intent, role |-> m.role,
                           status |-> StatusAfter(st.accounts, m)]
  BY <1>2, <1>5, Routing
<1>9. Moves(old, m, next.parts[m.txn])
  <2>1. ~Conflicts(old, m) /\ ~ReduceRaises(st, m)
    BY DEF Refuses
  <2>2. old \in Part \cup {NoPart}
    BY <1>2, Routing
  <2>3. old.status \in Statuses \cup {"ABSENT"}
    BY <2>2 DEF Part, NoPart
  <2> QED
    BY <1>8, <2>1, <2>2, <2>3, Routing
       DEF Moves, ReduceRaises, StatusAfter, Statuses, Kinds, NoPart, Part
<1> QED
  BY <1>1, <1>3, <1>6, <1>7, <1>9

\* What Shard.action does to the participant records.
LEMMA ExecuteMoves ==
  ASSUME NEW m \in Message, ShardType, Execute(m)
  PROVE  /\ ShardType'
         /\ \A s \in Shards, t \in Txns :
              s # ToShard(m) \/ t # m.txn => shard'[s].parts[t] = shard[s].parts[t]
         /\ LET old == shard[ToShard(m)].parts[m.txn]
                new == shard'[ToShard(m)].parts[m.txn]
            IN  new = old \/ (~Fenced(m) /\ Moves(old, m, new))
<1> DEFINE s0 == ToShard(m)
<1>0. s0 \in Shards /\ m.txn \in Txns
  BY Routing
<1>1. CASE shard' = shard
  BY <1>1 DEF ShardType
<1>2. CASE /\ ~Fenced(m)
           /\ ~Refuses(s0, shard[s0], m)
           /\ ~Replays(shard[s0].parts[m.txn], m)
  <2> DEFINE next == ReduceEvent(shard[s0], m)
  <2>1. shard' = [shard EXCEPT ![s0] = next]
    BY <1>2 DEF Execute, ActionState
  <2>2. \A s \in Shards : shard'[s] = IF s = s0 THEN next ELSE shard[s]
    BY <1>0, <2>1 DEF ShardType
  <2>3. /\ next = [accounts |-> next.accounts, parts |-> next.parts]
        /\ next.accounts \in [AccountsOf(s0) -> Balance]
        /\ next.parts \in [Txns -> Part \cup {NoPart}]
        /\ \A t \in Txns \ {m.txn} : next.parts[t] = shard[s0].parts[t]
        /\ Moves(shard[s0].parts[m.txn], m, next.parts[m.txn])
    BY <1>0, <1>2, ReduceMoves
  <2>4. shard' = [s \in Shards |-> IF s = s0 THEN next ELSE shard[s]]
    BY <1>0, <2>1 DEF ShardType
  <2> HIDE DEF next
  <2>5. shard' = [s \in Shards |-> [accounts |-> shard'[s].accounts,
                                    parts |-> shard'[s].parts]]
    <3>1. \A s \in Shards : shard[s] = [accounts |-> shard[s].accounts,
                                        parts |-> shard[s].parts]
      BY DEF ShardType
    <3>2. \A s \in Shards : shard'[s] = [accounts |-> shard'[s].accounts,
                                         parts |-> shard'[s].parts]
      BY <2>2, <2>3, <3>1
    <3> QED
      BY <2>2, <2>4, <3>2
  <2>6. \A s \in Shards : /\ shard'[s].accounts \in [AccountsOf(s) -> Balance]
                          /\ shard'[s].parts \in [Txns -> Part \cup {NoPart}]
    BY <2>2, <2>3 DEF ShardType
  <2>7. ShardType'
    BY <2>5, <2>6 DEF ShardType
  <2>8. \A s \in Shards, t \in Txns :
          s # s0 \/ t # m.txn => shard'[s].parts[t] = shard[s].parts[t]
    BY <2>2, <2>3
  <2>9. shard'[s0].parts[m.txn] = next.parts[m.txn]
    BY <1>0, <2>2
  <2> QED
    BY <1>2, <2>3, <2>7, <2>8, <2>9
<1>3. CASE /\ ~Fenced(m)
           /\ Refuses(s0, shard[s0], m) \/ Replays(shard[s0].parts[m.txn], m)
  <2>1. shard' = [shard EXCEPT ![s0] = shard[s0]]
    BY <1>3 DEF Execute, ActionState
  <2>2. shard' = shard
    BY <1>0, <2>1 DEF ShardType
  <2> QED
    BY <2>2, <1>1
<1> QED
  BY <1>1, <1>2, <1>3 DEF Execute

\* How one command moves the status of a participant of command t.
StatusStep(c, t, old, new, source) ==
  \/ new = old
  \/ /\ old = "ABSENT"
     /\ new \in {"PREPARED", "REJECTED"}
  \/ /\ old = "PREPARED" /\ new = "CONFIRMED"
     /\ c[t].decision = "COMMIT"
     /\ source \/ Src(c, t) = "CONFIRMED"
  \/ /\ old \in {"ABSENT", "PREPARED", "REJECTED"} /\ new = "CANCELED"
     /\ c[t].decision = "CANCEL"

\* A request executed at any time, late ones included, moves the participants
\* of a cross-shard command only as its committed decision allows.
LEMMA ExecuteStatus ==
  ASSUME NEW m, m \in net, ShardType, Good(cmd, pending), Execute(m),
         UNCHANGED cmd, NEW t \in Txns, CrossIn(cmd, t)
  PROVE  /\ StatusStep(cmd, t, Src(cmd, t), Src(cmd, t)', TRUE)
         /\ StatusStep(cmd, t, Dst(cmd, t), Dst(cmd, t)', FALSE)
<1> DEFINE i == cmd[t].intent
           from == ShardFor[i.from]
           to == ShardFor[i.to]
<1>1. MessageOK(cmd, m) /\ m \in Message
  BY DEF Good, NetOK, MessageOK
<1>2. /\ i \in Intents /\ from \in Shards /\ to \in Shards /\ from # to
  BY WalletAssumption DEF Good, CommandType, Command, CrossIn, IsLocal
<1>3. /\ Src(cmd, t) = shard[from].parts[t].status
      /\ Dst(cmd, t) = shard[to].parts[t].status
      /\ Src(cmd, t)' = shard'[from].parts[t].status
      /\ Dst(cmd, t)' = shard'[to].parts[t].status
  BY DEF Src, Dst
<1>4. CASE m.txn # t
  <2>1. shard'[from].parts[t] = shard[from].parts[t]
    BY <1>1, <1>2, <1>4, ExecuteMoves
  <2>2. shard'[to].parts[t] = shard[to].parts[t]
    BY <1>1, <1>2, <1>4, ExecuteMoves
  <2> QED
    BY <1>3, <2>1, <2>2 DEF StatusStep
<1>5. CASE m.txn = t
  <2>1. /\ m.intent = i /\ m.role \in {"source", "destination"} /\ m.kind # "local"
        /\ m.kind \in Kinds
    BY <1>1, <1>5, Routing DEF MessageOK, CrossIn, Roles
  <2>2. CASE m.role = "source"
    <3>1. ToShard(m) = from
      BY <2>1, <2>2 DEF ToShard, RoleAccount
    <3>2. shard'[to].parts[t] = shard[to].parts[t]
      BY <1>1, <1>2, <3>1, ExecuteMoves
    <3>3. \/ shard'[from].parts[t] = shard[from].parts[t]
          \/ Moves(shard[from].parts[t], m, shard'[from].parts[t])
      BY <1>1, <1>2, <1>5, <3>1, ExecuteMoves
    <3>4. ASSUME NEW old, NEW new, Moves(old, m, new)
          PROVE  StatusStep(cmd, t, old.status, new.status, TRUE)
      <4>1. old = NoPart => old.status = "ABSENT"
        BY DEF NoPart
      <4> QED
        BY <1>1, <1>5, <2>1, <2>2, <3>4, <4>1 DEF Moves, StatusStep, MessageOK
    <3> QED
      BY <1>3, <3>2, <3>3, <3>4 DEF StatusStep
  <2>3. CASE m.role = "destination"
    <3>1. ToShard(m) = to
      BY <2>1, <2>3 DEF ToShard, RoleAccount
    <3>2. shard'[from].parts[t] = shard[from].parts[t]
      BY <1>1, <1>2, <3>1, ExecuteMoves
    <3>3. \/ shard'[to].parts[t] = shard[to].parts[t]
          \/ Moves(shard[to].parts[t], m, shard'[to].parts[t])
      BY <1>1, <1>2, <1>5, <3>1, ExecuteMoves
    <3>4. ASSUME NEW old, NEW new, Moves(old, m, new)
          PROVE  StatusStep(cmd, t, old.status, new.status, FALSE)
      <4>1. old = NoPart => old.status = "ABSENT"
        BY DEF NoPart
      <4> QED
        BY <1>1, <1>5, <2>1, <2>3, <3>4, <4>1 DEF Moves, StatusStep, MessageOK
    <3> QED
      BY <1>3, <3>2, <3>3, <3>4 DEF StatusStep
  <2> QED
    BY <2>1, <2>2, <2>3
<1> QED
  BY <1>4, <1>5

\* A local transfer that was carried out or rejected is never touched again.
LEMMA ExecuteLocal ==
  ASSUME NEW m, m \in net, ShardType, Good(cmd, pending), Execute(m),
         UNCHANGED cmd, NEW t \in Txns, cmd[t] # NoCommand, IsLocal(cmd[t].intent)
  PROVE  Src(cmd, t)' = Src(cmd, t) \/ Src(cmd, t) = "ABSENT"
<1> DEFINE from == ShardFor[cmd[t].intent.from]
<1>1. MessageOK(cmd, m) /\ m \in Message
  BY DEF Good, NetOK, MessageOK
<1>2. from \in Shards
  BY WalletAssumption DEF Good, CommandType, Command
<1>3. Src(cmd, t) = shard[from].parts[t].status /\ Src(cmd, t)' = shard'[from].parts[t].status
  BY DEF Src
<1>4. CASE shard'[from].parts[t] = shard[from].parts[t]
  BY <1>3, <1>4
<1>5. CASE t = m.txn /\ Moves(shard[from].parts[t], m, shard'[from].parts[t])
  <2>1. m.kind = "local"
    BY <1>1, <1>5 DEF MessageOK
  <2>2. shard[from].parts[t] = NoPart
    BY <1>5, <2>1 DEF Moves
  <2> QED
    BY SMTT(60), <1>3, <2>2 DEF NoPart
<1> QED
  BY <1>1, <1>2, <1>4, <1>5, ExecuteMoves

\* Executing a request keeps the agreement, whenever it happens.
LEMMA ExecuteGood ==
  ASSUME NEW m, m \in net, ShardType, Good(cmd, pending), Execute(m),
         UNCHANGED <<cmd, pending, epoch>>, net' \subseteq net
  PROVE  Good(cmd, pending)'
<1>1. MessageOK(cmd, m) /\ m \in Message
  BY DEF Good, NetOK, MessageOK
<1>2. ASSUME NEW t \in Txns, CrossIn(cmd, t)
      PROVE  /\ StatusStep(cmd, t, Src(cmd, t), Src(cmd, t)', TRUE)
             /\ StatusStep(cmd, t, Dst(cmd, t), Dst(cmd, t)', FALSE)
  BY <1>2, ExecuteStatus
<1>3. PartsOK(cmd)'
  <2> SUFFICES ASSUME NEW s \in Shards, NEW t \in Txns, shard'[s].parts[t] # NoPart
               PROVE  LET part == shard'[s].parts[t]
                      IN  /\ cmd[t] # NoCommand
                          /\ part.intent = cmd[t].intent
                          /\ part.role = "local" <=> IsLocal(part.intent)
                          /\ part.role = "local" => part.status \in {"CONFIRMED", "REJECTED"}
                          /\ ShardFor[RoleAccount(part.intent, part.role)] = s
    BY DEF PartsOK
  <2>1. CASE shard'[s].parts[t] = shard[s].parts[t]
    BY <2>1 DEF Good, PartsOK
  <2>2. CASE /\ s = ToShard(m) /\ t = m.txn
             /\ Moves(shard[s].parts[t], m, shard'[s].parts[t])
    BY <1>1, <2>2 DEF Moves, MessageOK, ToShard
  <2> QED
    BY <1>1, <2>1, <2>2, ExecuteMoves
<1>4. NetOK(cmd)'
  <2> SUFFICES ASSUME NEW r \in net' PROVE MessageOK(cmd, r)'
    BY DEF NetOK
  <2>1. MessageOK(cmd, r) /\ r.txn \in Txns
    BY DEF Good, NetOK, MessageOK, Message
  <2>2. ASSUME r.kind = "confirm" /\ r.role = "destination"
        PROVE  Src(cmd, r.txn)' = "CONFIRMED"
    <3>1. CrossIn(cmd, r.txn) /\ Src(cmd, r.txn) = "CONFIRMED"
      BY <2>1, <2>2 DEF MessageOK, CrossIn
    <3> QED
      BY <1>2, <2>1, <3>1 DEF StatusStep
  <2> QED
    BY <2>1, <2>2 DEF MessageOK
<1>5. StatusOK(cmd)'
  <2> SUFFICES ASSUME NEW t \in Txns PROVE CommandOK(cmd, t)'
    BY DEF StatusOK
  <2>1. CommandOK(cmd, t)
    BY DEF Good, StatusOK
  <2>2. CASE ~CrossIn(cmd, t)
    <3>1. CASE cmd[t] # NoCommand /\ IsLocal(cmd[t].intent)
      <4>1. Src(cmd, t)' = Src(cmd, t) \/ Src(cmd, t) = "ABSENT"
        BY <3>1, ExecuteLocal
      <4> QED
        BY <2>1, <2>2, <3>1, <4>1 DEF CommandOK, CrossIn
    <3> QED
      BY <2>1, <2>2, <3>1 DEF CommandOK, CrossIn
  <2>3. CASE CrossIn(cmd, t)
    <3>1. /\ StatusStep(cmd, t, Src(cmd, t), Src(cmd, t)', TRUE)
          /\ StatusStep(cmd, t, Dst(cmd, t), Dst(cmd, t)', FALSE)
      BY <1>2, <2>3
    <3> QED
      BY <2>1, <2>3, <3>1 DEF CommandOK, CrossIn, StatusStep
  <2> QED
    BY <2>2, <2>3
<1>6. PendingOK(cmd, pending)'
  <2>1. PendingOK(cmd, pending)
    BY DEF Good
  <2>2. ASSUME pending.kind \in {"decision", "completed"}, ~IsLocal(cmd[pending.txn].intent)
        PROVE  /\ Src(cmd, pending.txn) \in {"CONFIRMED", "CANCELED"} =>
                    Src(cmd, pending.txn)' = Src(cmd, pending.txn)
               /\ Dst(cmd, pending.txn) \in {"CONFIRMED", "CANCELED"} =>
                    Dst(cmd, pending.txn)' = Dst(cmd, pending.txn)
               /\ cmd[pending.txn].decision = "NONE" =>
                    /\ Src(cmd, pending.txn) = "PREPARED" => Src(cmd, pending.txn)' = "PREPARED"
                    /\ Dst(cmd, pending.txn) = "PREPARED" => Dst(cmd, pending.txn)' = "PREPARED"
    <3>1. pending.txn \in Txns
      BY <2>2 DEF Good, EventType, JournalEvents, NoEvent
    <3>2. CrossIn(cmd, pending.txn)
      BY <2>1, <2>2 DEF PendingOK, CrossIn, NoCommand
    <3> QED
      BY <1>2, <3>1, <3>2 DEF StatusStep
  <2>3. ASSUME pending.kind = "completed", IsLocal(cmd[pending.txn].intent)
        PROVE  Src(cmd, pending.txn)' = Src(cmd, pending.txn)
    <3>1. pending.txn \in Txns /\ cmd[pending.txn] # NoCommand
      BY <2>1, <2>3 DEF Good, EventType, JournalEvents, NoEvent, PendingOK, NoCommand
    <3>2. Src(cmd, pending.txn) # "ABSENT"
      BY <2>1, <2>3 DEF PendingOK
    <3>3. ASSUME NEW t \in Txns, cmd[t] # NoCommand, IsLocal(cmd[t].intent)
          PROVE  Src(cmd, t)' = Src(cmd, t) \/ Src(cmd, t) = "ABSENT"
      BY <3>3, ExecuteLocal
    <3> QED
      BY <2>3, <3>1, <3>2, <3>3
  <2> QED
    BY <2>1, <2>2, <2>3 DEF PendingOK
<1> QED
  BY <1>3, <1>4, <1>5, <1>6 DEF Good

-----------------------------------------------------------------------------
(***************************************************************************)
(* Steps that leave the shards alone.                                      *)
(***************************************************************************)

\* Fewer requests under way and a higher epoch disturb nothing.
LEMMA GoodStable ==
  ASSUME UNCHANGED <<shard, epoch>>, net' \subseteq net, Good(cmd', pending')
  PROVE  Good(cmd, pending)'
<1>1. PartsOK(cmd)'
  BY SMTT(60) DEF Good, PartsOK
<1>2. NetOK(cmd)'
  <2> SUFFICES ASSUME NEW m \in net PROVE MessageOK(cmd, m)'
    BY DEF NetOK
  <2>1. MessageOK(cmd', m)
    BY DEF Good, NetOK
  <2> QED
    BY <2>1 DEF MessageOK, Src
<1>3. StatusOK(cmd)'
  <2> SUFFICES ASSUME NEW t \in Txns PROVE CommandOK(cmd, t)'
    BY DEF StatusOK
  <2>1. CommandOK(cmd', t)
    BY DEF Good, StatusOK
  <2> QED
    BY <2>1 DEF CommandOK, CrossIn, Src, Dst
<1>4. PendingOK(cmd, pending)'
  BY DEF Good, PendingOK, Src, Dst
<1> QED
  BY <1>1, <1>2, <1>3, <1>4 DEF Good

RetryType == [Txns -> [failures : 0..DeadAfter, waiting : BOOLEAN]]

\* The retries table keeps its type.
LEMMA RetriesOK ==
  ASSUME retries \in RetryType, NEW t \in Txns,
         \/ ClearRetries(t)
         \/ RecordFailure(t) /\ retries[t].failures < DeadAfter
  PROVE  retries' \in RetryType
<1>1. DeadAfter \in Nat /\ retries[t].failures \in 0..DeadAfter
  BY CoordinatorAssumption DEF RetryType
<1>2. CASE ClearRetries(t)
  <2>1. NoRetry \in [failures : 0..DeadAfter, waiting : BOOLEAN]
    <3>1. 0 \in 0..DeadAfter
      BY <1>1
    <3> QED
      BY <3>1, Zenon DEF NoRetry
  <2> QED
    BY <1>2, <2>1 DEF ClearRetries, RetryType
<1>3. CASE RecordFailure(t) /\ retries[t].failures < DeadAfter
  <2>1. [failures |-> retries[t].failures + 1, waiting |-> TRUE]
          \in [failures : 0..DeadAfter, waiting : BOOLEAN]
    <3>1. retries[t].failures + 1 \in 0..DeadAfter
      BY <1>1, <1>3
    <3> QED
      BY <3>1, Zenon
  <2> QED
    BY <1>3, <2>1 DEF RecordFailure, RetryType
<1> QED
  BY <1>2, <1>3

\* Committing the pending event keeps every relation of journal and shards.
LEMMA SyncedOK ==
  ASSUME order \in Seq(Txns), Good(cmd, pending)
  PROVE  /\ Good(SyncedCmd, NoEvent)
         /\ SyncedOrder \in Seq(Txns)
<1>1. Good(SyncedCmd, NoEvent)
  BY Absorb DEF SyncedCmd
<1>2. pending \in EventType
  BY DEF Good
<1> QED
  BY <1>1, <1>2 DEF SyncedOrder, ProjectOrder, EventType, JournalEvents, NoEvent

\* An append whose event is justified by the synchronised commands keeps the
\* agreement, whether its quorum answers or not.
LEMMA AppendOK ==
  ASSUME order \in Seq(Txns), Good(cmd, pending), NEW e \in JournalEvents,
         PendingOK(SyncedCmd, e), AppendCommitted(e) \/ AppendUnresolved(e),
         UNCHANGED <<shard, epoch>>, net' \subseteq net
  PROVE  Good(cmd, pending)' /\ order' \in Seq(Txns)
<1>1. Good(SyncedCmd, NoEvent) /\ SyncedOrder \in Seq(Txns)
  BY SyncedOK
<1>2. Good(SyncedCmd, e)
  BY <1>1 DEF Good, EventType
<1>3. Good(ProjectCmd(SyncedCmd, e), NoEvent)
  BY <1>2, Absorb
<1>4. Good(cmd', pending')
  BY <1>2, <1>3 DEF AppendCommitted, AppendUnresolved
<1>5. order' \in Seq(Txns)
  BY <1>1 DEF AppendCommitted, AppendUnresolved, ProjectOrder, JournalEvents
<1> QED
  BY <1>4, <1>5, GoodStable

\* Accepting a transfer keeps the invariant.
LEMMA CreateOK ==
  ASSUME IInv, NEW t \in Txns, NEW i \in Intents, Create(t, i)
  PROVE  IInv'
<1>1. Good(cmd, pending)' /\ order' \in Seq(Txns)
  <2>1. Accept(t, i) \in JournalEvents
    BY DEF Accept, JournalEvents
  <2>2. PendingOK(SyncedCmd, Accept(t, i))
    BY DEF Create, PendingOK, Accept
  <2> QED
    BY <2>1, <2>2, AppendOK DEF IInv, TypeOK, Create
<1>2. TypeOK'
  BY <1>1 DEF IInv, TypeOK, Create, Good, CommandType, EventType, wvars, bvars
<1>3. StepOK'
  BY DEF Create, StepOK, wvars
<1> QED
  BY <1>1, <1>2, <1>3 DEF IInv

\* A sync that reaches a quorum keeps the invariant.
LEMMA SyncOK ==
  ASSUME IInv, Sync
  PROVE  IInv'
<1>1. Good(SyncedCmd, NoEvent) /\ SyncedOrder \in Seq(Txns)
  BY SyncedOK DEF IInv, TypeOK
<1>2. Good(cmd', pending') /\ order' \in Seq(Txns)
  BY <1>1 DEF Sync, Synced
<1>3. Good(cmd, pending)'
  BY <1>2, GoodStable DEF Sync
<1>4. TypeOK'
  BY <1>2, <1>3 DEF IInv, TypeOK, Sync, Good, CommandType, EventType, wvars, bvars
<1>5. pc = "idle" /\ pc' = pc
  BY DEF IInv, StepOK, Sync, wvars
<1> QED
  BY <1>3, <1>4, <1>5 DEF IInv, StepOK

\* Deciding to cancel keeps the invariant.
LEMMA CancelOK ==
  ASSUME IInv, NEW t \in Txns, Cancel(t)
  PROVE  IInv'
<1>1. Good(SyncedCmd, NoEvent) /\ SyncedOrder \in Seq(Txns)
  BY SyncedOK DEF IInv, TypeOK
<1>2. Good(cmd, pending)' /\ order' \in Seq(Txns)
  <2>1. CASE Synced
    <3>1. Good(cmd', pending') /\ order' \in Seq(Txns)
      BY <1>1, <2>1 DEF Synced
    <3> QED
      BY <3>1, GoodStable DEF Cancel
  <2>2. CASE /\ SyncedCmd[t].decision = "NONE"
             /\ \/ AppendCommitted(Decide(t, "CANCEL"))
                \/ AppendUnresolved(Decide(t, "CANCEL"))
    <3>1. Decide(t, "CANCEL") \in JournalEvents
      BY DEF Decide, JournalEvents
    <3>2. PendingOK(SyncedCmd, Decide(t, "CANCEL"))
      BY <2>2 DEF Cancel, Cancelable, PendingOK, Decide
    <3> QED
      BY <2>2, <3>1, <3>2, AppendOK DEF IInv, TypeOK, Cancel
  <2> QED
    BY <2>1, <2>2 DEF Cancel
<1>3. retries' \in [Txns -> [failures : 0..DeadAfter, waiting : BOOLEAN]]
  BY RetriesOK DEF IInv, TypeOK, Cancel, RetryType
<1>4. resets' \in 0..MaxRetries
  BY CoordinatorAssumption DEF IInv, TypeOK, Cancel
<1>5. TypeOK'
  BY <1>2, <1>3, <1>4 DEF IInv, TypeOK, Cancel, Good, CommandType, EventType, wvars
<1>6. StepOK'
  BY DEF Cancel, StepOK, wvars
<1> QED
  BY <1>2, <1>5, <1>6 DEF IInv

\* An administrator retry keeps the invariant.
LEMMA AdminOK ==
  ASSUME IInv, \/ \E t \in Txns : Retry(t)
               \/ \E s \in Shards, e \in 1..MaxEpoch : FenceShard(s, e)
  PROVE  IInv'
<1>0. UNCHANGED <<jvars, shard, net, epoch, wvars>>
  BY DEF Retry, FenceShard
<1>1. Good(cmd, pending)'
  BY <1>0, GoodStable DEF IInv, jvars
<1>2. TypeOK'
  <2>1. retries' \in [Txns -> [failures : 0..DeadAfter, waiting : BOOLEAN]]
    BY RetriesOK DEF IInv, TypeOK, Retry, FenceShard, RetryType
  <2>2. resets' \in 0..MaxRetries /\ crashes' \in 0..MaxCrashes
    BY CoordinatorAssumption DEF IInv, TypeOK, Retry, FenceShard, bvars
  <2>3. fence' \in [Shards -> 1..MaxEpoch]
    BY DEF IInv, TypeOK, Retry, FenceShard
  <2> QED
    BY <1>0, <2>1, <2>2, <2>3 DEF IInv, TypeOK, jvars, wvars
<1>3. CASE pc = "idle"
  BY <1>0, <1>1, <1>2, <1>3 DEF IInv, StepOK, wvars
<1>4. CASE retries' = retries
  BY <1>0, <1>1, <1>2, <1>4
     DEF IInv, StepOK, wvars, jvars, Fresh, Src, Dst, Advance, AdvanceLocal,
         AdvanceUndecided, AdvanceDecided, Intent, Decision
<1> QED
  BY <1>3, <1>4 DEF Retry, FenceShard

\* A restart, with the same or a higher epoch, keeps the invariant.
LEMMA RestartOK ==
  ASSUME IInv, NEW e \in 1..MaxEpoch, Restart(e)
  PROVE  IInv'
<1>1. epoch <= epoch' /\ epoch \in Int /\ epoch' \in Int
  BY CoordinatorAssumption DEF Restart, IInv, TypeOK
<1>2. NetOK(cmd)'
  <2> SUFFICES ASSUME NEW m \in net PROVE MessageOK(cmd, m)'
    BY DEF NetOK, Restart
  <2>1. MessageOK(cmd, m)
    BY DEF IInv, Good, NetOK
  <2>2. m.epoch \in Int
    BY <2>1, CoordinatorAssumption DEF MessageOK, Message
  <2> QED
    BY <1>1, <2>1, <2>2 DEF MessageOK, Restart, jvars, Src
<1>3. Good(cmd, pending)'
  BY <1>2 DEF IInv, Good, PartsOK, StatusOK, CommandOK, PendingOK, CrossIn, Src,
              Dst, Restart, jvars
<1>4. TypeOK'
  <2>1. crashes' \in 0..MaxCrashes
    BY CoordinatorAssumption DEF IInv, TypeOK, Restart
  <2>2. {left', right'} \subseteq Statuses \cup {"ABSENT"}
    BY DEF Restart
  <2>3. pc' = "idle" /\ cursor' = NoTxn /\ epoch' \in 1..MaxEpoch
    BY DEF Restart
  <2> QED
    BY <2>1, <2>2, <2>3 DEF IInv, TypeOK, Restart, jvars
<1> QED
  BY <1>3, <1>4 DEF IInv, StepOK, Restart

\* The abbreviations through which a worker step sees the state.
LEMMA AdvanceStable ==
  ASSUME UNCHANGED <<cmd, cursor, left, right>>
  PROVE  Advance' = Advance
  BY DEF Advance, AdvanceLocal, AdvanceUndecided, AdvanceDecided, Intent, Decision

\* Steps that change neither journal nor shards keep the invariant.
LEMMA QuietOK ==
  ASSUME IInv, \/ \E t \in Txns : BackoffExpires(t)
               \/ \E m \in net : Lose(m)
  PROVE  IInv'
<1>0. UNCHANGED <<cmd, order, pending, shard, fence, epoch, wvars, bvars>> /\ net' \subseteq net
  BY DEF BackoffExpires, Lose, jvars
<1>1. Good(cmd, pending)'
  BY <1>0, GoodStable DEF IInv
<1>2. /\ retries' \in RetryType
      /\ \A t \in Txns : retries'[t].failures = retries[t].failures
  <2>0. retries \in RetryType
    BY DEF IInv, TypeOK, RetryType
  <2>1. CASE retries' = retries
    BY <2>0, <2>1
  <2>2. ASSUME NEW t \in Txns, BackoffExpires(t)
        PROVE  /\ retries' \in RetryType
               /\ \A u \in Txns : retries'[u].failures = retries[u].failures
    <3>1. retries' = [retries EXCEPT ![t].waiting = FALSE]
      BY <2>2 DEF BackoffExpires
    <3>2. [retries[t] EXCEPT !.waiting = FALSE]
            \in [failures : 0..DeadAfter, waiting : BOOLEAN]
      BY <2>0 DEF RetryType
    <3> QED
      BY <2>0, <3>1, <3>2 DEF RetryType
  <2> QED
    BY <2>1, <2>2 DEF Lose
<1>3. TypeOK'
  BY <1>0, <1>2 DEF IInv, TypeOK, RetryType, wvars, bvars
<1>4. StepOK'
  <2>1. Advance' = Advance
    BY <1>0, AdvanceStable DEF wvars
  <2> QED
    BY <1>0, <1>2, <2>1 DEF IInv, StepOK, wvars, Fresh, Src, Dst
<1> QED
  BY <1>1, <1>3, <1>4 DEF IInv

\* A worker step that begins keeps the invariant.
LEMMA StepBeginOK ==
  ASSUME IInv, NEW t \in Txns, StepBegin(t)
  PROVE  IInv'
<1>1. Good(SyncedCmd, NoEvent) /\ SyncedOrder \in Seq(Txns)
  BY SyncedOK DEF IInv, TypeOK
<1>2. Good(cmd', pending') /\ order' \in Seq(Txns)
  BY <1>1 DEF StepBegin, Synced
<1>3. Good(cmd, pending)'
  BY <1>2, GoodStable DEF StepBegin
<1>4. TypeOK'
  BY <1>2 DEF IInv, TypeOK, StepBegin, Good, CommandType, EventType, bvars
<1>5. StepOK'
  <2>1. cmd'[t].status = "PENDING" /\ ~Dead(t)
    BY DEF StepBegin, Selected, Eligible, Synced
  <2>2. retries'[t].failures < DeadAfter
    BY <2>1, CoordinatorAssumption DEF Dead, StepBegin, IInv, TypeOK
  <2>3. cmd'[t] # NoCommand
    BY <2>1 DEF NoCommand
  <2> QED
    BY <2>1, <2>2, <2>3 DEF StepOK, StepBegin, Synced
<1> QED
  BY <1>3, <1>4, <1>5 DEF IInv

\* A step reads the truth about a participant.
LEMMA ReadOK ==
  ASSUME IInv, ReadLeft \/ ReadRight
  PROVE  IInv'
<1>0. /\ UNCHANGED <<cmd, order, pending, retries, shard, fence, net, epoch, cursor, bvars>>
      /\ pc \in {"readLeft", "readRight"}
  BY DEF ReadLeft, ReadRight, jvars
<1>1. Good(cmd, pending)'
  BY <1>0, GoodStable DEF IInv
<1>2. /\ cursor \in Txns /\ cmd[cursor] \in Command /\ cmd[cursor] # NoCommand
      /\ cmd[cursor].intent \in Intents
      /\ ShardFor[cmd[cursor].intent.from] \in Shards
      /\ ShardFor[cmd[cursor].intent.to] \in Shards
  BY <1>0, WalletAssumption DEF IInv, StepOK, TypeOK, Command
<1>3. ASSUME NEW s \in Shards
      PROVE  shard[s].parts[cursor].status \in Statuses \cup {"ABSENT"}
  <2>1. shard[s].parts \in [Txns -> Part \cup {NoPart}]
    BY DEF IInv, TypeOK
  <2>2. shard[s].parts[cursor] \in Part \cup {NoPart}
    BY <1>2, <2>1
  <2> QED
    BY <2>2 DEF Part, NoPart
<1>4. TypeOK'
  <2>1. {left', right'} \subseteq Statuses \cup {"ABSENT"}
    <3>1. {left, right} \subseteq Statuses \cup {"ABSENT"}
      BY DEF IInv, TypeOK
    <3> QED
      BY <1>2, <1>3, <3>1 DEF ReadLeft, ReadRight, Intent
  <2>2. pc' \in {"act", "readRight"}
    BY DEF ReadLeft, ReadRight
  <2> QED
    BY <1>0, <2>1, <2>2 DEF IInv, TypeOK, bvars
<1>5. StepOK'
  <2>1. CASE ReadLeft
    <3>1. left' = Src(cmd, cursor) /\ Src(cmd, cursor)' = Src(cmd, cursor)
      BY <1>0, <2>1 DEF ReadLeft, Src, Intent
    <3>2. pc' = IF IsLocal(cmd[cursor].intent) THEN "act" ELSE "readRight"
      BY <2>1 DEF ReadLeft, Intent
    <3> QED
      BY <1>0, <1>2, <3>1, <3>2 DEF IInv, StepOK, Fresh
  <2>2. CASE ReadRight
    <3>1. /\ right' = Dst(cmd, cursor) /\ Dst(cmd, cursor)' = Dst(cmd, cursor)
          /\ Src(cmd, cursor)' = Src(cmd, cursor)
          /\ left' = left /\ pc' = "act" /\ pc = "readRight"
      BY <1>0, <2>2 DEF ReadRight, Src, Dst, Intent
    <3> QED
      BY <1>0, <1>2, <3>1 DEF IInv, StepOK, Fresh
  <2> QED
    BY <2>1, <2>2
<1> QED
  BY <1>1, <1>4, <1>5 DEF IInv

-----------------------------------------------------------------------------
(***************************************************************************)
(* advance(): what a step does follows from what it has read.              *)
(***************************************************************************)

\* What a worker step under way may rely on.
LEMMA StepFacts ==
  ASSUME IInv, pc \in {"act", "reply"}
  PROVE  /\ cursor \in Txns /\ cmd[cursor] # NoCommand /\ cmd[cursor] \in Command
         /\ cmd[cursor].intent \in Intents
         /\ cmd[cursor].decision \in {"NONE", "COMMIT", "CANCEL"}
         /\ cmd[cursor].status = "PENDING" /\ pending = NoEvent
         /\ CommandOK(cmd, cursor)
         /\ IsLocal(cmd[cursor].intent) \/ CrossIn(cmd, cursor)
         /\ CrossIn(cmd, cursor) => Fresh(left, Src(cmd, cursor)) /\ Fresh(right, Dst(cmd, cursor))
         /\ {left, right} \subseteq {"PREPARED", "REJECTED", "CANCELED", "CONFIRMED", "ABSENT"}
         /\ SyncedCmd = cmd
<1>1. /\ cursor \in Txns /\ cmd[cursor] # NoCommand
      /\ cmd[cursor].status = "PENDING" /\ pending = NoEvent
  BY DEF IInv, StepOK
<1>2. cmd[cursor] \in Command
  BY <1>1 DEF IInv, TypeOK
<1>3. CommandOK(cmd, cursor)
  BY <1>1 DEF IInv, Good, StatusOK
<1>4. /\ IsLocal(cmd[cursor].intent) \/ CrossIn(cmd, cursor)
      /\ CrossIn(cmd, cursor) => ~IsLocal(cmd[cursor].intent)
  BY <1>1 DEF CrossIn
<1>5. CrossIn(cmd, cursor) => Fresh(left, Src(cmd, cursor)) /\ Fresh(right, Dst(cmd, cursor))
  BY <1>4 DEF IInv, StepOK
<1>6. {left, right} \subseteq {"PREPARED", "REJECTED", "CANCELED", "CONFIRMED", "ABSENT"}
  BY DEF IInv, TypeOK, Statuses
<1>7. SyncedCmd = cmd
  BY <1>1 DEF SyncedCmd, ProjectCmd, NoEvent
<1> QED
  BY <1>1, <1>2, <1>3, <1>4, <1>5, <1>6, <1>7 DEF Command

\* The three cases of a cross-shard step, and the local one.
LEMMA AdvanceCases ==
  ASSUME IInv, pc \in {"act", "reply"}
  PROVE  /\ IsLocal(cmd[cursor].intent) => Advance = AdvanceLocal
         /\ CrossIn(cmd, cursor) /\ cmd[cursor].decision = "NONE" =>
              Advance = AdvanceUndecided
         /\ CrossIn(cmd, cursor) /\ cmd[cursor].decision = "COMMIT" =>
              Advance = AdvanceDecided("confirm", "CONFIRMED", "SUCCEEDED")
         /\ CrossIn(cmd, cursor) /\ cmd[cursor].decision = "CANCEL" =>
              Advance = AdvanceDecided("cancel", "CANCELED", "CANCELED")
  BY DEF Advance, Intent, Decision, CrossIn

\* An undecided step never meets a confirmed participant.
LEMMA UndecidedShape ==
  ASSUME IInv, pc \in {"act", "reply"},
         CrossIn(cmd, cursor), cmd[cursor].decision = "NONE"
  PROVE  \/ Advance = Journal(Decide(cursor, "CANCEL"))
         \/ Advance = Send("prepare", "source")
         \/ Advance = Send("prepare", "destination")
         \/ /\ Advance = Journal(Decide(cursor, "COMMIT"))
            /\ Src(cmd, cursor) = "PREPARED" /\ Dst(cmd, cursor) = "PREPARED"
<1>1. /\ left \notin {"CONFIRMED", "CANCELED"} /\ right \notin {"CONFIRMED", "CANCELED"}
      /\ left = "PREPARED" => Src(cmd, cursor) = "PREPARED"
      /\ right = "PREPARED" => Dst(cmd, cursor) = "PREPARED"
  BY StepFacts DEF Fresh, CommandOK
<1>2. left \in {"PREPARED", "REJECTED", "ABSENT"} /\ right \in {"PREPARED", "REJECTED", "ABSENT"}
  BY <1>1, StepFacts
<1>3. Advance = AdvanceUndecided
  BY AdvanceCases
<1>4. CASE left = "REJECTED" \/ right = "REJECTED"
  <2>1. {left, right} \cap {"REJECTED", "CANCELED"} # {}
    BY <1>4
  <2> QED
    BY <1>3, <2>1 DEF AdvanceUndecided
<1>5. CASE left # "REJECTED" /\ right # "REJECTED"
  <2>1. {left, right} \cap {"REJECTED", "CANCELED"} = {}
    BY <1>1, <1>5
  <2>2. CASE left = "ABSENT"
    BY <1>3, <2>1, <2>2 DEF AdvanceUndecided
  <2>3. CASE left = "PREPARED" /\ right = "ABSENT"
    BY <1>3, <2>1, <2>3 DEF AdvanceUndecided
  <2>4. CASE left = "PREPARED" /\ right = "PREPARED"
    BY <1>1, <1>3, <2>1, <2>4 DEF AdvanceUndecided
  <2> QED
    BY <1>2, <1>5, <2>2, <2>3, <2>4
<1> QED
  BY <1>4, <1>5

\* What a step appends for a transfer that is decided or whose votes it has read.
LEMMA DecidedShape ==
  ASSUME IInv, pc \in {"act", "reply"}, CrossIn(cmd, cursor),
         cmd[cursor].decision # "NONE"
  PROVE  LET done == IF cmd[cursor].decision = "COMMIT" THEN "CONFIRMED" ELSE "CANCELED"
             kind == IF cmd[cursor].decision = "COMMIT" THEN "confirm" ELSE "cancel"
             outcome == IF cmd[cursor].decision = "COMMIT" THEN "SUCCEEDED" ELSE "CANCELED"
         IN  \/ Advance = Send(kind, "source")
             \/ Advance = Send(kind, "destination") /\ Src(cmd, cursor) = done
             \/ /\ Advance = Journal(Complete(cursor, outcome))
                /\ Src(cmd, cursor) = done /\ Dst(cmd, cursor) = done
<1>1. /\ left \in {"CONFIRMED", "CANCELED"} => Src(cmd, cursor) = left
      /\ right \in {"CONFIRMED", "CANCELED"} => Dst(cmd, cursor) = right
  BY StepFacts DEF Fresh
<1>2. cmd[cursor].decision \in {"COMMIT", "CANCEL"}
  BY StepFacts
<1>3. CASE cmd[cursor].decision = "COMMIT"
  BY <1>1, <1>3, AdvanceCases DEF AdvanceDecided
<1>4. CASE cmd[cursor].decision = "CANCEL"
  BY <1>1, <1>4, AdvanceCases DEF AdvanceDecided
<1> QED
  BY <1>2, <1>3, <1>4

\* A local step records the outcome that its shard has recorded.
LEMMA LocalShape ==
  ASSUME IInv, pc \in {"act", "reply"}, IsLocal(cmd[cursor].intent)
  PROVE  \/ Advance = Local
         \/ /\ Advance = Journal(Complete(cursor, "SUCCEEDED"))
            /\ Src(cmd, cursor) = "CONFIRMED"
         \/ /\ Advance = Journal(Complete(cursor, "REJECTED"))
            /\ Src(cmd, cursor) = "REJECTED"
<1>1. left = "ABSENT" \/ left = Src(cmd, cursor)
  BY DEF IInv, StepOK
<1>2. Src(cmd, cursor) \in {"ABSENT", "CONFIRMED", "REJECTED"}
  <2> DEFINE s == ShardFor[cmd[cursor].intent.from]
  <2>1. s \in Shards /\ cursor \in Txns
    BY StepFacts, WalletAssumption
  <2>2. PartsOK(cmd)
    BY DEF IInv, Good
  <2> QED
    BY <2>1, <2>2 DEF PartsOK, NoPart, Src
<1> QED
  BY <1>1, <1>2, AdvanceCases DEF AdvanceLocal

\* A journal event that a step appends is justified.
LEMMA AppendJustified ==
  ASSUME IInv, pc \in {"act", "reply"}, Advance.do = "append"
  PROVE  Advance.event \in JournalEvents /\ PendingOK(SyncedCmd, Advance.event)
<1>1. CASE IsLocal(cmd[cursor].intent)
  <2>1. \/ Advance = Journal(Complete(cursor, "SUCCEEDED")) /\ Src(cmd, cursor) = "CONFIRMED"
        \/ Advance = Journal(Complete(cursor, "REJECTED")) /\ Src(cmd, cursor) = "REJECTED"
    BY <1>1, LocalShape DEF Local
  <2>2. \/ Advance.event = Complete(cursor, "SUCCEEDED") /\ Src(cmd, cursor) = "CONFIRMED"
        \/ Advance.event = Complete(cursor, "REJECTED") /\ Src(cmd, cursor) = "REJECTED"
    BY <2>1 DEF Journal
  <2> QED
    BY <1>1, <2>2, StepFacts DEF Complete, JournalEvents, PendingOK
<1>2. CASE CrossIn(cmd, cursor) /\ cmd[cursor].decision = "NONE"
  <2>1. \/ Advance = Journal(Decide(cursor, "CANCEL"))
        \/ /\ Advance = Journal(Decide(cursor, "COMMIT"))
           /\ Src(cmd, cursor) = "PREPARED" /\ Dst(cmd, cursor) = "PREPARED"
    BY <1>2, UndecidedShape DEF Send
  <2>2. \/ Advance.event = Decide(cursor, "CANCEL")
        \/ /\ Advance.event = Decide(cursor, "COMMIT")
           /\ Src(cmd, cursor) = "PREPARED" /\ Dst(cmd, cursor) = "PREPARED"
    BY <2>1 DEF Journal
  <2> QED
    BY <1>2, <2>2, StepFacts DEF Decide, JournalEvents, PendingOK, CrossIn
<1>3. CASE CrossIn(cmd, cursor) /\ cmd[cursor].decision # "NONE"
  <2> DEFINE done == IF cmd[cursor].decision = "COMMIT" THEN "CONFIRMED" ELSE "CANCELED"
             outcome == IF cmd[cursor].decision = "COMMIT" THEN "SUCCEEDED" ELSE "CANCELED"
  <2>1. /\ Advance = Journal(Complete(cursor, outcome))
        /\ Src(cmd, cursor) = done /\ Dst(cmd, cursor) = done
    BY <1>3, DecidedShape DEF Send
  <2>2. Advance.event = Complete(cursor, outcome)
    BY <2>1 DEF Journal
  <2> QED
    BY <1>3, <2>1, <2>2, StepFacts DEF Complete, JournalEvents, PendingOK, CrossIn
<1> QED
  BY <1>1, <1>2, <1>3, StepFacts

\* A request that a step sends is justified.
LEMMA RequestJustified ==
  ASSUME IInv, pc \in {"act", "reply"}, Advance.do = "send"
  PROVE  MessageOK(cmd, Request)
<1>0. /\ Request.txn = cursor /\ Request.intent = cmd[cursor].intent
      /\ Request.epoch = epoch
      /\ Request.kind = Advance.kind /\ Request.role = Advance.role
      /\ Request = [kind |-> Advance.kind, role |-> Advance.role, txn |-> cursor,
                    intent |-> cmd[cursor].intent, epoch |-> epoch]
  BY DEF Request, Intent
<1>1. epoch \in 1..MaxEpoch /\ epoch <= epoch
  BY CoordinatorAssumption DEF IInv, TypeOK
<1>2. CASE IsLocal(cmd[cursor].intent)
  <2>1. Advance.kind = "local" /\ Advance.role = "local"
    BY <1>2, LocalShape DEF Local, Journal
  <2>2. Request \in Message
    BY <1>0, <1>1, <2>1, StepFacts DEF Message, Kinds, Roles
  <2>3. (Request.role = "local") = IsLocal(Request.intent)
    BY <1>0, <1>2, <2>1
  <2> QED
    BY <1>0, <1>1, <2>1, <2>2, <2>3, StepFacts DEF MessageOK
<1>3. CASE CrossIn(cmd, cursor) /\ cmd[cursor].decision = "NONE"
  <2>1. Advance.kind = "prepare" /\ Advance.role \in {"source", "destination"}
    BY <1>3, UndecidedShape DEF Send, Journal
  <2> QED
    BY <1>0, <1>1, <1>3, <2>1, StepFacts DEF MessageOK, Message, Kinds, Roles, CrossIn
<1>4. CASE CrossIn(cmd, cursor) /\ cmd[cursor].decision = "COMMIT"
  <2>1. /\ Advance.kind = "confirm"
        /\ \/ Advance.role = "source"
           \/ Advance.role = "destination" /\ Src(cmd, cursor) = "CONFIRMED"
    <3>1. \/ Advance = Send("confirm", "source")
          \/ Advance = Send("confirm", "destination") /\ Src(cmd, cursor) = "CONFIRMED"
          \/ Advance = Journal(Complete(cursor, "SUCCEEDED"))
      BY <1>4, DecidedShape
    <3> QED
      BY <3>1 DEF Send, Journal
  <2> QED
    BY <1>0, <1>1, <1>4, <2>1, StepFacts DEF MessageOK, Message, Kinds, Roles, CrossIn
<1>5. CASE CrossIn(cmd, cursor) /\ cmd[cursor].decision = "CANCEL"
  <2>1. Advance.kind = "cancel" /\ Advance.role \in {"source", "destination"}
    BY <1>5, DecidedShape DEF Send, Journal
  <2> QED
    BY <1>0, <1>1, <1>5, <2>1, StepFacts DEF MessageOK, Message, Kinds, Roles, CrossIn
<1> QED
  BY <1>2, <1>3, <1>4, <1>5, StepFacts

\* Sending an action request keeps the invariant.
LEMMA ActSendOK ==
  ASSUME IInv, ActSend
  PROVE  IInv'
<1>0. UNCHANGED <<cmd, order, pending, retries, shard, fence, epoch, cursor, left, right, bvars>>
  BY DEF ActSend, jvars
<1>1. MessageOK(cmd, Request)
  BY RequestJustified DEF ActSend
<1>2. \A m \in net' : MessageOK(cmd, m)
  BY SMTT(60), <1>1 DEF IInv, Good, NetOK, ActSend
<1>3. NetOK(cmd)'
  BY <1>0, <1>2 DEF NetOK, MessageOK, Src
<1>4. Good(cmd, pending)'
  BY <1>0, <1>3 DEF IInv, Good, PartsOK, StatusOK, CommandOK, PendingOK, CrossIn, Src, Dst
<1>5. TypeOK'
  <2>1. net' \subseteq Message
    BY <1>2 DEF MessageOK
  <2> QED
    BY <1>0, <2>1 DEF IInv, TypeOK, ActSend, bvars
<1>6. StepOK'
  <2>1. Advance' = Advance
    BY <1>0, AdvanceStable
  <2> QED
    BY <1>0, <2>1 DEF IInv, StepOK, ActSend, Fresh, Src, Dst
<1> QED
  BY <1>4, <1>5, <1>6 DEF IInv

\* A request executes, late or awaited.
LEMMA DeliverOK ==
  ASSUME IInv, NEW m \in net, DeliverLate(m)
  PROVE  IInv'
<1>0. UNCHANGED <<cmd, order, pending, retries, fence, net, epoch, pc, cursor, left, right, bvars>>
  BY DEF DeliverLate, jvars, wvars
<1>1. ShardType /\ m \in Message /\ Execute(m)
  BY DEF IInv, TypeOK, ShardType, DeliverLate
<1>2. Good(cmd, pending)'
  BY <1>0, <1>1, ExecuteGood DEF IInv
<1>3. ShardType'
  BY <1>1, ExecuteMoves
<1>4. TypeOK'
  BY <1>0, <1>3 DEF IInv, TypeOK, ShardType, bvars
<1>5. StepOK'
  <2>1. Advance' = Advance
    BY <1>0, AdvanceStable
  <2>2. ASSUME pc \notin {"idle", "audit"}, ~IsLocal(cmd[cursor].intent)
        PROVE  /\ Fresh(left, Src(cmd, cursor)) => Fresh(left, Src(cmd, cursor))'
               /\ Fresh(right, Dst(cmd, cursor)) => Fresh(right, Dst(cmd, cursor))'
    <3>1. cursor \in Txns /\ CrossIn(cmd, cursor)
      BY SMTT(60), <2>2 DEF IInv, StepOK, CrossIn
    <3>2. /\ StatusStep(cmd, cursor, Src(cmd, cursor), Src(cmd, cursor)', TRUE)
          /\ StatusStep(cmd, cursor, Dst(cmd, cursor), Dst(cmd, cursor)', FALSE)
      <4>1. ASSUME NEW t \in Txns, CrossIn(cmd, t)
            PROVE  /\ StatusStep(cmd, t, Src(cmd, t), Src(cmd, t)', TRUE)
                   /\ StatusStep(cmd, t, Dst(cmd, t), Dst(cmd, t)', FALSE)
        BY <1>0, <1>1, <4>1, ExecuteStatus DEF IInv
      <4>2. /\ Src(cmd, cursor)' = shard'[ShardFor[cmd[cursor].intent.from]].parts[cursor].status
            /\ Dst(cmd, cursor)' = shard'[ShardFor[cmd[cursor].intent.to]].parts[cursor].status
        BY <1>0 DEF Src, Dst
      <4>3. \A t \in Txns : /\ Src(cmd, t)' = shard'[ShardFor[cmd[t].intent.from]].parts[t].status
                            /\ Dst(cmd, t)' = shard'[ShardFor[cmd[t].intent.to]].parts[t].status
        BY <1>0 DEF Src, Dst
      <4> QED
        BY <3>1, <4>1, <4>2, <4>3
    <3> QED
      BY <1>0, <3>2 DEF Fresh, StatusStep
  <2>3. ASSUME pc \in {"act", "reply"}, IsLocal(cmd[cursor].intent)
        PROVE  left = "ABSENT" \/ left = Src(cmd, cursor)'
    <3>1. /\ cursor \in Txns /\ cmd[cursor] # NoCommand
          /\ left = "ABSENT" \/ left = Src(cmd, cursor)
      BY SMTT(60), <2>3 DEF IInv, StepOK
    <3>2. ASSUME NEW t \in Txns, cmd[t] # NoCommand, IsLocal(cmd[t].intent)
          PROVE  \/ shard'[ShardFor[cmd[t].intent.from]].parts[t].status = Src(cmd, t)
                 \/ Src(cmd, t) = "ABSENT"
      <4>1. Src(cmd, t)' = Src(cmd, t) \/ Src(cmd, t) = "ABSENT"
        BY <1>0, <1>1, <3>2, ExecuteLocal DEF IInv
      <4> QED
        BY <1>0, <4>1 DEF Src
    <3>3. Src(cmd, cursor)' = shard'[ShardFor[cmd[cursor].intent.from]].parts[cursor].status
      BY <1>0 DEF Src
    <3> QED
      BY <2>3, <3>1, <3>2, <3>3
  <2> QED
    BY <1>0, <2>1, <2>2, <2>3 DEF IInv, StepOK
<1> QED
  BY <1>2, <1>4, <1>5 DEF IInv

\* An action request that executes and is answered keeps the invariant.
LEMMA ReplyOK ==
  ASSUME IInv, Reply
  PROVE  IInv'
<1>0. /\ UNCHANGED <<cmd, order, pending, retries, fence, epoch, cursor, right, bvars>>
      /\ net' \subseteq net /\ pc = "reply" /\ Request \in net
  BY DEF Reply, jvars
<1>1. ShardType /\ Request \in Message /\ Execute(Request)
  BY <1>0 DEF IInv, TypeOK, ShardType, Reply
<1>2. Good(cmd, pending)'
  BY <1>0, <1>1, ExecuteGood DEF IInv
<1>3. ShardType'
  BY <1>1, ExecuteMoves
<1>4. /\ cursor \in Txns /\ cmd[cursor] # NoCommand /\ cmd[cursor].status = "PENDING"
      /\ pending = NoEvent /\ retries[cursor].failures < DeadAfter
  BY <1>0 DEF IInv, StepOK
<1>5. left' \in Statuses \cup {"ABSENT"}
  <2>1. shard'[ToShard(Request)].parts \in [Txns -> Part \cup {NoPart}]
    BY <1>1, <1>3, Routing DEF ShardType
  <2>2. shard'[ToShard(Request)].parts[cursor] \in Part \cup {NoPart}
    BY <1>4, <2>1
  <2>3. shard'[ToShard(Request)].parts[cursor].status \in Statuses \cup {"ABSENT"}
    BY <2>2 DEF Part, NoPart
  <2>4. left \in Statuses \cup {"ABSENT"}
    BY DEF IInv, TypeOK
  <2> QED
    BY <2>3, <2>4 DEF Reply
<1>6. TypeOK'
  <2>1. {left', right'} \subseteq Statuses \cup {"ABSENT"}
    BY <1>0, <1>5 DEF IInv, TypeOK
  <2>2. pc' \in {"act", "clear"} /\ net' \subseteq Message
    BY <1>0 DEF Reply, IInv, TypeOK
  <2> QED
    BY <1>0, <1>3, <2>1, <2>2 DEF IInv, TypeOK, ShardType, bvars
<1>7. StepOK'
  <2>1. pc' = IF IsLocal(cmd[cursor].intent) THEN "act" ELSE "clear"
    BY DEF Reply, Intent
  <2>2. ASSUME IsLocal(cmd[cursor].intent)
        PROVE  left' = Src(cmd, cursor)'
    <3>1. ToShard(Request) = ShardFor[cmd[cursor].intent.from]
      <4>1. Request.role = "local" /\ Request.intent = cmd[cursor].intent
        BY <1>0, <2>2 DEF IInv, Good, NetOK, MessageOK, Request, Intent
      <4> QED
        BY <4>1 DEF ToShard, RoleAccount
    <3> QED
      BY <1>0, <2>2, <3>1 DEF Reply, Src, Intent
  <2> QED
    BY <1>0, <1>4, <2>1, <2>2 DEF StepOK
<1> QED
  BY <1>2, <1>6, <1>7 DEF IInv

\* A step records CANCEL for a refused prepare only while it is undecided.
LEMMA RejectJustified ==
  ASSUME IInv, RejectPrepare
  PROVE  /\ Decide(cursor, "CANCEL") \in JournalEvents
         /\ PendingOK(SyncedCmd, Decide(cursor, "CANCEL"))
<1>1. pc = "reply" /\ Advance.do = "send" /\ Advance.kind = "prepare"
  BY DEF RejectPrepare, Rejected, IInv, StepOK, Request
<1>2. ~IsLocal(cmd[cursor].intent)
  BY <1>1, LocalShape DEF Local, Journal
<1>3. CASE CrossIn(cmd, cursor) /\ cmd[cursor].decision # "NONE"
  BY <1>1, <1>3, DecidedShape DEF Send, Journal
<1>4. CASE CrossIn(cmd, cursor) /\ cmd[cursor].decision = "NONE"
  <2>1. Decide(cursor, "CANCEL") \in JournalEvents
    BY <1>1, StepFacts DEF Decide, JournalEvents
  <2>2. PendingOK(SyncedCmd, Decide(cursor, "CANCEL"))
    BY <1>1, <1>4, StepFacts DEF PendingOK, Decide, CrossIn
  <2> QED
    BY <2>1, <2>2
<1> QED
  BY <1>1, <1>2, <1>3, <1>4, StepFacts

\* Appends at the end of a step: a decision, an outcome, or a refused prepare.
LEMMA StepAppendOK ==
  ASSUME IInv, RejectPrepare \/ ActAppend \/ ActAppendFails
  PROVE  IInv'
<1>0. /\ pc \in {"act", "reply"} /\ net' \subseteq net
      /\ UNCHANGED <<shard, fence, epoch, cursor, bvars>>
  BY DEF RejectPrepare, Rejected, ActAppend, ActAppendFails
<1>1. Good(cmd, pending)' /\ order' \in Seq(Txns)
  <2>1. CASE UNCHANGED jvars
    BY <1>0, <2>1, GoodStable DEF IInv, TypeOK, jvars
  <2>2. CASE /\ Advance.do = "append"
             /\ AppendCommitted(Advance.event) \/ AppendUnresolved(Advance.event)
    BY <1>0, <2>2, AppendJustified, AppendOK DEF IInv, TypeOK
  <2>3. CASE RejectPrepare
    BY <1>0, <2>3, RejectJustified, AppendOK DEF IInv, TypeOK, RejectPrepare
  <2> QED
    BY <2>1, <2>2, <2>3 DEF ActAppend, ActAppendFails
<1>2. retries' \in RetryType
  <2>1. cursor \in Txns /\ retries[cursor].failures < DeadAfter /\ retries \in RetryType
    BY <1>0 DEF IInv, StepOK, TypeOK, RetryType
  <2> QED
    BY <2>1, RetriesOK DEF RejectPrepare, Rejected, ActAppend, ActAppendFails
<1>3. /\ pc' \in {"idle", "clear"}
      /\ {left', right'} \subseteq Statuses \cup {"ABSENT"}
      /\ net' \subseteq Message
  BY <1>0 DEF RejectPrepare, Rejected, ActAppend, ActAppendFails, Finish, IInv, TypeOK
<1>4. TypeOK'
  BY <1>0, <1>1, <1>2, <1>3
     DEF IInv, TypeOK, Good, CommandType, EventType, RetryType, bvars
<1>5. StepOK'
  <2>1. CASE pc' = "idle"
    BY <2>1 DEF StepOK
  <2>2. CASE ActAppend
    <3>1. cmd'[cursor] # NoCommand
      <4>1. cmd' = ProjectCmd(cmd, Advance.event) /\ pending' = NoEvent
        BY <1>0, <2>2, StepFacts DEF ActAppend, AppendCommitted
      <4>2. /\ cmd \in CommandType /\ cursor \in Txns /\ cmd[cursor] \in Command
        BY <1>0, StepFacts DEF IInv, Good
      <4>3. Advance.event \in JournalEvents /\ PendingOK(cmd, Advance.event)
        BY <1>0, <2>2, StepFacts, AppendJustified DEF ActAppend
      <4> QED
        BY <4>1, <4>2, <4>3
           DEF ProjectCmd, JournalEvents, Command, NoCommand, CommandType, PendingOK
    <3>2. pending' = NoEvent /\ pc' = "clear" /\ retries' = retries
      BY <2>2 DEF ActAppend, AppendCommitted
    <3> QED
      BY <1>0, <3>1, <3>2 DEF IInv, StepOK
  <2> QED
    BY <2>1, <2>2 DEF RejectPrepare, Rejected, ActAppendFails, Finish
<1> QED
  BY <1>1, <1>4, <1>5 DEF IInv

\* A step that ends without touching the journal.
LEMMA StepFinishOK ==
  ASSUME IInv, RejectUnrecorded \/ StepFails \/ StepEnd
  PROVE  IInv'
<1>0. /\ pc \notin {"idle", "audit"} /\ net' \subseteq net
      /\ UNCHANGED <<cmd, order, pending, shard, fence, epoch, cursor, bvars>>
      /\ pc' = "idle" /\ left' = "ABSENT" /\ right' = "ABSENT"
  BY DEF RejectUnrecorded, Rejected, StepFails, StepEnd, Finish, jvars
<1>1. Good(cmd, pending)'
  BY <1>0, GoodStable DEF IInv
<1>2. retries' \in RetryType
  <2>1. cursor \in Txns /\ retries[cursor].failures < DeadAfter /\ retries \in RetryType
    BY <1>0 DEF IInv, StepOK, TypeOK, RetryType
  <2> QED
    BY <2>1, RetriesOK DEF RejectUnrecorded, Rejected, StepFails, StepEnd
<1>3. TypeOK'
  <2>1. {left', right'} \subseteq Statuses \cup {"ABSENT"}
    BY <1>0
  <2> QED
    BY <1>0, <1>2, <2>1 DEF IInv, TypeOK, RetryType, bvars
<1> QED
  BY <1>0, <1>1, <1>3 DEF IInv, StepOK

-----------------------------------------------------------------------------
(***************************************************************************)
(* The theorems.                                                           *)
(***************************************************************************)

\* The invariant holds initially.
LEMMA InitOK ==
  ASSUME Init
  PROVE  IInv
<1>1. ShardType
  <2>1. \A s \in Shards : shard[s] = Genesis(s)
    BY DEF Init
  <2>2. ASSUME NEW s \in Shards, NEW a \in AccountsOf(s)
        PROVE  [available |-> Opening[a], held |-> 0] \in Balance
    <3>1. Opening[a] \in Int
      BY WalletAssumption DEF AccountsOf
    <3> QED
      BY <3>1 DEF Balance
  <2>3. \A s \in Shards : /\ Genesis(s).accounts \in [AccountsOf(s) -> Balance]
                          /\ Genesis(s).parts \in [Txns -> Part \cup {NoPart}]
    BY <2>2 DEF Genesis
  <2>4. shard = [s \in Shards |-> [accounts |-> shard[s].accounts, parts |-> shard[s].parts]]
    BY <2>1 DEF Init, Genesis
  <2> QED
    BY <2>1, <2>3, <2>4 DEF ShardType
<1>2. TypeOK
  <2>1. retries \in RetryType
    <3>1. 0 \in 0..DeadAfter
      BY CoordinatorAssumption
    <3>2. NoRetry \in [failures : 0..DeadAfter, waiting : BOOLEAN]
      BY <3>1, Zenon DEF NoRetry
    <3> QED
      BY <3>2 DEF Init, RetryType
  <2>2. /\ crashes \in 0..MaxCrashes /\ resets \in 0..MaxRetries
        /\ epoch \in 1..MaxEpoch /\ fence \in [Shards -> 1..MaxEpoch]
    BY CoordinatorAssumption DEF Init
  <2>3. order \in Seq(Txns) /\ {left, right} \subseteq Statuses \cup {"ABSENT"}
    BY DEF Init
  <2> QED
    BY <1>1, <2>1, <2>2, <2>3 DEF Init, TypeOK, ShardType, RetryType
<1>3. Good(cmd, pending)
  <2>1. \A s \in Shards, t \in Txns : shard[s].parts[t] = NoPart
    BY DEF Init, Genesis
  <2>2. PartsOK(cmd)
    BY <2>1 DEF PartsOK
  <2>3. NetOK(cmd)
    BY DEF Init, NetOK
  <2>4. StatusOK(cmd)
    BY DEF Init, StatusOK, CommandOK, CrossIn
  <2>5. PendingOK(cmd, pending)
    BY DEF Init, PendingOK, NoEvent
  <2> QED
    BY <1>2, <2>2, <2>3, <2>4, <2>5 DEF Good, TypeOK, CommandType, EventType
<1>4. StepOK
  BY DEF Init, StepOK
<1> QED
  BY <1>2, <1>3, <1>4 DEF IInv

\* Every step of the wallet keeps the invariant.
LEMMA NextOK ==
  ASSUME IInv, [Next]_vars
  PROVE  IInv'
<1>1. CASE UNCHANGED vars
  <2>1. UNCHANGED <<cmd, order, pending, retries, shard, fence, net, epoch, pc, cursor,
                    left, right, crashes, resets>>
    BY <1>1 DEF vars
  <2>2. Good(cmd, pending)'
    BY <2>1, GoodStable DEF IInv
  <2>3. TypeOK'
    BY <2>1 DEF IInv, TypeOK
  <2>4. Advance' = Advance
    BY <2>1, AdvanceStable
  <2>5. StepOK'
    BY <2>1, <2>4 DEF IInv, StepOK, Fresh, Src, Dst
  <2> QED
    BY <2>2, <2>3, <2>5 DEF IInv
<1>2. CASE WorkerStep
  BY <1>2, ReadOK, ActSendOK, ReplyOK, StepAppendOK, StepFinishOK DEF WorkerStep
<1>3. CASE \E t \in Txns, i \in Intents : Create(t, i)
  BY <1>3, CreateOK
<1>4. CASE Sync
  BY <1>4, SyncOK
<1>5. CASE \E t \in Txns : Cancel(t)
  BY <1>5, CancelOK
<1>6. CASE \E t \in Txns : StepBegin(t)
  BY <1>6, StepBeginOK
<1>7. CASE \E m \in net : DeliverLate(m)
  BY <1>7, DeliverOK
<1>8. CASE \E e \in 1..MaxEpoch : Restart(e)
  BY <1>8, RestartOK
<1> QED
  BY <1>1, <1>2, <1>3, <1>4, <1>5, <1>6, <1>7, <1>8, QuietOK, AdminOK DEF Next

\* Every reachable state satisfies the inductive invariant.
THEOREM Inductive == Spec => []IInv
<1>1. Init => IInv
  BY InitOK
<1>2. IInv /\ [Next]_vars => IInv'
  BY NextOK
<1> QED
  BY <1>1, <1>2, PTL DEF Spec

\* The state of every variable stays in its declared domain, for all constants.
THEOREM TypeCorrect == Spec => []TypeOK
<1>1. IInv => TypeOK
  BY DEF IInv
<1> QED
  BY <1>1, Inductive, PTL

\* Cross-shard transfers are all or nothing, with any number of accounts,
\* shards and transfers, any failures, and requests arriving at any time.
THEOREM Atomicity == Spec => []AllOrNothing
<1>1. ASSUME IInv PROVE AllOrNothing
  <2> SUFFICES ASSUME NEW t \in Txns, Cross(t)
               PROVE  /\ SourceStatus(t) = "CONFIRMED" => cmd[t].decision = "COMMIT"
                      /\ DestinationStatus(t) = "CONFIRMED" => SourceStatus(t) = "CONFIRMED"
                      /\ cmd[t].decision = "COMMIT" =>
                           {SourceStatus(t), DestinationStatus(t)}
                              \subseteq {"PREPARED", "CONFIRMED"}
                      /\ cmd[t].status = "SUCCEEDED" => DestinationStatus(t) = "CONFIRMED"
                      /\ cmd[t].status = "CANCELED" =>
                           SourceStatus(t) = "CANCELED" /\ DestinationStatus(t) = "CANCELED"
    BY DEF AllOrNothing
  <2>1. CommandOK(cmd, t)
    BY <1>1 DEF IInv, Good, StatusOK
  <2>2. Src(cmd, t) = SourceStatus(t) /\ Dst(cmd, t) = DestinationStatus(t)
    BY DEF Src, Dst, SourceStatus, DestinationStatus
  <2>3. CrossIn(cmd, t)
    BY DEF Cross, CrossIn
  <2> QED
    BY <2>1, <2>2, <2>3 DEF CommandOK
<1>2. IInv => AllOrNothing
  BY <1>1
<1> QED
  BY <1>2, Inductive, PTL

\* An event left pending by a failed append can always be committed later: the
\* journal never becomes one that project() refuses to replay.
THEOREM Replayability == Spec => []JournalReplayable
<1>1. ASSUME IInv PROVE JournalReplayable
  <2>1. pending \in EventType /\ PendingOK(cmd, pending) /\ StatusOK(cmd) /\ cmd \in CommandType
    BY <1>1 DEF IInv, Good
  <2>2. CASE pending.kind # "completed"
    BY <2>1, <2>2 DEF JournalReplayable, ProjectRaises, PendingOK, EventType,
                      JournalEvents, NoEvent
  <2>3. CASE pending.kind = "completed"
    <3>1. pending.txn \in Txns /\ cmd[pending.txn] # NoCommand
      BY <2>1, <2>3 DEF EventType, JournalEvents, NoEvent, PendingOK, NoCommand
    <3>2. IsLocal(cmd[pending.txn].intent) => cmd[pending.txn].decision = "NONE"
      BY <2>1, <3>1 DEF StatusOK, CommandOK
    <3> QED
      BY <2>1, <2>3, <3>1, <3>2 DEF JournalReplayable, ProjectRaises, PendingOK
  <2> QED
    BY <2>2, <2>3
<1>2. IInv => JournalReplayable
  BY <1>1
<1> QED
  BY <1>2, Inductive, PTL

\* No step meets a participant confirmed without a durable decision.
THEOREM NoOrphanConfirmation == Spec => []NeverRaises
<1>1. ASSUME IInv PROVE NeverRaises
  <2> SUFFICES ASSUME pc = "act" PROVE Advance.do # "raise"
    BY DEF NeverRaises, Raise
  <2>1. CASE IsLocal(cmd[cursor].intent)
    BY <1>1, <2>1, LocalShape DEF Local, Journal
  <2>2. CASE CrossIn(cmd, cursor) /\ cmd[cursor].decision = "NONE"
    BY <1>1, <2>2, UndecidedShape DEF Send, Journal
  <2>3. CASE CrossIn(cmd, cursor) /\ cmd[cursor].decision # "NONE"
    BY <1>1, <2>3, DecidedShape DEF Send, Journal
  <2> QED
    BY <1>1, <2>1, <2>2, <2>3, StepFacts
<1>2. IInv => NeverRaises
  BY <1>1
<1> QED
  BY <1>2, Inductive, PTL

-----------------------------------------------------------------------------

Kept(c, d, t) ==
  /\ d[t] # NoCommand /\ d[t].intent = c[t].intent
  /\ c[t].decision # "NONE" => d[t].decision = c[t].decision
  /\ c[t].status # "PENDING" => d[t] = c[t]

\* Projecting one more event takes nothing back.
LEMMA ProjectKeeps ==
  ASSUME NEW c, NEW p, Good(c, p), NEW t \in Txns, c[t] # NoCommand
  PROVE  Kept(c, ProjectCmd(c, p), t)
<1>1. c \in CommandType /\ p \in EventType /\ PendingOK(c, p)
  BY DEF Good
<1>2. c[t] \in Command
  BY <1>1 DEF CommandType
<1>3. CASE p.kind = "none" \/ p.txn # t
  <2>1. ProjectCmd(c, p)[t] = c[t]
    BY <1>1, <1>3 DEF ProjectCmd, EventType, JournalEvents, NoEvent, CommandType
  <2> QED
    BY <2>1 DEF Kept
<1>4. CASE p.kind # "none" /\ p.txn = t
  BY <1>1, <1>2, <1>4 DEF Kept, PendingOK, ProjectCmd, EventType, JournalEvents,
                          NoEvent, CommandType, Command, NoCommand
<1> QED
  BY <1>3, <1>4

\* An append takes nothing back, whether it commits or stays pending.
LEMMA AppendKeeps ==
  ASSUME Good(cmd, pending), NEW e \in JournalEvents, PendingOK(SyncedCmd, e),
         AppendCommitted(e) \/ AppendUnresolved(e),
         NEW t \in Txns, cmd[t] # NoCommand
  PROVE  Kept(cmd, cmd', t)
<1>1. Kept(cmd, SyncedCmd, t)
  BY ProjectKeeps DEF SyncedCmd
<1>2. Good(SyncedCmd, e)
  BY Absorb DEF SyncedCmd, Good, EventType
<1>3. Kept(SyncedCmd, ProjectCmd(SyncedCmd, e), t)
  BY <1>1, <1>2, ProjectKeeps DEF Kept
<1>4. cmd' = SyncedCmd \/ cmd' = ProjectCmd(SyncedCmd, e)
  BY DEF AppendCommitted, AppendUnresolved
<1> QED
  BY <1>1, <1>3, <1>4 DEF Kept

\* Every change of the committed commands is a synchronisation or a justified
\* append.
LEMMA JournalSteps ==
  ASSUME IInv, Next
  PROVE  \/ cmd' = cmd
         \/ cmd' = SyncedCmd
         \/ \E e \in JournalEvents : /\ PendingOK(SyncedCmd, e)
                                     /\ AppendCommitted(e) \/ AppendUnresolved(e)
<1>1. ASSUME NEW t \in Txns, NEW i \in Intents, Create(t, i)
      PROVE  \E e \in JournalEvents : /\ PendingOK(SyncedCmd, e)
                                      /\ AppendCommitted(e) \/ AppendUnresolved(e)
  <2>1. Accept(t, i) \in JournalEvents /\ PendingOK(SyncedCmd, Accept(t, i))
    BY <1>1 DEF Create, PendingOK, Accept, JournalEvents
  <2> QED
    BY <1>1, <2>1 DEF Create
<1>2. ASSUME NEW t \in Txns, Cancel(t)
      PROVE  \/ cmd' = SyncedCmd
             \/ \E e \in JournalEvents : /\ PendingOK(SyncedCmd, e)
                                         /\ AppendCommitted(e) \/ AppendUnresolved(e)
  <2>1. CASE Synced
    BY <2>1 DEF Synced
  <2>2. CASE SyncedCmd[t].decision = "NONE" /\ ~Synced
    <3>1. Decide(t, "CANCEL") \in JournalEvents
      BY DEF Decide, JournalEvents
    <3>2. PendingOK(SyncedCmd, Decide(t, "CANCEL"))
      BY <1>2, <2>2 DEF Cancel, Cancelable, PendingOK, Decide
    <3> QED
      BY <1>2, <2>2, <3>1, <3>2 DEF Cancel
  <2> QED
    BY <1>2, <2>1, <2>2 DEF Cancel
<1>3. ASSUME WorkerStep
      PROVE  \/ cmd' = cmd
             \/ \E e \in JournalEvents : /\ PendingOK(SyncedCmd, e)
                                         /\ AppendCommitted(e) \/ AppendUnresolved(e)
  <2>1. CASE ActAppend \/ ActAppendFails
    <3>1. pc = "act" /\ Advance.do = "append"
      BY <2>1 DEF ActAppend, ActAppendFails
    <3>2. Advance.event \in JournalEvents /\ PendingOK(SyncedCmd, Advance.event)
      BY <3>1, AppendJustified
    <3> QED
      BY <2>1, <3>2 DEF ActAppend, ActAppendFails, jvars
  <2>2. CASE RejectPrepare
    BY <2>2, RejectJustified DEF RejectPrepare
  <2> QED
    BY <1>3, <2>1, <2>2 DEF WorkerStep, ReadLeft, ReadRight, ActSend, Reply,
       RejectUnrecorded, StepFails, StepEnd, jvars
<1> QED
  BY <1>1, <1>2, <1>3 DEF Next, Sync, Synced, Retry, BackoffExpires, StepBegin,
     DeliverLate, Lose, FenceShard, Restart, jvars

\* An accepted intent, a decision and a terminal status never change.
THEOREM Finality == Spec => DecisionsFinal
<1>1. ASSUME IInv, [Next]_vars
      PROVE  [\A t \in Txns : cmd[t] # NoCommand =>
                /\ cmd'[t] # NoCommand /\ cmd'[t].intent = cmd[t].intent
                /\ cmd[t].decision # "NONE" => cmd'[t].decision = cmd[t].decision
                /\ cmd[t].status # "PENDING" => cmd'[t] = cmd[t]]_vars
  <2>1. CASE UNCHANGED vars
    BY <2>1
  <2>2. CASE Next
    <3> SUFFICES ASSUME NEW t \in Txns, cmd[t] # NoCommand PROVE Kept(cmd, cmd', t)
      BY DEF Kept
    <3>1. CASE cmd' = cmd
      BY <3>1 DEF Kept
    <3>2. CASE cmd' = SyncedCmd
      BY <1>1, <3>2, ProjectKeeps DEF IInv, SyncedCmd
    <3>3. CASE \E e \in JournalEvents : /\ PendingOK(SyncedCmd, e)
                                        /\ AppendCommitted(e) \/ AppendUnresolved(e)
      BY <1>1, <3>3, AppendKeeps DEF IInv
    <3> QED
      BY <1>1, <2>2, <3>1, <3>2, <3>3, JournalSteps
  <2> QED
    BY <1>1, <2>1, <2>2
<1>2. IInv /\ [Next]_vars =>
        [\A t \in Txns : cmd[t] # NoCommand =>
                /\ cmd'[t] # NoCommand /\ cmd'[t].intent = cmd[t].intent
                /\ cmd[t].decision # "NONE" => cmd'[t].decision = cmd[t].decision
                /\ cmd[t].status # "PENDING" => cmd'[t] = cmd[t]]_vars
  BY <1>1
<1> QED
  BY <1>2, Inductive, PTL DEF Spec, DecisionsFinal

\* A coordinator fenced on every shard moves no money, not even through a
\* request that it sent before it was fenced.
THEOREM Fencing == Spec => FencedOut
<1>1. ASSUME IInv, [Next]_vars
      PROVE  [(\A s \in Shards : fence[s] > epoch) => shard' = shard]_vars
  <2> SUFFICES ASSUME Next, \A s \in Shards : fence[s] > epoch
               PROVE  shard' = shard
    BY <1>1
  <2>1. ASSUME NEW m \in net, Execute(m)
        PROVE  shard' = shard
    <3>1. m \in Message /\ m.epoch <= epoch
      BY <1>1 DEF IInv, Good, NetOK, MessageOK
    <3>2. ToShard(m) \in Shards
      BY <3>1, Routing
    <3>3. m.epoch \in Int /\ epoch \in Int /\ fence[ToShard(m)] \in Int
      BY <1>1, <3>1, <3>2, CoordinatorAssumption DEF IInv, TypeOK, Message
    <3>4. Fenced(m)
      BY <3>1, <3>2, <3>3 DEF Fenced
    <3> QED
      BY <2>1, <3>4 DEF Execute
  <2>2. CASE Reply
    BY <2>1, <2>2 DEF Reply
  <2>3. CASE \E m \in net : DeliverLate(m)
    BY <2>1, <2>3 DEF DeliverLate
  <2> QED
    BY <2>2, <2>3 DEF Next, WorkerStep, Create, Sync, Cancel, Retry, BackoffExpires,
       StepBegin, ReadLeft, ReadRight, ActSend, RejectPrepare, RejectUnrecorded,
       Rejected, ActAppend, ActAppendFails, StepFails, StepEnd, Lose, FenceShard, Restart
<1>2. IInv /\ [Next]_vars =>
        [(\A s \in Shards : fence[s] > epoch) => shard' = shard]_vars
  BY <1>1
<1> QED
  BY <1>2, Inductive, PTL DEF Spec, FencedOut

\* No step of the coordinator, the shards or a late request takes back a decision
\* or moves money behind a fence (coordinator.py, shard.py).
THEOREM StepsKept == Spec => StepsFinal
BY Finality, Fencing DEF StepsFinal

-----------------------------------------------------------------------------
(***************************************************************************)
(* Money.  A request adds to one account what it takes from another, from  *)
(* a hold or from the money in transit, so the total that the accounts and *)
(* the transfers in transit hold never changes; and what an account holds  *)
(* is always the sum of the transfers that reserve it.  Sums over all      *)
(* accounts and all transactions are compared by the lemmas of SumTheorems *)
(* about one element that changes, joins or leaves.                        *)
(***************************************************************************)

Account(a) == shard[ShardFor[a]].accounts[a]

\* What executing request m adds to the two balances of account a.
AvailableGain(m, a) ==
  IF ShardFor[a] = ToShard(m)
  THEN AvailableDelta(shard[ToShard(m)].accounts,
                      shard[ToShard(m)].parts[m.txn].status, m, a)
  ELSE 0
HeldGain(m, a) ==
  IF ShardFor[a] = ToShard(m)
  THEN HeldDelta(shard[ToShard(m)].accounts,
                 shard[ToShard(m)].parts[m.txn].status, m, a)
  ELSE 0

\* Request m becomes an event of its shard.
Posts(m) ==
  LET s == ToShard(m)
  IN  /\ ~Refuses(s, shard[s], m)
      /\ ~Replays(shard[s].parts[m.txn], m)
      /\ shard'[s].parts[m.txn].status = StatusAfter(shard[s].accounts, m)
      /\ \A u \in Shards, t \in Txns :
           u # s \/ t # m.txn => shard'[u].parts[t] = shard[u].parts[t]
      /\ \A a \in Accounts :
           LET b == shard'[ShardFor[a]].accounts[a]
           IN  /\ b.available = Account(a).available + AvailableGain(m, a)
               /\ b.held = Account(a).held + HeldGain(m, a)
               /\ ShardFor[a] = s => b.available >= 0

\* The balances of an account are integers.
LEMMA AccountType ==
  ASSUME ShardType, NEW a \in Accounts
  PROVE  /\ ShardFor[a] \in Shards
         /\ Account(a).available \in Int /\ Account(a).held \in Int
<1>1. ShardFor[a] \in Shards /\ a \in AccountsOf(ShardFor[a])
  BY WalletAssumption DEF AccountsOf
<1>2. Account(a) \in Balance
  BY <1>1 DEF ShardType, Account
<1> QED
  BY <1>1, <1>2 DEF Balance

\* Shard.action leaves a shard alone or folds one event into it.
LEMMA ExecutePosts ==
  ASSUME NEW m \in Message, ShardType, Execute(m)
  PROVE  shard' = shard \/ Posts(m)
<1> DEFINE s == ToShard(m)
           st == shard[s]
           old == st.parts[m.txn]
           new == ReduceEvent(st, m)
<1>0. s \in Shards /\ m.txn \in Txns
  BY Routing
<1>1. CASE Fenced(m) \/ Refuses(s, st, m) \/ Replays(old, m)
  <2>1. shard' = shard \/ shard' = [shard EXCEPT ![s] = st]
    BY <1>1 DEF Execute, ActionState
  <2> QED
    BY <1>0, <2>1 DEF ShardType
<1>2. CASE ~Fenced(m) /\ ~Refuses(s, st, m) /\ ~Replays(old, m)
  <2>1. shard' = [shard EXCEPT ![s] = new]
    BY <1>2 DEF Execute, ActionState
  <2>2. \A u \in Shards : shard'[u] = IF u = s THEN new ELSE shard[u]
    BY <1>0, <2>1 DEF ShardType
  <2>3. /\ st.accounts \in [AccountsOf(s) -> Balance]
        /\ st.parts \in [Txns -> Part \cup {NoPart}]
    BY <1>0 DEF ShardType
  <2>4. ~ReduceRaises(st, m)
    BY <1>2 DEF Refuses
  <2>5. new.accounts = [a \in AccountsOf(s) |->
           [available |-> st.accounts[a].available + AvailableDelta(st.accounts, old.status, m, a),
            held |-> st.accounts[a].held + HeldDelta(st.accounts, old.status, m, a)]]
    BY <2>3 DEF ReduceEvent
  <2>6. new.parts = [st.parts EXCEPT ![m.txn] =
           [intent |-> m.intent, role |-> m.role, status |-> StatusAfter(st.accounts, m)]]
    BY DEF ReduceEvent
  <2>7. /\ shard'[s].parts[m.txn].status = StatusAfter(st.accounts, m)
        /\ \A u \in Shards, t \in Txns :
             u # s \/ t # m.txn => shard'[u].parts[t] = shard[u].parts[t]
    BY <1>0, <2>2, <2>3, <2>6
  <2>8. \A a \in AccountsOf(s) : new.accounts[a].available >= 0
    <3>1. DOMAIN new.accounts = AccountsOf(s)
      BY <2>5
    <3>2. \A a \in AccountsOf(s) : ~(new.accounts[a].available < 0)
      BY <2>4, <3>1 DEF ReduceRaises
    <3>3. new.accounts \in [AccountsOf(s) -> Balance]
      BY <1>0, <1>2, ReduceMoves
    <3>4. \A a \in AccountsOf(s) : new.accounts[a].available \in Int
      BY <3>3 DEF Balance
    <3> QED
      BY <3>2, <3>4
  <2>9. ASSUME NEW a \in Accounts
        PROVE  LET b == shard'[ShardFor[a]].accounts[a]
               IN  /\ b.available = Account(a).available + AvailableGain(m, a)
                   /\ b.held = Account(a).held + HeldGain(m, a)
                   /\ ShardFor[a] = s => b.available >= 0
    <3>1. ShardFor[a] \in Shards
      BY WalletAssumption
    <3>2. CASE ShardFor[a] = s
      <4>1. a \in AccountsOf(s) /\ shard'[s].accounts[a] = new.accounts[a]
        BY <1>0, <2>2, <3>2 DEF AccountsOf
      <4> QED
        BY <2>5, <2>8, <3>2, <4>1 DEF Account, AvailableGain, HeldGain
    <3>3. CASE ShardFor[a] # s
      <4>1. shard'[ShardFor[a]] = shard[ShardFor[a]]
        BY <2>2, <3>1, <3>3
      <4> QED
        BY <3>3, <4>1, AccountType DEF Account, AvailableGain, HeldGain
    <3> QED
      BY <3>2, <3>3
  <2> QED
    BY <1>2, <2>7, <2>9 DEF Posts
<1> QED
  BY <1>1, <1>2

-----------------------------------------------------------------------------
(***************************************************************************)
(* Sums over accounts and over transfers.                                  *)
(***************************************************************************)

\* The amount of an accepted transfer is a number, and sums of amounts are.
LEMMA AmountFacts ==
  ASSUME Good(cmd, pending), NEW S \in SUBSET Txns, \A t \in S : cmd[t] # NoCommand
  PROVE  /\ IsFiniteSet(S)
         /\ \A t \in S : Amounts[t] = cmd[t].intent.amount /\ Amounts[t] \in Nat
         /\ SumFunctionOnSet(Amounts, S) \in Nat
         /\ \A t \in S : SumFunctionOnSet(Amounts, S) >= Amounts[t]
<1>1. IsFiniteSet(S)
  BY FiniteAssumption, FS_Subset
<1>2. \A t \in S : Amounts[t] = cmd[t].intent.amount /\ Amounts[t] \in Nat
  BY WalletAssumption DEF Amounts, Good, CommandType, Command
<1> QED
  BY <1>1, <1>2, SumNat

\* The sets of transfers that the money identities are about are accepted ones.
LEMMA MoneySets ==
  /\ Departed \in SUBSET Txns /\ \A t \in Departed : cmd[t] # NoCommand
  /\ \A a \in Accounts : /\ Reserving(a) \in SUBSET Txns
                         /\ \A t \in Reserving(a) : cmd[t] # NoCommand
  BY DEF Departed, Reserving, Cross

\* What every account owns, before and after a step.
LEMMA HoldingsFacts ==
  ASSUME ShardType, ShardType'
  PROVE  /\ WalletTotal = SumFunctionOnSet(Holdings, Accounts)
         /\ WalletTotal' = SumFunctionOnSet(Holdings', Accounts)
         /\ WalletTotal \in Int
         /\ \A a \in Accounts :
              /\ Holdings[a] = Account(a).available + Account(a).held
              /\ Holdings'[a] = Account(a)'.available + Account(a)'.held
              /\ Holdings[a] \in Int /\ Holdings'[a] \in Int
<1>1. \A a \in Accounts : Holdings[a] = Account(a).available + Account(a).held
  BY DEF Holdings, Account
<1>2. \A a \in Accounts : Holdings'[a] = Account(a)'.available + Account(a)'.held
  BY DEF Holdings, Account
<1>3. \A a \in Accounts : Holdings[a] \in Int
  BY <1>1, AccountType
<1>4. \A a \in Accounts : Holdings'[a] \in Int
  <2>1. ASSUME NEW a \in Accounts
        PROVE  Account(a)'.available \in Int /\ Account(a)'.held \in Int
    <3>1. ShardFor[a] \in Shards /\ a \in AccountsOf(ShardFor[a])
      BY WalletAssumption DEF AccountsOf
    <3>2. shard'[ShardFor[a]].accounts \in [AccountsOf(ShardFor[a]) -> Balance]
      BY <3>1 DEF ShardType
    <3>3. shard'[ShardFor[a]].accounts[a] \in Balance
      BY <3>1, <3>2
    <3> QED
      BY <3>3 DEF Balance, Account
  <2> QED
    BY <1>2, <2>1
<1> QED
  BY <1>1, <1>2, <1>3, <1>4, SumType, FiniteAssumption DEF WalletTotal

\* One account, or two of them, change what they own.
LEMMA TotalMoves ==
  ASSUME ShardType, ShardType', NEW x \in Accounts, NEW y \in Accounts, x # y,
         NEW d \in Int, NEW e \in Int,
         Holdings'[x] = Holdings[x] + d, Holdings'[y] = Holdings[y] + e,
         \A a \in Accounts : a # x /\ a # y => Holdings'[a] = Holdings[a]
  PROVE  WalletTotal' = WalletTotal + (d + e)
<1> DEFINE F == Holdings
           H == Holdings'
           G == [a \in Accounts |-> IF a = x THEN H[a] ELSE F[a]]
<1>1. \A a \in Accounts : F[a] \in Int /\ H[a] \in Int /\ G[a] \in Int
  BY HoldingsFacts
<1>2. /\ G[x] = F[x] + d
      /\ \A a \in Accounts : a # x => G[a] = F[a]
      /\ H[y] = G[y] + e
      /\ \A a \in Accounts : a # y => H[a] = G[a]
  OBVIOUS
<1>3. /\ WalletTotal = SumFunctionOnSet(F, Accounts) /\ WalletTotal \in Int
      /\ WalletTotal' = SumFunctionOnSet(H, Accounts)
  BY HoldingsFacts
<1> HIDE DEF F, G, H
<1>4. SumFunctionOnSet(G, Accounts) = SumFunctionOnSet(F, Accounts) + (G[x] - F[x])
  BY <1>1, <1>2, SumUpdate, FiniteAssumption
<1>5. SumFunctionOnSet(H, Accounts) = SumFunctionOnSet(G, Accounts) + (H[y] - G[y])
  BY <1>1, <1>2, SumUpdate, FiniteAssumption
<1> QED
  BY <1>1, <1>2, <1>3, <1>4, <1>5

\* The total stays when no account changes.
LEMMA TotalKept ==
  ASSUME ShardType, ShardType', \A a \in Accounts : Holdings'[a] = Holdings[a]
  PROVE  WalletTotal' = WalletTotal
<1>1. \A a \in Accounts : Holdings[a] \in Int
  BY HoldingsFacts
<1> QED
  BY <1>1, SumSame, FiniteAssumption, HoldingsFacts

-----------------------------------------------------------------------------
(***************************************************************************)
(* One event of a shard.                                                   *)
(***************************************************************************)

\* What is known about a request that becomes an event.
LEMMA PostFacts ==
  ASSUME NEW m, m \in net, ShardType, Good(cmd, pending), Posts(m)
  PROVE  LET i == m.intent
             old == shard[ToShard(m)].parts[m.txn]
             now == StatusAfter(shard[ToShard(m)].accounts, m)
         IN  /\ m \in Message /\ MessageOK(cmd, m) /\ m.txn \in Txns
             /\ cmd[m.txn] # NoCommand /\ i = cmd[m.txn].intent
             /\ i.from \in Accounts /\ i.to \in Accounts /\ i.from # i.to
             /\ i.amount \in Nat
             /\ m.kind \in {"local", "prepare"} => old.status = "ABSENT"
             /\ m.kind = "local" => now \in {"CONFIRMED", "REJECTED"}
             /\ m.kind = "prepare" => now \in {"PREPARED", "REJECTED"}
             /\ m.kind = "confirm" => old.status = "PREPARED" /\ now = "CONFIRMED"
             /\ m.kind = "cancel" => /\ old.status \in {"ABSENT", "PREPARED", "REJECTED"}
                                     /\ now = "CANCELED"
<1> DEFINE s == ToShard(m)
           old == shard[s].parts[m.txn]
<1>1. m \in Message /\ MessageOK(cmd, m)
  BY DEF Good, NetOK, MessageOK
<1>2. s \in Shards /\ m.txn \in Txns /\ m.intent \in Intents /\ m.kind \in Kinds
  BY <1>1, Routing
<1>3. /\ m.intent.from \in Accounts /\ m.intent.to \in Accounts
      /\ m.intent.from # m.intent.to /\ m.intent.amount \in Nat
  BY <1>2, WalletAssumption
<1>4. old \in Part \cup {NoPart}
  BY <1>2 DEF ShardType
<1>5. /\ old.status \in {"PREPARED", "REJECTED", "CANCELED", "CONFIRMED", "ABSENT"}
      /\ old = NoPart => old.status = "ABSENT"
  BY <1>4 DEF Part, NoPart, Statuses
<1>6. ~ReduceRaises(shard[s], m)
  BY DEF Posts, Refuses
<1>7. /\ m.kind \in {"local", "prepare"} => old = NoPart
      /\ m.kind = "confirm" => old.status = "PREPARED"
      /\ m.kind = "cancel" => old.status \notin {"CONFIRMED", "CANCELED"}
  BY <1>6 DEF ReduceRaises
<1> QED
  BY <1>1, <1>2, <1>3, <1>5, <1>7 DEF MessageOK, StatusAfter

\* The gains of the two balances, request by request.
GainTable(m, a) ==
  LET i == m.intent
      old == shard[ToShard(m)].parts[m.txn].status
      now == StatusAfter(shard[ToShard(m)].accounts, m)
      Gains(d, h) == AvailableGain(m, a) = d /\ HeldGain(m, a) = h
      unmoved == \/ m.kind \in {"local", "prepare"} /\ now = "REJECTED"
                 \/ m.kind \in {"prepare", "cancel"} /\ m.role = "destination"
                 \/ m.kind = "cancel" /\ old # "PREPARED"
                 \/ a \notin {i.from, i.to}
                 \/ m.kind # "local" /\ m.role = "source" /\ a = i.to
                 \/ m.kind # "local" /\ m.role = "destination" /\ a = i.from
  IN  /\ m.kind = "local" /\ now = "CONFIRMED" /\ a = i.from => Gains(-i.amount, 0)
      /\ m.kind = "local" /\ now = "CONFIRMED" /\ a = i.to => Gains(i.amount, 0)
      /\ m.kind = "prepare" /\ m.role = "source" /\ now = "PREPARED" /\ a = i.from =>
           Gains(-i.amount, i.amount)
      /\ m.kind = "confirm" /\ m.role = "source" /\ a = i.from => Gains(0, -i.amount)
      /\ m.kind = "confirm" /\ m.role = "destination" /\ a = i.to => Gains(i.amount, 0)
      /\ m.kind = "cancel" /\ m.role = "source" /\ old = "PREPARED" /\ a = i.from =>
           Gains(i.amount, -i.amount)
      /\ unmoved => Gains(0, 0)

\* What an event adds to each account, by kind and role.
LEMMA PostGains ==
  ASSUME NEW m, m \in net, ShardType, Good(cmd, pending), Posts(m), NEW a \in Accounts
  PROVE  GainTable(m, a)
<1> DEFINE s == ToShard(m)
           accounts == shard[s].accounts
           old == shard[s].parts[m.txn].status
           i == m.intent
           now == StatusAfter(accounts, m)
<1>1. /\ MessageOK(cmd, m) /\ i.from # i.to /\ i.amount \in Nat /\ m.role \in Roles
      /\ m.kind \in Kinds
  BY PostFacts, Routing
<1>2. /\ m.role # "destination" => ShardFor[i.from] = s
      /\ m.role = "destination" => ShardFor[i.to] = s
      /\ m.role = "local" => ShardFor[i.to] = s
  BY <1>1 DEF ToShard, RoleAccount, MessageOK, IsLocal
<1>3. m.kind \in {"local", "prepare"} =>
        (Funded(accounts, m) <=> now # "REJECTED")
  BY DEF StatusAfter
<1>4. m.kind = "local" <=> m.role = "local"
  BY <1>1 DEF MessageOK
<1>5. /\ ShardFor[a] = s => /\ AvailableGain(m, a) = AvailableDelta(accounts, old, m, a)
                             /\ HeldGain(m, a) = HeldDelta(accounts, old, m, a)
      /\ ShardFor[a] # s => AvailableGain(m, a) = 0 /\ HeldGain(m, a) = 0
  BY DEF AvailableGain, HeldGain
<1>6. m.kind = "confirm" => old = "PREPARED"
  BY PostFacts
<1>7. CASE m.kind = "local"
  BY <1>1, <1>2, <1>3, <1>4, <1>5, <1>7 DEF GainTable, AvailableDelta, HeldDelta
<1>8. CASE m.kind = "prepare"
  BY <1>1, <1>2, <1>3, <1>4, <1>5, <1>8 DEF GainTable, AvailableDelta, HeldDelta, Roles
<1>9. CASE m.kind = "confirm"
  BY <1>1, <1>2, <1>4, <1>5, <1>6, <1>9 DEF GainTable, AvailableDelta, HeldDelta, Roles
<1>10. CASE m.kind = "cancel"
  BY <1>1, <1>2, <1>4, <1>5, <1>10 DEF GainTable, AvailableDelta, HeldDelta, Roles
<1> QED
  BY <1>1, <1>7, <1>8, <1>9, <1>10 DEF Kinds

\* Executing m changes only the standing of its own transfer.
LEMMA PostSets ==
  ASSUME NEW m, m \in net, ShardType, Good(cmd, pending), Posts(m), UNCHANGED cmd
  PROVE  LET t == m.txn
             old == shard[ToShard(m)].parts[t].status
             now == StatusAfter(shard[ToShard(m)].accounts, m)
         IN  /\ \A u \in Txns \ {t} :
                  /\ (u \in Departed') = (u \in Departed)
                  /\ \A a \in Accounts : (u \in Reserving(a)') = (u \in Reserving(a))
             /\ m.role = "local" => ~Cross(t) /\ ~Cross(t)'
             /\ m.role # "local" => Cross(t) /\ Cross(t)'
             /\ m.role = "source" =>
                  /\ SourceStatus(t) = old /\ SourceStatus(t)' = now
                  /\ DestinationStatus(t)' = DestinationStatus(t)
             /\ m.role = "destination" =>
                  /\ DestinationStatus(t) = old /\ DestinationStatus(t)' = now
                  /\ SourceStatus(t)' = SourceStatus(t)
<1> DEFINE s == ToShard(m)
           now == StatusAfter(shard[s].accounts, m)
<1>1. /\ MessageOK(cmd, m) /\ m.txn \in Txns /\ cmd[m.txn] # NoCommand
      /\ m.intent = cmd[m.txn].intent
  BY PostFacts
<1>2. ASSUME NEW u \in Txns, Cross(u)
      PROVE  /\ ShardFor[cmd[u].intent.from] \in Shards
             /\ ShardFor[cmd[u].intent.to] \in Shards
             /\ ShardFor[cmd[u].intent.from] # ShardFor[cmd[u].intent.to]
  BY SMTT(60), <1>2, WalletAssumption DEF Cross, IsLocal, Good, CommandType, Command
<1>3. ASSUME NEW u \in Txns, u # m.txn
      PROVE  /\ Cross(u)' = Cross(u)
             /\ Cross(u) => /\ SourceStatus(u)' = SourceStatus(u)
                            /\ DestinationStatus(u)' = DestinationStatus(u)
  <2>1. Cross(u)' = Cross(u)
    BY DEF Cross
  <2>2. \A v \in Shards : shard'[v].parts[u] = shard[v].parts[u]
    BY <1>3 DEF Posts
  <2> QED
    BY <1>2, <2>1, <2>2 DEF SourceStatus, DestinationStatus
<1>4. ASSUME NEW u \in Txns \ {m.txn}
      PROVE  /\ (u \in Departed') = (u \in Departed)
             /\ \A a \in Accounts : (u \in Reserving(a)') = (u \in Reserving(a))
  BY <1>3 DEF Departed, Reserving
<1>5. /\ m.role = "local" => ~Cross(m.txn) /\ ~Cross(m.txn)'
      /\ m.role # "local" => Cross(m.txn) /\ Cross(m.txn)'
  BY <1>1 DEF MessageOK, Cross
<1>6. /\ shard'[s].parts[m.txn].status = now
      /\ \A v \in Shards \ {s} : shard'[v].parts[m.txn] = shard[v].parts[m.txn]
  BY <1>1 DEF Posts
<1>7. CASE m.role = "source"
  <2>1. s = ShardFor[cmd[m.txn].intent.from]
    BY <1>1, <1>7 DEF ToShard, RoleAccount
  <2> QED
    BY <1>1, <1>2, <1>4, <1>5, <1>6, <1>7, <2>1 DEF SourceStatus, DestinationStatus
<1>8. CASE m.role = "destination"
  <2>1. s = ShardFor[cmd[m.txn].intent.to]
    BY <1>1, <1>8 DEF ToShard, RoleAccount
  <2> QED
    BY <1>1, <1>2, <1>4, <1>5, <1>6, <1>8, <2>1 DEF SourceStatus, DestinationStatus
<1> QED
  BY <1>4, <1>5, <1>7, <1>8

\* A hold and what reserves it change together.
LEMMA PostHolds ==
  ASSUME NEW m, m \in net, ShardType, Good(cmd, pending), Posts(m), UNCHANGED cmd,
         NEW a \in Accounts
  PROVE  \/ HeldGain(m, a) = 0 /\ Reserving(a)' = Reserving(a)
         \/ /\ HeldGain(m, a) = m.intent.amount
            /\ m.txn \notin Reserving(a) /\ Reserving(a)' = Reserving(a) \cup {m.txn}
         \/ /\ HeldGain(m, a) = -m.intent.amount
            /\ m.txn \in Reserving(a) /\ Reserving(a)' = Reserving(a) \ {m.txn}
<1> DEFINE i == m.intent
           old == shard[ToShard(m)].parts[m.txn].status
           now == StatusAfter(shard[ToShard(m)].accounts, m)
<1>g. \A b \in Accounts : GainTable(m, b)
  BY PostGains
<1>1. /\ MessageOK(cmd, m) /\ m.txn \in Txns /\ i = cmd[m.txn].intent
      /\ m.kind \in Kinds /\ m.role \in Roles /\ i.from # i.to
  BY PostFacts, Routing
<1>2. /\ Reserving(a) \subseteq Txns /\ Reserving(a)' \subseteq Txns
      /\ \A u \in Txns \ {m.txn} : (u \in Reserving(a)') = (u \in Reserving(a))
  BY PostSets DEF Reserving
<1>3. (m.kind = "local") = (m.role = "local")
  BY <1>1 DEF MessageOK
<1>4. CASE m.role # "source" \/ a # i.from
  <2>1. HeldGain(m, a) = 0
    BY <1>4 DEF HeldGain, HeldDelta
  <2>2. (m.txn \in Reserving(a)') = (m.txn \in Reserving(a))
    BY <1>1, <1>4, PostSets DEF Reserving, Roles
  <2> QED
    BY <1>2, <2>1, <2>2
<1>5. CASE m.role = "source" /\ a = i.from
  <2>1. /\ m.txn \in Reserving(a) <=> old = "PREPARED"
        /\ m.txn \in Reserving(a)' <=> now = "PREPARED"
    BY <1>1, <1>5, PostSets DEF Reserving
  <2>2. CASE m.kind = "prepare" /\ now = "PREPARED"
    <3>1. HeldGain(m, a) = i.amount /\ old = "ABSENT"
      BY <1>5, <2>2, <1>g, PostFacts DEF GainTable
    <3> QED
      BY <1>2, <2>1, <2>2, <3>1
  <2>3. CASE \/ m.kind = "confirm"
             \/ m.kind = "cancel" /\ old = "PREPARED"
    <3>1. HeldGain(m, a) = -i.amount /\ old = "PREPARED" /\ now # "PREPARED"
      BY <1>5, <2>3, <1>g, PostFacts DEF GainTable
    <3> QED
      BY <1>2, <2>1, <2>3, <3>1
  <2>4. CASE \/ m.kind = "prepare" /\ now # "PREPARED"
             \/ m.kind = "cancel" /\ old # "PREPARED"
    <3>1. /\ m.kind = "prepare" => now = "REJECTED"
          /\ old # "PREPARED" /\ now # "PREPARED"
      BY <2>4, PostFacts
    <3>2. HeldGain(m, a) = 0
      <4>1. CASE m.kind = "prepare" /\ now = "REJECTED"
        BY <4>1, <1>g DEF GainTable
      <4>2. CASE m.kind = "cancel" /\ old # "PREPARED"
        BY <4>2, <1>g DEF GainTable
      <4> QED
        BY <2>4, <3>1, <4>1, <4>2
    <3> QED
      BY <1>2, <2>1, <3>1, <3>2
  <2> QED
    BY <1>1, <1>3, <1>5, <2>2, <2>3, <2>4 DEF Kinds
<1> QED
  BY <1>4, <1>5

\* What the wallets own and what is under way change together.
LEMMA PostTotal ==
  ASSUME NEW m, m \in net, ShardType, ShardType', Good(cmd, pending), Posts(m), UNCHANGED cmd
  PROVE  LET n == m.intent.amount
         IN  \/ WalletTotal' = WalletTotal /\ Departed' = Departed
             \/ /\ WalletTotal' = WalletTotal - n
                /\ m.txn \notin Departed /\ Departed' = Departed \cup {m.txn}
             \/ /\ WalletTotal' = WalletTotal + n
                /\ m.txn \in Departed /\ Departed' = Departed \ {m.txn}
<1> DEFINE i == m.intent
           n == i.amount
           t == m.txn
           old == shard[ToShard(m)].parts[t].status
           now == StatusAfter(shard[ToShard(m)].accounts, m)
<1>g. \A b \in Accounts : GainTable(m, b)
  BY PostGains
<1>1. /\ MessageOK(cmd, m) /\ t \in Txns /\ i = cmd[t].intent
      /\ m.kind \in Kinds /\ m.role \in Roles /\ i.from # i.to
      /\ i.from \in Accounts /\ i.to \in Accounts /\ n \in Nat
  BY PostFacts, Routing
<1>2. /\ Departed \subseteq Txns /\ Departed' \subseteq Txns
      /\ \A u \in Txns \ {t} : (u \in Departed') = (u \in Departed)
  BY PostSets DEF Departed
<1>3. (m.kind = "local") = (m.role = "local")
  BY <1>1 DEF MessageOK
<1>4. /\ WalletTotal \in Int
      /\ \A a \in Accounts : /\ Holdings[a] \in Int
                             /\ AvailableGain(m, a) \in Int /\ HeldGain(m, a) \in Int
                             /\ Holdings'[a] = Holdings[a] + AvailableGain(m, a) + HeldGain(m, a)
  <2>1. ASSUME NEW a \in Accounts
        PROVE  AvailableGain(m, a) \in Int /\ HeldGain(m, a) \in Int
    BY <1>1 DEF AvailableGain, HeldGain, AvailableDelta, HeldDelta
  <2>2. ASSUME NEW a \in Accounts
        PROVE  /\ Account(a)'.available = Account(a).available + AvailableGain(m, a)
               /\ Account(a)'.held = Account(a).held + HeldGain(m, a)
    BY DEF Posts, Account
  <2> QED
    BY <2>1, <2>2, HoldingsFacts, AccountType
<1>5. CASE m.kind # "confirm"
  <2>1. (t \in Departed') = (t \in Departed)
    <3>1. old # "CONFIRMED" /\ (m.role # "local" => now # "CONFIRMED")
      BY <1>1, <1>3, <1>5, PostFacts DEF Kinds
    <3> QED
      BY <1>1, <3>1, PostSets DEF Departed, Roles
  <2>2. Departed' = Departed
    BY <1>2, <2>1
  <2>3. CASE m.kind = "local" /\ now = "CONFIRMED"
    <3>1. /\ AvailableGain(m, i.from) = -n /\ HeldGain(m, i.from) = 0
          /\ AvailableGain(m, i.to) = n /\ HeldGain(m, i.to) = 0
      BY <1>1, <2>3, <1>g DEF GainTable
    <3>2. \A a \in Accounts : a \notin {i.from, i.to} =>
                              AvailableGain(m, a) = 0 /\ HeldGain(m, a) = 0
      BY <1>g DEF GainTable
    <3>3. /\ Holdings'[i.from] = Holdings[i.from] + (-n)
          /\ Holdings'[i.to] = Holdings[i.to] + n
          /\ \A a \in Accounts : a # i.from /\ a # i.to => Holdings'[a] = Holdings[a]
      BY <1>1, <1>4, <3>1, <3>2
    <3>4. WalletTotal' = WalletTotal + ((-n) + n)
      BY <1>1, <3>3, TotalMoves
    <3> QED
      BY <1>1, <1>4, <2>2, <3>4
  <2>4. CASE ~(m.kind = "local" /\ now = "CONFIRMED")
    <3>1. ASSUME NEW a \in Accounts
          PROVE  AvailableGain(m, a) + HeldGain(m, a) = 0
      <4>1. CASE a \notin {i.from, i.to}
        BY <4>1, <1>g DEF GainTable
      <4>2. CASE m.kind \in {"local", "prepare"} /\ now = "REJECTED"
        BY <4>2, <1>g DEF GainTable
      <4>3. CASE m.role = "source" /\ a = i.to
        BY <1>3, <4>3, <1>g DEF GainTable
      <4>4. CASE m.role = "destination" /\ m.kind \in {"prepare", "cancel"}
        BY <4>4, <1>g DEF GainTable
      <4>5. CASE m.role = "source" /\ a = i.from /\ m.kind = "prepare" /\ now = "PREPARED"
        BY <1>1, <4>5, <1>g DEF GainTable
      <4>6. CASE m.role = "source" /\ a = i.from /\ m.kind = "cancel" /\ old = "PREPARED"
        BY <1>1, <4>6, <1>g DEF GainTable
      <4>7. CASE m.kind = "cancel" /\ old # "PREPARED"
        BY <4>7, <1>g DEF GainTable
      <4>8. /\ m.kind = "local" => now = "REJECTED"
            /\ m.kind = "prepare" => now \in {"PREPARED", "REJECTED"}
        BY <2>4, PostFacts
      <4> QED
        BY <1>1, <1>3, <1>5, <4>1, <4>2, <4>3, <4>4, <4>5, <4>6, <4>7, <4>8 DEF Kinds, Roles
    <3>2. \A a \in Accounts : Holdings'[a] = Holdings[a]
      BY <1>4, <3>1
    <3>3. WalletTotal' = WalletTotal
      BY <3>2, TotalKept
    <3> QED
      BY <2>2, <3>3
  <2> QED
    BY <2>3, <2>4
<1>6. CASE m.kind = "confirm" /\ m.role = "source"
  <2>1. old = "PREPARED" /\ now = "CONFIRMED"
    BY <1>6, PostFacts
  <2>2. /\ Cross(t) /\ Cross(t)' /\ SourceStatus(t) = "PREPARED" /\ SourceStatus(t)' = "CONFIRMED"
        /\ DestinationStatus(t)' = DestinationStatus(t)
    BY <1>6, <2>1, PostSets
  <2>3. DestinationStatus(t) # "CONFIRMED"
    BY <1>1, <2>2 DEF Good, StatusOK, CommandOK, Cross, CrossIn, Src, Dst,
                      SourceStatus, DestinationStatus
  <2>4. t \notin Departed /\ t \in Departed'
    BY <1>1, <2>2, <2>3 DEF Departed
  <2>5. Departed' = Departed \cup {t}
    BY <1>2, <2>4
  <2>6. /\ AvailableGain(m, i.from) = 0 /\ HeldGain(m, i.from) = -n
        /\ AvailableGain(m, i.to) = 0 /\ HeldGain(m, i.to) = 0
    BY <1>1, <1>6, <1>g DEF GainTable
  <2>7. \A a \in Accounts : a \notin {i.from, i.to} =>
                            AvailableGain(m, a) = 0 /\ HeldGain(m, a) = 0
    BY <1>g DEF GainTable
  <2>8. /\ Holdings'[i.from] = Holdings[i.from] + (-n)
        /\ Holdings'[i.to] = Holdings[i.to] + 0
        /\ \A a \in Accounts : a # i.from /\ a # i.to => Holdings'[a] = Holdings[a]
    BY <1>1, <1>4, <2>6, <2>7
  <2>9. WalletTotal' = WalletTotal + ((-n) + 0)
    BY <1>1, <2>8, TotalMoves
  <2> QED
    BY <1>1, <1>4, <2>4, <2>5, <2>9
<1>7. CASE m.kind = "confirm" /\ m.role = "destination"
  <2>1. old = "PREPARED" /\ now = "CONFIRMED"
    BY <1>7, PostFacts
  <2>2. /\ Cross(t) /\ Cross(t)' /\ DestinationStatus(t) = "PREPARED"
        /\ DestinationStatus(t)' = "CONFIRMED" /\ SourceStatus(t)' = SourceStatus(t)
    BY SMTT(60), <1>7, <2>1, PostSets
  <2>3. SourceStatus(t) = "CONFIRMED"
    BY <1>1, <1>7 DEF MessageOK, Src, SourceStatus
  <2>4. t \in Departed /\ t \notin Departed'
    BY <1>1, <2>2, <2>3 DEF Departed
  <2>5. Departed' = Departed \ {t}
    BY <1>2, <2>4
  <2>6. /\ AvailableGain(m, i.from) = 0 /\ HeldGain(m, i.from) = 0
        /\ AvailableGain(m, i.to) = n /\ HeldGain(m, i.to) = 0
    BY <1>1, <1>7, <1>g DEF GainTable
  <2>7. \A a \in Accounts : a \notin {i.from, i.to} =>
                            AvailableGain(m, a) = 0 /\ HeldGain(m, a) = 0
    BY <1>g DEF GainTable
  <2>8. /\ Holdings'[i.from] = Holdings[i.from] + 0
        /\ Holdings'[i.to] = Holdings[i.to] + n
        /\ \A a \in Accounts : a # i.from /\ a # i.to => Holdings'[a] = Holdings[a]
    BY <1>1, <1>4, <2>6, <2>7
  <2>9. WalletTotal' = WalletTotal + (0 + n)
    BY <1>1, <2>8, TotalMoves
  <2> QED
    BY <1>1, <1>4, <2>4, <2>5, <2>9
<1> QED
  BY <1>1, <1>3, <1>5, <1>6, <1>7 DEF Roles

-----------------------------------------------------------------------------
(***************************************************************************)
(* The money identities.                                                   *)
(***************************************************************************)

MoneyOK == Conservation /\ HoldsAccounted

\* A request executed at any time keeps both identities.
LEMMA ExecuteMoney ==
  ASSUME NEW m, m \in net, ShardType, Good(cmd, pending), MoneyOK, Execute(m), UNCHANGED cmd
  PROVE  MoneyOK'
<1>1. m \in Message
  BY DEF Good, NetOK, MessageOK
<1>2. CASE shard' = shard
  <2>1. Conservation'
    BY <1>2 DEF MoneyOK, Conservation, WalletTotal, InTransit, Holdings, Amounts, Departed,
                Cross, SourceStatus, DestinationStatus
  <2>2. HoldsAccounted'
    BY <1>2 DEF MoneyOK, HoldsAccounted, Amounts, Reserving, Cross, SourceStatus
  <2> QED
    BY <2>1, <2>2 DEF MoneyOK
<1>3. CASE Posts(m)
  <2> DEFINE t == m.txn
             n == m.intent.amount
  <2>1. ShardType'
    BY <1>1, ExecuteMoves
  <2>2. Amounts' = Amounts /\ t \in Txns /\ cmd[t] # NoCommand /\ m.intent = cmd[t].intent
    BY <1>3, PostFacts DEF Amounts
  <2>3. n \in Nat /\ Amounts[t] = n
    BY <1>3, <2>2, PostFacts DEF Amounts
  <2>4. Conservation'
    <3>1. InTransit' = SumFunctionOnSet(Amounts, Departed')
      BY <2>2 DEF InTransit
    <3>2. InTransit = SumFunctionOnSet(Amounts, Departed) /\ InTransit \in Nat
      BY MoneySets, AmountFacts DEF InTransit
    <3>3. /\ IsFiniteSet(Departed) /\ Departed \subseteq Txns
          /\ \A u \in Departed : Amounts[u] \in Int
      BY MoneySets, AmountFacts
    <3>4. WalletTotal \in Int
      BY <2>1, HoldingsFacts
    <3>5. WalletTotal + InTransit = Supply
      BY DEF MoneyOK, Conservation
    <3>6. CASE WalletTotal' = WalletTotal /\ Departed' = Departed
      BY <3>1, <3>2, <3>5, <3>6 DEF Conservation, Supply
    <3>7. CASE /\ WalletTotal' = WalletTotal - n
               /\ t \notin Departed /\ Departed' = Departed \cup {t}
      <4>1. SumFunctionOnSet(Amounts, Departed \cup {t})
              = Amounts[t] + SumFunctionOnSet(Amounts, Departed)
        <5>1. \A u \in Departed \cup {t} : Amounts[u] \in Int
          BY <2>3, <3>3
        <5> QED
          BY <3>3, <3>7, <5>1, SumAdd
      <4> QED
        BY <2>3, <3>1, <3>2, <3>4, <3>5, <3>7, <4>1 DEF Conservation, Supply
    <3>8. CASE /\ WalletTotal' = WalletTotal + n
               /\ t \in Departed /\ Departed' = Departed \ {t}
      <4>1. SumFunctionOnSet(Amounts, Departed)
              = Amounts[t] + SumFunctionOnSet(Amounts, Departed \ {t})
        BY <3>3, <3>8, SumRemove
      <4>2. SumFunctionOnSet(Amounts, Departed \ {t}) \in Int
        <5>1. IsFiniteSet(Departed \ {t}) /\ \A u \in Departed \ {t} : Amounts[u] \in Int
          BY <3>3, FS_Subset
        <5> QED
          BY <5>1, SumType
      <4> QED
        BY <2>3, <3>1, <3>2, <3>4, <3>5, <3>8, <4>1, <4>2 DEF Conservation, Supply
    <3> QED
      BY <1>3, <2>1, <3>6, <3>7, <3>8, PostTotal
  <2>5. HoldsAccounted'
    <3> SUFFICES ASSUME NEW a \in Accounts
                 PROVE  LET b == shard'[ShardFor[a]].accounts[a]
                        IN  /\ b.available >= 0
                            /\ b.held = SumFunctionOnSet(Amounts, Reserving(a)')
      BY <2>2 DEF HoldsAccounted
    <3> DEFINE b == shard'[ShardFor[a]].accounts[a]
               R == Reserving(a)
    <3>1. /\ Account(a).available \in Int /\ Account(a).available >= 0
          /\ Account(a).held \in Int /\ Account(a).held = SumFunctionOnSet(Amounts, R)
      BY AccountType DEF MoneyOK, HoldsAccounted, Account
    <3>2. /\ b.available = Account(a).available + AvailableGain(m, a)
          /\ b.held = Account(a).held + HeldGain(m, a)
          /\ ShardFor[a] = ToShard(m) => b.available >= 0
      BY <1>3 DEF Posts
    <3>3. b.available >= 0
      BY <3>1, <3>2 DEF AvailableGain
    <3>4. /\ IsFiniteSet(R) /\ R \subseteq Txns /\ \A u \in R : Amounts[u] \in Int
      BY MoneySets, AmountFacts
    <3>5. CASE HeldGain(m, a) = 0 /\ Reserving(a)' = R
      BY <3>1, <3>2, <3>3, <3>5
    <3>6. CASE HeldGain(m, a) = n /\ t \notin R /\ Reserving(a)' = R \cup {t}
      <4>1. SumFunctionOnSet(Amounts, R \cup {t}) = Amounts[t] + SumFunctionOnSet(Amounts, R)
        <5>1. \A u \in R \cup {t} : Amounts[u] \in Int
          BY <2>3, <3>4
        <5> QED
          BY <3>4, <3>6, <5>1, SumAdd
      <4> QED
        BY <2>3, <3>1, <3>2, <3>3, <3>6, <4>1
    <3>7. CASE HeldGain(m, a) = -n /\ t \in R /\ Reserving(a)' = R \ {t}
      <4>1. SumFunctionOnSet(Amounts, R) = Amounts[t] + SumFunctionOnSet(Amounts, R \ {t})
        BY <3>4, <3>7, SumRemove
      <4>2. SumFunctionOnSet(Amounts, R \ {t}) \in Int
        <5>1. IsFiniteSet(R \ {t}) /\ \A u \in R \ {t} : Amounts[u] \in Int
          BY <3>4, FS_Subset
        <5> QED
          BY <5>1, SumType
      <4> QED
        BY <2>3, <3>1, <3>2, <3>3, <3>7, <4>1, <4>2
    <3> QED
      BY <1>3, <3>5, <3>6, <3>7, PostHolds
  <2> QED
    BY <2>4, <2>5 DEF MoneyOK
<1> QED
  BY <1>1, <1>2, <1>3, ExecutePosts

\* A journal step changes no standing that the identities are about: an accepted
\* transfer keeps its intent and a new one has no participant.
LEMMA JournalMoney ==
  ASSUME ShardType, Good(cmd, pending), Good(cmd, pending)', MoneyOK, shard' = shard,
         \A t \in Txns : cmd[t] # NoCommand => Kept(cmd, cmd', t)
  PROVE  MoneyOK'
<1>1. ASSUME NEW t \in Txns, cmd[t] # NoCommand
      PROVE  /\ cmd'[t] # NoCommand /\ cmd'[t].intent = cmd[t].intent
             /\ Cross(t)' = Cross(t)
             /\ SourceStatus(t)' = SourceStatus(t)
             /\ DestinationStatus(t)' = DestinationStatus(t)
  BY <1>1 DEF Kept, Cross, SourceStatus, DestinationStatus
<1>2. ASSUME NEW t \in Txns, cmd[t] = NoCommand
      PROVE  Cross(t)' => SourceStatus(t)' = "ABSENT"
  <2> SUFFICES ASSUME cmd'[t] # NoCommand PROVE SourceStatus(t)' = "ABSENT"
    BY DEF Cross
  <2> DEFINE s == ShardFor[cmd'[t].intent.from]
  <2>1. s \in Shards
    BY WalletAssumption DEF Good, CommandType, Command
  <2>2. shard[s].parts[t] = NoPart
    BY <1>2, <2>1 DEF Good, PartsOK
  <2> QED
    BY <2>2 DEF SourceStatus, NoPart
<1>3. Departed' = Departed
  <2>1. \A t \in Txns : (t \in Departed') = (t \in Departed)
    <3> SUFFICES ASSUME NEW t \in Txns PROVE (t \in Departed') = (t \in Departed)
      OBVIOUS
    <3>1. CASE cmd[t] # NoCommand
      BY <1>1, <3>1 DEF Departed
    <3>2. CASE cmd[t] = NoCommand
      BY <1>2, <3>2 DEF Departed, Cross
    <3> QED
      BY <3>1, <3>2
  <2> QED
    BY <2>1 DEF Departed
<1>4. ASSUME NEW a \in Accounts PROVE Reserving(a)' = Reserving(a)
  <2>1. \A t \in Txns : (t \in Reserving(a)') = (t \in Reserving(a))
    <3> SUFFICES ASSUME NEW t \in Txns PROVE (t \in Reserving(a)') = (t \in Reserving(a))
      OBVIOUS
    <3>1. CASE cmd[t] # NoCommand
      BY <1>1, <3>1 DEF Reserving
    <3>2. CASE cmd[t] = NoCommand
      BY <1>2, <3>2 DEF Reserving, Cross
    <3> QED
      BY <3>1, <3>2
  <2> QED
    BY <2>1 DEF Reserving
<1>5. ASSUME NEW S \in SUBSET Txns, \A t \in S : cmd[t] # NoCommand
      PROVE  SumFunctionOnSet(Amounts', S) = SumFunctionOnSet(Amounts, S)
  <2>1. IsFiniteSet(S) /\ \A t \in S : Amounts[t] = cmd[t].intent.amount /\ Amounts[t] \in Nat
    BY <1>5, AmountFacts
  <2>2. \A t \in S : Amounts'[t] = cmd'[t].intent.amount
    BY <1>1, <1>5 DEF Amounts
  <2>3. \A t \in S : Amounts[t] \in Int /\ Amounts[t] = Amounts'[t]
    BY <1>1, <1>5, <2>1, <2>2
  <2> QED
    BY <2>1, <2>3, SumSame
<1>6. Conservation'
  <2>1. WalletTotal' = WalletTotal
    BY DEF WalletTotal, Holdings
  <2>2. InTransit' = InTransit
    BY <1>3, <1>5, MoneySets DEF InTransit
  <2> QED
    BY <2>1, <2>2 DEF MoneyOK, Conservation
<1>7. HoldsAccounted'
  <2>1. \A a \in Accounts : SumFunctionOnSet(Amounts', Reserving(a)')
                             = SumFunctionOnSet(Amounts, Reserving(a))
    BY <1>4, <1>5, MoneySets
  <2> QED
    BY <2>1 DEF MoneyOK, HoldsAccounted
<1> QED
  BY SMTT(60), <1>6, <1>7 DEF MoneyOK

\* Either a request executes, or the shards stay as they are and accepted
\* commands keep what they decided.
LEMMA StepKinds ==
  ASSUME IInv, Next
  PROVE  \/ cmd' = cmd /\ \E m \in net : Execute(m)
         \/ /\ shard' = shard
            /\ \A t \in Txns : cmd[t] # NoCommand => Kept(cmd, cmd', t)
<1>1. CASE Reply \/ \E m \in net : DeliverLate(m)
  BY <1>1 DEF Reply, DeliverLate, jvars
<1>2. CASE shard' = shard
  <2> SUFFICES ASSUME NEW t \in Txns, cmd[t] # NoCommand PROVE Kept(cmd, cmd', t)
    BY <1>2
  <2>1. CASE cmd' = cmd
    BY <2>1 DEF Kept
  <2>2. CASE cmd' = SyncedCmd
    BY <2>2, ProjectKeeps DEF IInv, SyncedCmd
  <2>3. CASE \E e \in JournalEvents : /\ PendingOK(SyncedCmd, e)
                                      /\ AppendCommitted(e) \/ AppendUnresolved(e)
    BY <2>3, AppendKeeps DEF IInv
  <2> QED
    BY <2>1, <2>2, <2>3, JournalSteps
<1> QED
  BY <1>1, <1>2 DEF Next, WorkerStep, Create, Sync, Cancel, Retry, BackoffExpires,
     StepBegin, ReadLeft, ReadRight, ActSend, RejectPrepare, RejectUnrecorded,
     Rejected, ActAppend, ActAppendFails, StepFails, StepEnd, Lose, FenceShard, Restart

\* The opening balances are the supply and nothing is held.
LEMMA InitMoney ==
  ASSUME Init
  PROVE  MoneyOK
<1>1. IInv /\ ShardType
  BY InitOK DEF IInv, TypeOK, ShardType
<1>2. \A a \in Accounts : Account(a) = [available |-> Opening[a], held |-> 0]
  BY WalletAssumption DEF Init, Genesis, Account, AccountsOf
<1>3. Departed = {} /\ \A a \in Accounts : Reserving(a) = {}
  BY DEF Init, Departed, Reserving, Cross
<1>4. WalletTotal = Supply
  <2>1. \A a \in Accounts : Holdings[a] = Account(a).available + Account(a).held
    BY DEF Holdings, Account
  <2>2. \A a \in Accounts : Opening[a] \in Int /\ Opening[a] = Holdings[a]
    BY <1>2, <2>1, WalletAssumption
  <2> QED
    BY <2>2, SumSame, FiniteAssumption DEF WalletTotal, Supply
<1>5. Supply \in Int
  <2>1. \A a \in Accounts : Opening[a] \in Int
    BY WalletAssumption
  <2> QED
    BY <2>1, SumType, FiniteAssumption DEF Supply
<1>6. Conservation
  BY <1>3, <1>4, <1>5, SumEmpty DEF Conservation, InTransit
<1>7. HoldsAccounted
  <2>1. \A a \in Accounts : /\ Account(a).available >= 0 /\ Account(a).held = 0
                            /\ SumFunctionOnSet(Amounts, Reserving(a)) = 0
    BY <1>2, <1>3, SumEmpty, WalletAssumption
  <2> QED
    BY <2>1 DEF HoldsAccounted, Account
<1> QED
  BY <1>6, <1>7 DEF MoneyOK

\* Every step of the wallet keeps both identities of money.
LEMMA NextMoney ==
  ASSUME IInv, MoneyOK, Next
  PROVE  MoneyOK'
<1>1. ShardType /\ Good(cmd, pending)
  BY DEF IInv, TypeOK, ShardType
<1>2. Good(cmd, pending)'
  BY NextOK DEF IInv
<1>3. CASE cmd' = cmd /\ \E m \in net : Execute(m)
  BY <1>1, <1>3, ExecuteMoney
<1>4. CASE /\ shard' = shard
           /\ \A t \in Txns : cmd[t] # NoCommand => Kept(cmd, cmd', t)
  BY <1>1, <1>2, <1>4, JournalMoney
<1> QED
  BY <1>3, <1>4, StepKinds

\* An unfenced request under way is never refused: what a shard recorded agrees
\* with it, and what it releases is held.
LEMMA NeverRefused ==
  ASSUME IInv, MoneyOK
  PROVE  NoParticipantConflict
<1> SUFFICES ASSUME NEW m \in net, ~Fenced(m) PROVE ~Refuses(ToShard(m), shard[ToShard(m)], m)
  BY DEF NoParticipantConflict, Refused
<1> DEFINE s == ToShard(m)
           t == m.txn
           i == m.intent
           old == shard[s].parts[t]
<1>1. /\ ShardType /\ Good(cmd, pending) /\ MessageOK(cmd, m) /\ m \in Message
      /\ s \in Shards /\ t \in Txns /\ i \in Intents /\ m.kind \in Kinds /\ m.role \in Roles
  BY Routing DEF IInv, TypeOK, ShardType, Good, NetOK, MessageOK
<1>2. ~WrongShard(s, m)
  BY <1>1 DEF WrongShard, ToShard, MessageOK, IsLocal, RoleAccount
<1>3. /\ old \in Part \cup {NoPart}
      /\ old.status \in {"PREPARED", "REJECTED", "CANCELED", "CONFIRMED", "ABSENT"}
      /\ old = NoPart <=> old.status = "ABSENT"
  <2>1. old \in Part \cup {NoPart}
    BY <1>1 DEF ShardType
  <2> QED
    BY <2>1 DEF Part, NoPart, Statuses
<1>4. old # NoPart => old.intent = i /\ old.role = m.role
  <2> SUFFICES ASSUME old # NoPart PROVE old.intent = i /\ old.role = m.role
    OBVIOUS
  <2>1. /\ old.intent = i /\ (old.role = "local" <=> IsLocal(i))
        /\ ShardFor[RoleAccount(i, old.role)] = s
    BY <1>1 DEF Good, PartsOK, MessageOK
  <2>2. old.role \in Roles
    BY <1>3 DEF Part
  <2> QED
    BY <1>1, <2>1, <2>2 DEF Roles, MessageOK, RoleAccount, ToShard, IsLocal
<1>5. /\ m.kind = "confirm" => old.status \in {"PREPARED", "CONFIRMED"}
      /\ m.kind = "cancel" => old.status # "CONFIRMED"
  <2>1. CASE m.role = "local"
    BY <1>1, <2>1 DEF MessageOK
  <2>2. CASE m.role # "local"
    <3>1. CommandOK(cmd, t) /\ CrossIn(cmd, t)
      BY <1>1, <2>2 DEF Good, StatusOK, MessageOK, CrossIn
    <3>2. old.status = IF m.role = "source" THEN Src(cmd, t) ELSE Dst(cmd, t)
      BY <1>1, <2>2 DEF Src, Dst, MessageOK, ToShard, RoleAccount, Roles
    <3> QED
      BY <1>1, <3>1, <3>2 DEF CommandOK, MessageOK
  <2> QED
    BY <2>1, <2>2
<1>6. ~Conflicts(old, m)
  BY <1>3, <1>4, <1>5 DEF Conflicts
<1>7. ASSUME ~Replays(old, m) PROVE ~ReduceRaises(shard[s], m)
  <2> DEFINE next == ReduceEvent(shard[s], m)
  <2>1. /\ m.kind \in {"local", "prepare"} => old = NoPart
        /\ m.kind = "confirm" => old.status = "PREPARED"
        /\ m.kind = "cancel" => old.status \notin {"CONFIRMED", "CANCELED"}
    BY <1>3, <1>5, <1>7 DEF Replays
  <2>2. ASSUME NEW a \in DOMAIN next.accounts
        PROVE  ~(next.accounts[a].available < 0) /\ ~(next.accounts[a].held < 0)
    <3> DEFINE accounts == shard[s].accounts
               n == i.amount
    <3>1. accounts \in [AccountsOf(s) -> Balance]
      BY <1>1 DEF ShardType
    <3>2. next.accounts = [x \in AccountsOf(s) |->
             [available |-> accounts[x].available + AvailableDelta(accounts, old.status, m, x),
              held |-> accounts[x].held + HeldDelta(accounts, old.status, m, x)]]
      BY <3>1 DEF ReduceEvent
    <3>3. a \in AccountsOf(s) /\ a \in Accounts /\ ShardFor[a] = s
      BY <3>2 DEF AccountsOf
    <3>4. /\ accounts[a].available \in Int /\ accounts[a].available >= 0
          /\ accounts[a].held \in Int
          /\ accounts[a].held = SumFunctionOnSet(Amounts, Reserving(a))
      BY <1>1, <3>3, AccountType DEF MoneyOK, HoldsAccounted, Account
    <3>5. n \in Nat /\ i = cmd[t].intent /\ cmd[t] # NoCommand
      BY <1>1, WalletAssumption DEF MessageOK
    <3>6. next.accounts[a].available \in Int /\ next.accounts[a].available >= 0
      <4>1. \/ AvailableDelta(accounts, old.status, m, a) \in {0, n}
            \/ /\ AvailableDelta(accounts, old.status, m, a) = -n
               /\ Funded(accounts, m) /\ a = i.from /\ m.role # "destination"
        BY <1>1, <3>5 DEF AvailableDelta, MessageOK
      <4>2. Funded(accounts, m) /\ a = i.from /\ m.role # "destination" =>
              accounts[a].available >= n
        BY DEF Funded, RoleAccount
      <4> QED
        BY <3>2, <3>3, <3>4, <3>5, <4>1, <4>2
    <3>7. next.accounts[a].held \in Int /\ next.accounts[a].held >= 0
      <4>1. SumFunctionOnSet(Amounts, Reserving(a)) \in Nat
        BY <1>1, <3>3, MoneySets, AmountFacts
      <4>2. CASE HeldDelta(accounts, old.status, m, a) \in {0, n}
        BY <3>2, <3>3, <3>4, <3>5, <4>1, <4>2
      <4>3. CASE /\ HeldDelta(accounts, old.status, m, a) = -n
                 /\ m.role = "source" /\ a = i.from /\ old.status = "PREPARED"
        <5>1. Cross(t) /\ SourceStatus(t) = "PREPARED"
          BY <1>1, <3>5, <4>3 DEF Cross, MessageOK, SourceStatus, ToShard, RoleAccount
        <5>2. t \in Reserving(a)
          BY <1>1, <3>5, <4>3, <5>1 DEF Reserving
        <5>3. Amounts[t] = n /\ SumFunctionOnSet(Amounts, Reserving(a)) >= Amounts[t]
          BY <1>1, <3>3, <3>5, <5>2, MoneySets, AmountFacts
        <5>4. next.accounts[a].held = accounts[a].held + (-n)
          BY <3>2, <3>3, <4>3
        <5> QED
          BY SMTT(60), <3>4, <3>5, <5>3, <5>4
      <4>4. m.kind = "confirm" => old.status = "PREPARED"
        BY <2>1
      <4>5. \/ HeldDelta(accounts, old.status, m, a) \in {0, n}
            \/ /\ HeldDelta(accounts, old.status, m, a) = -n
               /\ m.role = "source" /\ a = i.from /\ old.status = "PREPARED"
        BY <4>4 DEF HeldDelta
      <4> QED
        BY <4>2, <4>3, <4>5
    <3> QED
      BY <3>6, <3>7
  <2> QED
    BY <1>1, <1>4, <2>1, <2>2 DEF ReduceRaises, MessageOK
<1> QED
  BY <1>2, <1>6, <1>7 DEF Refuses

\* A stuttering step keeps both identities.
LEMMA StutterMoney ==
  ASSUME IInv, MoneyOK, UNCHANGED vars
  PROVE  MoneyOK'
<1>1. shard' = shard /\ cmd' = cmd
  BY DEF vars
<1>2. ShardType /\ Good(cmd, pending) /\ Good(cmd, pending)'
  BY NextOK DEF IInv, TypeOK, ShardType
<1>3. \A t \in Txns : cmd[t] # NoCommand => Kept(cmd, cmd', t)
  BY <1>1 DEF Kept
<1> QED
  BY <1>1, <1>2, <1>3, JournalMoney

\* Both invariants together.
THEOREM MoneyInvariant == Spec => [](IInv /\ MoneyOK)
<1>1. Init => IInv /\ MoneyOK
  BY InitOK, InitMoney
<1>2. IInv /\ MoneyOK /\ [Next]_vars => (IInv /\ MoneyOK)'
  BY NextOK, NextMoney, StutterMoney
<1> QED
  BY <1>1, <1>2, PTL DEF Spec

\* Money is neither created nor destroyed and no hold leaks, with any number of
\* accounts, shards and transfers and any failures.
THEOREM MoneyConserved == Spec => [](TypeOK /\ Conservation /\ HoldsAccounted)
<1>1. IInv /\ MoneyOK => TypeOK /\ Conservation /\ HoldsAccounted
  BY DEF IInv, MoneyOK
<1> QED
  BY <1>1, MoneyInvariant, PTL

\* No component of the wallet meets a state that its code treats as an internal
\* error: no shard refuses a request of its epoch, the journal can always be
\* replayed, and no step finds a confirmation without a decision.
THEOREM InternallySound == Spec => []NoInternalError
<1>1. IInv /\ MoneyOK => NoParticipantConflict
  BY NeverRefused
<1> QED
  BY <1>1, MoneyInvariant, Replayability, NoOrphanConfirmation, PTL DEF NoInternalError

=============================================================================
