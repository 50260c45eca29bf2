---------------------------- MODULE KVMembership ----------------------------
(***************************************************************************)
(* Membership of the key-value store: the gossip of heartbeats and its     *)
(* failure detection (cluster/gossip.py), the ring that follows it         *)
(* (membership.py, node.py), contact with the seeds, starts, stops and     *)
(* crashes of nodes, and the in-memory hints for absent nodes              *)
(* (hinted_handoff.py).                                                    *)
(*                                                                         *)
(* An entry of a table is [beat, address, status, updated].  An address is *)
(* the number of the start that bound it.  A node has two tasks that call  *)
(* other nodes: its gossip round and its seed loop.                        *)
(***************************************************************************)
EXTENDS Integers, Sequences, FiniteSets, SequencesExt, FiniteSetsExt

CONSTANTS Nodes,
          Seeds,             \* node -> the nodes its seed_nodes name
          Fixed,             \* nodes whose configured port keeps their address
          Fanout, Timeout,   \* gossip_fanout, failure_timeout
          Keeper, Deliverers, Loop,  \* the node with hints, tasks that deliver them
          MaxBeat, MaxCalls, MaxTime, MaxStarts, MaxFaults, MaxHints

VARIABLES state,     \* node -> "down", "up" or "stopped"
          address,   \* node -> its address
          table, ring,       \* node -> _members; nodes on its hash ring
          round,     \* node -> [left, listed]: peers of the round, members it sends
          rpc,       \* <<node, task>> -> {} or the exchange under way
          now,
          hints,     \* target -> hints kept for it
          delivery,  \* deliverer -> {} or the batch under way
          received,  \* target -> hints it applied
          starts, calls, faults,
          peak,      \* history: node -> highest heartbeat before its last start
          met,       \* history: pair -> exchanges one after the other since the last
                     \* start of either
          stored     \* history: hints stored so far

Tasks == {"round", "seed"}
cluster == <<state, address, table, ring, round, rpc, starts, calls, peak, met>>
handoff == <<hints, delivery, received, stored>>
vars == <<cluster, handoff, now, faults>>

Assumption ==
    /\ \A n \in Nodes : Seeds[n] \subseteq Nodes /\ Seeds[n] \subseteq Fixed
    /\ Fanout > 0 /\ Timeout > 0

NoRound == [left |-> {}, listed |-> {}]
Entry(beat, a, t) == [beat |-> beat, address |-> a, status |-> "alive", updated |-> t]
Pair(n, p) == {n, p}
Pairs == {Pair(n, p) : n \in Nodes, p \in Nodes}

Init ==
    /\ state = [n \in Nodes |-> "down"] /\ address = [n \in Nodes |-> 0]
    /\ table = [n \in Nodes |-> <<>>] /\ ring = [n \in Nodes |-> {}]
    /\ round = [n \in Nodes |-> NoRound] /\ rpc = [s \in Nodes \X Tasks |-> {}]
    /\ now = 0 /\ starts = 0 /\ calls = 0 /\ faults = 0
    /\ peak = [n \in Nodes |-> -1] /\ met = [x \in Pairs |-> 0]
    /\ hints = [n \in Nodes |-> <<>>] /\ delivery = [d \in Deliverers |-> {}]
    /\ received = [n \in Nodes |-> <<>>] /\ stored = 0

-----------------------------------------------------------------------------
(* Tables: merge_membership and _check_timeouts. *)

Refutes(own, remote) == remote >= own

Merged(n, rows) ==
    LET t == table[n]
        Known(m) == m \in DOMAIN t
        Told(m) == m \in DOMAIN rows
        Own == IF Told(n) /\ Refutes(t[n].beat, rows[n].beat)
               THEN [t[n] EXCEPT !.beat = rows[n].beat + 1] ELSE t[n]
    IN  [m \in DOMAIN t \cup DOMAIN rows |->
           IF m = n THEN Own
           ELSE IF Told(m) /\ (Known(m) => rows[m].beat > t[m].beat)
           THEN Entry(rows[m].beat, rows[m].address, now)
           ELSE t[m]]

Aged(n) == [m \in DOMAIN table[n] |->
    LET e == table[n][m]
        elapsed == now - e.updated
    IN  IF m # n /\ e.status = "alive" /\ elapsed > Timeout
        THEN [e EXCEPT !.status = "suspected"]
        ELSE IF m # n /\ e.status = "suspected" /\ elapsed > 2 * Timeout
        THEN [e EXCEPT !.status = "down"]
        ELSE e]

\* A merge is followed by _sync_membership: members join the ring, none leaves it.
Merge(n, rows) ==
    /\ table' = [table EXCEPT ![n] = Merged(n, rows)]
    /\ ring' = [ring EXCEPT ![n] = @ \cup DOMAIN Merged(n, rows)]

Rows(n, listed) ==
    [m \in listed |-> [beat |-> table[n][m].beat, address |-> table[n][m].address]]

-----------------------------------------------------------------------------
(* Gossip rounds, contact with the seeds, and the exchange they share. *)

Candidates(n) == {m \in DOMAIN table[n] \ {n} : table[n][m].status # "down"}

\* The start of a round; with no peer it goes on to the timeouts at once.
Beat(n, peers) ==
    /\ state[n] = "up" /\ round[n] = NoRound /\ table[n][n].beat < MaxBeat
    /\ peers \subseteq Candidates(n)
    /\ Cardinality(peers) = Min({Fanout, Cardinality(Candidates(n))})
    /\ LET own == Entry(table[n][n].beat + 1, table[n][n].address, now)
       IN  table' = [table EXCEPT ![n] = IF peers = {} THEN [Aged(n) EXCEPT ![n] = own]
                                         ELSE [@ EXCEPT ![n] = own]]
    /\ round' = [round EXCEPT ![n] = IF peers = {} THEN NoRound
                                     ELSE [left |-> peers, listed |-> DOMAIN table[n]]]
    /\ UNCHANGED <<state, address, ring, rpc, starts, calls, peak, met, handoff, now, faults>>

\* Exchanges of two nodes that began before the last start of one of them.
Between(n, p) == {c \in rpc[n, "round"] \cup rpc[n, "seed"] : c.to = p}
Stale(n, p) == \E c \in Between(n, p) \cup Between(p, n) : c.after = -1

Call(n, task, p, a, listed) ==
    /\ calls < MaxCalls /\ calls' = calls + 1
    /\ rpc' = [rpc EXCEPT ![n, task] =
                 {[to |-> p, address |-> a, rows |-> Rows(n, listed), answered |-> FALSE,
                   after |-> IF Stale(n, p) THEN -1 ELSE met[Pair(n, p)]]}]

\* The round calls its next peer at the address the table holds.
GossipTo(n, p) ==
    /\ state[n] = "up" /\ p \in round[n].left /\ rpc[n, "round"] = {}
    /\ Call(n, "round", p, table[n][p].address, round[n].listed)
    /\ round' = [round EXCEPT ![n].left = @ \ {p}]
    /\ UNCHANGED <<state, address, table, ring, starts, peak, met, handoff, now, faults>>

\* The round has called its peers: _check_timeouts.
CheckTimeouts(n) ==
    /\ state[n] = "up" /\ round[n] # NoRound /\ round[n].left = {} /\ rpc[n, "round"] = {}
    /\ table' = [table EXCEPT ![n] = Aged(n)]
    /\ round' = [round EXCEPT ![n] = NoRound]
    /\ UNCHANGED <<state, address, ring, rpc, starts, calls, peak, met, handoff, now, faults>>

\* A seed is called at its configured address, whatever the table says of it.
ContactSeed(n, p) ==
    /\ state[n] = "up" /\ rpc[n, "seed"] = {} /\ p \in Seeds[n] \ {n}
    /\ Call(n, "seed", p, 1, DOMAIN table[n])
    /\ UNCHANGED <<state, address, table, ring, round, starts, peak, met, handoff, now, faults>>

\* The server merges what it is sent and answers with its table.
GossipExchange(n, task) == \E c \in rpc[n, task] :
    /\ ~c.answered /\ state[c.to] = "up" /\ address[c.to] = c.address
    /\ Merge(c.to, c.rows)
    /\ rpc' = [rpc EXCEPT ![n, task] =
                 {[c EXCEPT !.answered = TRUE,
                            !.rows = [m \in DOMAIN Merged(c.to, c.rows) |->
                                        [beat |-> Merged(c.to, c.rows)[m].beat,
                                         address |-> Merged(c.to, c.rows)[m].address]]]}]
    /\ UNCHANGED <<state, address, round, starts, calls, peak, met, handoff, now, faults>>

\* The caller merges the answer.
ExchangeGossip(n, task) == \E c \in rpc[n, task] :
    /\ c.answered
    /\ Merge(n, c.rows)
    /\ rpc' = [rpc EXCEPT ![n, task] = {}]
    /\ met' = [met EXCEPT ![Pair(n, c.to)] = Min({Max({@, c.after + 1}), 2})]
    /\ UNCHANGED <<state, address, round, starts, calls, peak, handoff, now, faults>>

\* The call fails: nobody at that address, or the request or the answer is lost.
CallFails(n, task) == \E c \in rpc[n, task] :
    /\ \/ (state[c.to] # "up" \/ address[c.to] # c.address) /\ ~c.answered /\ UNCHANGED faults
       \/ faults < MaxFaults /\ faults' = faults + 1
    /\ rpc' = [rpc EXCEPT ![n, task] = {}]
    /\ UNCHANGED <<state, address, table, ring, round, starts, calls, peak, met, handoff, now>>

-----------------------------------------------------------------------------
(* Nodes. *)

\* The exchanges of a node end with it; calls to it are left to fail.
Closed(n) == /\ round' = [round EXCEPT ![n] = NoRound]
             /\ rpc' = [s \in Nodes \X Tasks |-> IF s[1] = n THEN {} ELSE rpc[s]]

Forget(n) ==
    /\ met' = [x \in Pairs |-> IF n \in x THEN 0 ELSE met[x]]
    /\ rpc' = [s \in Nodes \X Tasks |-> {[c EXCEPT !.after = IF c.to = n THEN -1 ELSE @] : c \in rpc[s]}]

\* The ring follows join_cluster and leave_cluster.
JoinCluster(n, nodes) == nodes \cup {n}
LeaveCluster(n, nodes) == nodes \ {n}

\* A new process starts with an empty table, a stopped node with the one it had.
Start(n) ==
    /\ state[n] \in {"down", "stopped"} /\ starts < MaxStarts
    /\ starts' = starts + 1
    /\ state' = [state EXCEPT ![n] = "up"]
    /\ LET a == IF n \in Fixed THEN 1 ELSE address[n] + 1
       IN  /\ address' = [address EXCEPT ![n] = a]
           /\ table' = [table EXCEPT ![n] =
                          IF state[n] = "down" THEN [m \in {n} |-> Entry(0, a, now)]
                          ELSE [@ EXCEPT ![n].address = a]]
    /\ ring' = [ring EXCEPT ![n] = JoinCluster(n, IF state[n] = "down" THEN {} ELSE @)]
    /\ Forget(n)
    /\ UNCHANGED <<round, calls, peak, handoff, now, faults>>

\* The highest heartbeat that anybody may remember of n's life so far.
Peak(n) == [peak EXCEPT ![n] = Max({@, table[n][n].beat})]

Stop(n) ==
    /\ state[n] = "up" /\ starts < MaxStarts
    /\ state' = [state EXCEPT ![n] = "stopped"]
    /\ ring' = [ring EXCEPT ![n] = LeaveCluster(n, @)]
    /\ peak' = Peak(n) /\ Closed(n)
    /\ UNCHANGED <<address, table, starts, calls, met, handoff, now, faults>>

Crash(n) ==
    /\ state[n] = "up" /\ starts < MaxStarts
    /\ state' = [state EXCEPT ![n] = "down"]
    /\ table' = [table EXCEPT ![n] = <<>>] /\ ring' = [ring EXCEPT ![n] = {}]
    /\ peak' = Peak(n) /\ Closed(n)
    /\ UNCHANGED <<address, starts, calls, met, handoff, now, faults>>

Tick == now < MaxTime /\ now' = now + 1 /\ UNCHANGED <<cluster, handoff, faults>>

-----------------------------------------------------------------------------
(* Hints: HintedHandoffManager of the keeper. *)

StoreHint(t) ==
    /\ t # Keeper /\ stored < MaxHints
    /\ stored' = stored + 1
    /\ hints' = [hints EXCEPT ![t] = Append(@, stored + 1)]
    /\ UNCHANGED <<cluster, delivery, received, now, faults>>

IsNodeAlive(t) == t \in DOMAIN table[Keeper] /\ table[Keeper][t].status = "alive"

\* deliver_hints holds the lock of the target; the loop asks whether it is alive.
DeliverHints(d, t) ==
    /\ state[Keeper] = "up" /\ delivery[d] = {} /\ hints[t] # <<>>
    /\ d = Loop => IsNodeAlive(t)
    /\ \A e \in Deliverers : \A b \in delivery[e] : b.target # t
    /\ delivery' = [delivery EXCEPT ![d] = {[target |-> t, batch |-> hints[t], applied |-> FALSE]}]
    /\ UNCHANGED <<cluster, hints, received, stored, now, faults>>

\* External: deliver_func hands the batch to the target.
Apply(d) == \E b \in delivery[d] :
    /\ ~b.applied /\ state[b.target] = "up"
    /\ received' = [received EXCEPT ![b.target] = @ \o b.batch]
    /\ delivery' = [delivery EXCEPT ![d] = {[b EXCEPT !.applied = TRUE]}]
    /\ UNCHANGED <<cluster, hints, stored, now, faults>>

\* The acknowledged prefix leaves the queue.
Delivered(d) == \E b \in delivery[d] :
    /\ b.applied
    /\ hints' = [hints EXCEPT ![b.target] = SubSeq(@, Len(b.batch) + 1, Len(@))]
    /\ delivery' = [delivery EXCEPT ![d] = {}]
    /\ UNCHANGED <<cluster, received, stored, now, faults>>

DeliveryFails(d) == \E b \in delivery[d] :
    /\ faults < MaxFaults /\ faults' = faults + 1
    /\ delivery' = [delivery EXCEPT ![d] = {}]
    /\ UNCHANGED <<cluster, hints, received, stored, now>>

Next ==
    \/ \E n \in Nodes :
         \/ Start(n) \/ Stop(n) \/ Crash(n) \/ CheckTimeouts(n) \/ StoreHint(n)
         \/ state[n] = "up" /\ \E peers \in SUBSET Candidates(n) : Beat(n, peers)
         \/ \E p \in Nodes : GossipTo(n, p) \/ ContactSeed(n, p)
         \/ \E k \in Tasks : GossipExchange(n, k) \/ ExchangeGossip(n, k) \/ CallFails(n, k)
    \/ \E d \in Deliverers : \/ \E t \in Nodes : DeliverHints(d, t)
                             \/ Apply(d) \/ Delivered(d) \/ DeliveryFails(d)
    \/ Tick

Spec == Init /\ [][Next]_vars

-----------------------------------------------------------------------------

TypeOK ==
    /\ \A n \in Nodes : /\ state[n] \in {"down", "up", "stopped"}
                        /\ state[n] # "down" => n \in DOMAIN table[n]
                        /\ \A m \in DOMAIN table[n] : table[n][m].status \in {"alive", "suspected", "down"}
    /\ \A s \in Nodes \X Tasks : Cardinality(rpc[s]) <= 1

Up(n) == state[n] = "up"

\* What a table says of a node with a heartbeat that no earlier life of the node
\* reached has the address of its present life (merge_membership, advertise).
NewBeatsNameNewAddress == \A n, p \in Nodes :
    (Up(p) /\ n \in DOMAIN table[p] /\ table[p][n].beat > peak[n]) => table[p][n].address = address[n]

\* Two nodes that exchanged twice, one exchange after the other, since the last start of either know each other's
\* address, whatever heartbeat was remembered of an earlier life.
RestartsRefuted == Cardinality(Nodes) = 2 => \A n, p \in Nodes :
    (Up(n) /\ Up(p) /\ n # p /\ met[Pair(n, p)] >= 2) =>
       n \in DOMAIN table[p] /\ table[p][n].address = address[n]

\* A running node has every member it knows on its ring, also the suspected and the
\* dead ones, and itself (_sync_membership).
RingKeepsMembers == \A n \in Nodes : Up(n) => ring[n] = DOMAIN table[n]

\* Nobody is suspected before the timeout or down before twice the timeout passed
\* without a newer heartbeat, and a node never suspects itself (_check_timeouts).
SuspicionIsLate == \A n \in Nodes : \A m \in DOMAIN table[n] :
    LET e == table[n][m]
    IN  /\ e.status = "suspected" => now - e.updated > Timeout
        /\ e.status = "down" => now - e.updated > 2 * Timeout
        /\ m = n => e.status = "alive"

\* A hint is kept until its target applied it, and waiting hints stay in order,
\* also those stored while a batch is delivered (deliver_hints).
HintsKept ==
    /\ \A i \in 1..stored : \E t \in Nodes : i \in ToSet(hints[t]) \cup ToSet(received[t])
    /\ \A t \in Nodes : \A i, j \in DOMAIN hints[t] : i < j => hints[t][i] < hints[t][j]
    /\ \A d \in Deliverers : \A b \in delivery[d] : IsPrefix(b.batch, hints[b.target])

MembershipSound ==
    TypeOK /\ NewBeatsNameNewAddress /\ RestartsRefuted /\ RingKeepsMembers /\ SuspicionIsLate /\ HintsKept
=============================================================================
