------------------------------ MODULE HashRing ------------------------------
(***************************************************************************)
(* The consistent-hashing library: topology writers that build a new ring  *)
(* under a lock and publish it, readers that keep a snapshot (ring.py),    *)
(* and the migration plan between two snapshots (migration.py).            *)
(*                                                                         *)
(* An entry is <<position, node, index>>.  The position of a virtual node  *)
(* and of a key is their hash, external to the library.                    *)
(***************************************************************************)
EXTENDS Integers, Sequences, FiniteSets, SequencesExt, FiniteSetsExt

CONSTANTS Names,             \* node names, numbers in the order of the strings
          PositionOf,        \* external: node -> positions of its virtual nodes
          KeyPositions,      \* hashes that keys may have
          Capacity,          \* max_virtual_nodes
          Writers, Readers, MaxWrites, MaxReads

VARIABLES ring,      \* the published _RingState [entries, nodes]
          write,     \* writer -> {} or the change it makes under the lock
          view,      \* reader -> {} or the snapshot it retains
          weight,    \* history: node -> virtual nodes by the completed calls
          last,      \* history: {} or the last publication and the ring before it
          writes, reads

vars == <<ring, write, view, weight, last, writes, reads>>

Weights(n) == 1..Len(PositionOf[n])
Empty == [entries |-> <<>>, nodes |-> <<>>]

Assumption ==
    /\ Capacity > 0 /\ Names \subseteq Nat
    /\ \A n \in Names : Len(PositionOf[n]) > 0

Init ==
    /\ ring = Empty /\ writes = 0 /\ reads = 0 /\ last = {}
    /\ write = [w \in Writers |-> {}] /\ view = [r \in Readers |-> {}]
    /\ weight = [n \in Names |-> 0]

-----------------------------------------------------------------------------
(* Lookup on one topology. *)

\* Tuples in the order of Python.
Before(a, b) == \/ a[1] < b[1]
                \/ a[1] = b[1] /\ a[2] < b[2]
                \/ a[1] = b[1] /\ a[2] = b[2] /\ a[3] < b[3]
Sorted(entries) == SetToSortSeq(entries, Before)

\* bisect_right: the entries at or before a position.
BisectRight(positions, p) == Cardinality({i \in DOMAIN positions : positions[i] <= p})
Positions(s) == [i \in DOMAIN s.entries |-> s.entries[i][1]]
Clockwise(s, k) == s.entries[(k % Len(s.entries)) + 1][2]

\* get_node; {} for an empty ring.
Owner(s, p) ==
    IF s.entries = <<>> THEN {} ELSE {Clockwise(s, BisectRight(Positions(s), p))}

\* get_nodes: distinct owners in clockwise order.
GetNodes(s, p, count) ==
    LET start == BisectRight(Positions(s), p)
        walk == [k \in 1..Len(s.entries) |-> Clockwise(s, start + k - 1)]
        New(found, n) == IF Len(found) < count /\ n \notin ToSet(found) THEN Append(found, n) ELSE found
    IN  FoldLeft(New, <<>>, walk)

-----------------------------------------------------------------------------
(* The migration plan. *)

Boundaries(s, t) ==
    SetToSortSeq(ToSet(Positions(s)) \cup ToSet(Positions(t)), LAMBDA a, b : a < b)

AffectedRanges(s, t) ==
    LET b == Boundaries(s, t)
        Piece(i) == [start |-> b[i], end |-> b[(i % Len(b)) + 1],
                     from |-> Owner(s, b[i]), to |-> Owner(t, b[i])]
    IN  SelectSeq([i \in DOMAIN b |-> Piece(i)], LAMBDA r : r.from # r.to)

Covers(r, p) ==
    IF r.start < r.end THEN r.start <= p /\ p < r.end ELSE p >= r.start \/ p < r.end

\* ranges[bisect_right(starts, position) - 1], where index -1 is the last range.
RangeFor(ranges, p) ==
    LET k == BisectRight([i \in DOMAIN ranges |-> ranges[i].start], p)
    IN  ranges[IF k = 0 THEN Len(ranges) ELSE k]

\* iter_migrations, for one key at every position.
Migrations(s, t) ==
    LET ranges == AffectedRanges(s, t)
    IN  IF ranges = <<>> THEN {}
        ELSE {[key |-> p, from |-> RangeFor(ranges, p).from, to |-> RangeFor(ranges, p).to] :
                p \in {q \in KeyPositions : Covers(RangeFor(ranges, q), q)}}

-----------------------------------------------------------------------------
(* Writers. *)

EntriesOf(n, first, count) == {<<PositionOf[n][i + 1], n, i>> : i \in first..(count - 1)}
Count(s, n) == Cardinality({i \in DOMAIN s.entries : s.entries[i][2] = n})
On(n) == n \in ToSet(ring.nodes)

\* A call under the writer lock that passes its checks.
Hold(w, change) ==
    /\ \A x \in Writers : write[x] = {}
    /\ writes < MaxWrites /\ writes' = writes + 1
    /\ write' = [write EXCEPT ![w] = {change}]
    /\ UNCHANGED <<ring, view, weight, last, reads>>

AddNode(w, n, count) ==
    /\ ~On(n) /\ Len(ring.entries) + count <= Capacity
    /\ Hold(w, [op |-> "add", node |-> n, count |-> count,
                made |-> [entries |-> Sorted(ToSet(ring.entries) \cup EntriesOf(n, 0, count)),
                          nodes |-> Append(ring.nodes, n)]])

RemoveNode(w, n) ==
    /\ On(n)
    /\ Hold(w, [op |-> "remove", node |-> n, count |-> 0,
                made |-> [entries |-> SelectSeq(ring.entries, LAMBDA e : e[2] # n),
                          nodes |-> SelectSeq(ring.nodes, LAMBDA m : m # n)]])

SetVirtualNodes(w, n, count) ==
    LET old == Count(ring, n)
    IN  /\ On(n) /\ count # old /\ Len(ring.entries) - old + count <= Capacity
        /\ Hold(w, [op |-> "weigh", node |-> n, count |-> count,
                    made |-> [entries |-> IF count > old
                                          THEN Sorted(ToSet(ring.entries) \cup EntriesOf(n, old, count))
                                          ELSE SelectSeq(ring.entries, LAMBDA e : e[2] # n \/ e[3] < count),
                              nodes |-> ring.nodes]])

Publish(w) == \E c \in write[w] :
    /\ ring' = c.made
    /\ write' = [write EXCEPT ![w] = {}]
    /\ weight' = [weight EXCEPT ![c.node] = c.count]
    /\ last' = {[op |-> c.op, node |-> c.node, ring |-> ring]}
    /\ UNCHANGED <<view, writes, reads>>

\* A hash callback raises while the entries are built.
WriteFails(w) ==
    /\ write[w] # {}
    /\ write' = [write EXCEPT ![w] = {}]
    /\ UNCHANGED <<ring, view, weight, last, writes, reads>>

Snapshot(r) ==
    /\ reads < MaxReads /\ reads' = reads + 1
    /\ view' = [view EXCEPT ![r] = {ring}]
    /\ UNCHANGED <<ring, write, weight, last, writes>>

Next ==
    \/ \E w \in Writers :
         \/ \E n \in Names : \/ RemoveNode(w, n)
                             \/ \E c \in Weights(n) : AddNode(w, n, c) \/ SetVirtualNodes(w, n, c)
         \/ Publish(w) \/ WriteFails(w)
    \/ \E r \in Readers : Snapshot(r)

Spec == Init /\ [][Next]_vars

-----------------------------------------------------------------------------

TypeOK ==
    /\ Len(ring.entries) <= Capacity
    /\ \A w \in Writers : Cardinality(write[w]) <= 1
    /\ Cardinality({w \in Writers : write[w] # {}}) <= 1

\* The published ring is that of the completed calls, sorted, with no entry of
\* another node lost where positions collide (_publish).
RingIsWeights ==
    /\ ToSet(ring.nodes) = {n \in Names : weight[n] > 0}
    /\ ToSet(ring.entries) = UNION {EntriesOf(n, 0, weight[n]) : n \in Names}
    /\ \A i, j \in DOMAIN ring.entries : i < j => Before(ring.entries[i], ring.entries[j])

\* A change of one node moves keys only to it or from it.
OnlyItsKeysMove == \A c \in last : \A p \in KeyPositions :
    Owner(c.ring, p) # Owner(ring, p) =>
      /\ c.op = "add" => Owner(ring, p) = {c.node}
      /\ c.op = "remove" => Owner(c.ring, p) = {c.node}
      /\ {c.node} \in {Owner(c.ring, p), Owner(ring, p)}

\* The plan between a retained snapshot and the present ring, in both directions,
\* holds exactly the keys whose owner differs (affected_ranges, iter_migrations).
PlanExact == \A r \in Readers : \A s \in view[r] :
    /\ Migrations(s, ring) = {[key |-> p, from |-> Owner(s, p), to |-> Owner(ring, p)] :
                                p \in {q \in KeyPositions : Owner(s, q) # Owner(ring, q)}}
    /\ Migrations(ring, s) = {[key |-> m.key, from |-> m.to, to |-> m.from] : m \in Migrations(s, ring)}

\* A preference list names distinct nodes, the owner first, as many as there are.
ListsDistinct == \A p \in KeyPositions : \A count \in 1..Cardinality(Names) :
    LET list == GetNodes(ring, p, count)
    IN  /\ Cardinality(ToSet(list)) = Len(list)
        /\ Len(list) = Min({count, Len(ring.nodes)})
        /\ list # <<>> => {Head(list)} = Owner(ring, p)

RingSound == TypeOK /\ RingIsWeights /\ OnlyItsKeysMove /\ PlanExact /\ ListsDistinct
=============================================================================
