----------------------------- MODULE Snowflake ------------------------------
(***************************************************************************)
(* The unique-id generator: Snowflake generators with their identity, bit  *)
(* layout and clock (snowflake.py, config.py, clock.py) and the parser of  *)
(* their ids (parser.py).  A thread that calls a generator keeps its lock  *)
(* until it returns, also while it waits for the next millisecond.  Times  *)
(* are whole milliseconds.  A generator lives as long as the behaviour:    *)
(* nothing of it is persisted, and README.md leaves restarts to the        *)
(* deployment.                                                             *)
(***************************************************************************)
EXTENDS Integers, Sequences, FiniteSets, SequencesExt

CONSTANTS Generators, Datacenter, Machine,  \* generators and their identities
          TimeBits, DatacenterBits, MachineBits, SequenceBits,
          Epoch,             \* epoch_ms
          Monotonic,         \* generators with a MonotonicClock
          Threads, Home,     \* callers and the generator each one calls
          Batches,           \* sizes of the batches asked for
          Patience,          \* overflow_timeout_seconds
          Start, Jumps,      \* wall clock: its start and the steps it may make
          MaxTime, MaxJumps, MaxCalls

VARIABLES wall, mono,        \* the clocks of the machine
          last, sequence,    \* generator -> _last_timestamp, _sequence
          call,      \* thread -> {} or the call that holds the lock
          made,      \* history: generator -> ids composed, in order
          given,     \* history: ids handed to callers
          failed,    \* history: thread -> {} or the error of its last call
          jumps, calls

clocks == <<wall, mono, jumps>>
vars == <<clocks, last, sequence, call, made, given, failed, calls>>

MachineShift == SequenceBits
DatacenterShift == MachineShift + MachineBits
TimeShift == DatacenterShift + DatacenterBits
MaxTimestamp == 2^TimeBits - 1

Assumption ==
    /\ TimeBits > 0 /\ DatacenterBits > 0 /\ MachineBits > 0 /\ SequenceBits > 0
    /\ Epoch > 0 /\ Patience >= 0
    /\ \A g \in Generators : Datacenter[g] \in 0..(2^DatacenterBits - 1)
                          /\ Machine[g] \in 0..(2^MachineBits - 1)
    /\ \A g, h \in Generators : g # h => Datacenter[g] # Datacenter[h] \/ Machine[g] # Machine[h]

Compose(g, offset, s) ==
    offset * 2^TimeShift + Datacenter[g] * 2^DatacenterShift + Machine[g] * 2^MachineShift + s

Parse(id) ==
    [sequence |-> id % 2^SequenceBits,
     machine |-> (id \div 2^MachineShift) % 2^MachineBits,
     datacenter |-> (id \div 2^DatacenterShift) % 2^DatacenterBits,
     time |-> ((id \div 2^TimeShift) % 2^TimeBits) + Epoch]

\* A monotonic clock is anchored to the system time at its creation (time 0).
Reading(g) == IF g \in Monotonic THEN Start + mono ELSE wall

Init ==
    /\ wall = Start /\ mono = 0 /\ jumps = 0 /\ calls = 0
    /\ last = [g \in Generators |-> -1] /\ sequence = [g \in Generators |-> 0]
    /\ call = [t \in Threads |-> {}] /\ failed = [t \in Threads |-> {}]
    /\ made = [g \in Generators |-> <<>>] /\ given = {}

-----------------------------------------------------------------------------
(* Generation. *)

Locked(g) == \E t \in Threads : Home[t] = g /\ call[t] # {}

\* generate and generate_batch enter the lock.
Generate(t, n) ==
    /\ call[t] = {} /\ ~Locked(Home[t]) /\ calls < MaxCalls
    /\ calls' = calls + 1
    /\ call' = [call EXCEPT ![t] = {[left |-> n, ids |-> <<>>, deadline |-> {}]}]
    /\ failed' = [failed EXCEPT ![t] = {}]
    /\ UNCHANGED <<clocks, last, sequence, made, given>>

\* An exception leaves the lock: the ids of the batch so far are not returned.
Raise(t, kind) ==
    /\ call' = [call EXCEPT ![t] = {}]
    /\ failed' = [failed EXCEPT ![t] = {[kind |-> kind, last |-> last[Home[t]]]}]
    /\ UNCHANGED <<clocks, last, sequence, made, given, calls>>

InLayout(offset) == 0 <= offset /\ offset <= MaxTimestamp

Publish(t, c, timestamp, s) ==
    LET g == Home[t]
        id == Compose(g, timestamp - Epoch, s)
        ids == Append(c.ids, id)
    IN  /\ last' = [last EXCEPT ![g] = timestamp]
        /\ sequence' = [sequence EXCEPT ![g] = s]
        /\ made' = [made EXCEPT ![g] = Append(@, id)]
        /\ IF c.left = 1
           THEN call' = [call EXCEPT ![t] = {}] /\ given' = given \cup {ids}
           ELSE /\ call' = [call EXCEPT ![t] = {[left |-> c.left - 1, ids |-> ids, deadline |-> {}]}]
                /\ UNCHANGED given
        /\ UNCHANGED <<clocks, failed, calls>>

Finish(t, c, timestamp, s) ==
    IF InLayout(timestamp - Epoch) THEN Publish(t, c, timestamp, s) ELSE Raise(t, "range")

\* The sequence number for this reading, and whether its millisecond is used up.
Following(g, timestamp) == IF timestamp = last[g] THEN (sequence[g] + 1) % 2^SequenceBits ELSE 0
Exhausted(g, timestamp) == timestamp = last[g] /\ Following(g, timestamp) = 0

GenerateLocked(t) == \E c \in call[t] :
    LET g == Home[t]
        timestamp == Reading(g)
    IN  /\ c.deadline = {}
        /\ IF timestamp < last[g] THEN Raise(t, "backwards")
           ELSE IF ~Exhausted(g, timestamp) THEN Finish(t, c, timestamp, Following(g, timestamp))
           ELSE /\ call' = [call EXCEPT ![t] = {[c EXCEPT !.deadline = {mono + Patience}]}]
                /\ UNCHANGED <<clocks, last, sequence, made, given, failed, calls>>

\* One turn of the loop that changes something.
WaitNextMillis(t) == \E c \in call[t] : \E d \in c.deadline :
    LET timestamp == Reading(Home[t])
    IN  \/ timestamp < last[Home[t]] /\ Raise(t, "backwards")
        \/ timestamp > last[Home[t]] /\ Finish(t, c, timestamp, 0)
        \/ timestamp = last[Home[t]] /\ mono >= d /\ Raise(t, "overflow")

-----------------------------------------------------------------------------
(* The clocks. *)

Tick == /\ mono < MaxTime
        /\ mono' = mono + 1 /\ wall' = wall + 1
        /\ UNCHANGED <<jumps, last, sequence, call, made, given, failed, calls>>

\* The wall clock is set.
Jump == /\ jumps < MaxJumps
        /\ \E d \in Jumps : wall + d >= 0 /\ wall' = wall + d
        /\ jumps' = jumps + 1
        /\ UNCHANGED <<mono, last, sequence, call, made, given, failed, calls>>

Next ==
    \/ \E t \in Threads : \/ \E n \in Batches : Generate(t, n)
                          \/ GenerateLocked(t) \/ WaitNextMillis(t)
    \/ Tick \/ Jump

Spec == Init /\ [][Next]_vars

-----------------------------------------------------------------------------

TypeOK ==
    /\ \A g \in Generators : last[g] >= -1 /\ sequence[g] \in 0..(2^SequenceBits - 1)
    /\ \A t \in Threads : Cardinality(call[t]) <= 1 /\ Cardinality(failed[t]) <= 1
    /\ \A g \in Generators : Cardinality({t \in Threads : Home[t] = g /\ call[t] # {}}) <= 1

\* The ids of a generator increase whatever its clock does, those of distinct
\* identities differ, and no id is handed out twice (_generate_locked).
IdsUnique ==
    /\ \A g \in Generators : \A i, j \in DOMAIN made[g] : i < j => made[g][i] < made[g][j]
    /\ \A g, h \in Generators : g # h => ToSet(made[g]) \cap ToSet(made[h]) = {}
    /\ \A b, c \in given : b # c => ToSet(b) \cap ToSet(c) = {}
    /\ \A b \in given : \E g \in Generators : \E i \in 0..Len(made[g]) :
         i + Len(b) <= Len(made[g]) /\ b = SubSeq(made[g], i + 1, i + Len(b))

\* Parsing an id gives back the identity of its generator, and for the newest one
\* the state it was composed from; an id fits the layout (IDParser.parse).
IdsParse == \A g \in Generators :
    /\ \A id \in ToSet(made[g]) :
         /\ id >= 0 /\ id < 2^(TimeShift + TimeBits)
         /\ Parse(id).datacenter = Datacenter[g] /\ Parse(id).machine = Machine[g]
    /\ made[g] # <<>> => Parse(Last(made[g])).time = last[g]
                      /\ Parse(Last(made[g])).sequence = sequence[g]

\* An overflow is reported only when every id of that millisecond was used
\* (_wait_next_millis, SequenceOverflowError).
OverflowIsReal == \A t \in Threads : \A f \in failed[t] :
    f.kind = "overflow" =>
      Cardinality({id \in ToSet(made[Home[t]]) : Parse(id).time = f.last}) = 2^SequenceBits

SnowflakeSound == TypeOK /\ IdsUnique /\ IdsParse /\ OverflowIsReal
=============================================================================
