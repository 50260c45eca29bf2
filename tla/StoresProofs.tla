---------------------------- MODULE StoresProofs ----------------------------
(***************************************************************************)
(* Proofs about the stores that keep what was observed through faults: the *)
(* replicated stock exchange, the storage engine of a key-value node, and  *)
(* the replicas of a key with their quorums, hints and repair.             *)
(***************************************************************************)
EXTENDS StockReplication, KVStorage, KVReplication, SumTheorems, SequenceTheorems

-----------------------------------------------------------------------------
(***************************************************************************)
(* Failover of the stock exchange loses nothing that a client or the       *)
(* market has observed, for any number of engines, clients, commands,      *)
(* promotions and restarts.                                                *)
(*                                                                         *)
(* The argument: an answer in flight never exceeds what its engine has     *)
(* applied, and what an engine applied never exceeds the log.  A promotion *)
(* compares what it fetched from the candidate with the whole log, so the  *)
(* engine that becomes active covers every answer in flight, too.          *)
(***************************************************************************)

HasAnswer(r) == reader[r].phase \in {"check", "accept", "apply", "done"}

\* No engine is ahead of the log, and no fetched candidate ahead of its engine.
EnginesBehind == \A e \in Engines : applied[e] <= tail /\ candidate[e] <= applied[e]

\* An answer in flight is a prefix that its engine applied.
AnswersApplied == \A r \in Readers : HasAnswer(r) => reader[r].upto <= applied[reader[r].from]

\* A client that asks again asks an engine that has its last answer, and the
\* new answer covers that one.
ClientsForward ==
  \A c \in Clients : reader[c].phase # "idle" =>
    /\ reader[c].phase \notin {"apply", "done"}
    /\ seen[c] <= applied[reader[c].from]
    /\ HasAnswer(c) => seen[c] <= reader[c].upto

\* The feed that the market applies ends within the active engine's prefix.
FeedCovered ==
  reader["market"].phase = "apply" =>
    market.seq < reader["market"].upto /\ reader["market"].upto <= applied[control.active]

\* The deltas that the market keeps are the last ones, without a hole.
DeltasContiguous ==
  /\ changes \subseteq 1..market.seq
  /\ \A s \in changes : s..market.seq \subseteq changes
  /\ viewer.seq <= market.seq

Positions == EnginesBehind /\ AnswersApplied /\ ClientsForward /\ FeedCovered /\ ActiveCoversObserved
Contents  == DeltasContiguous /\ NoGaps
IInv      == TypeOK /\ Positions /\ Contents

-----------------------------------------------------------------------------

\* The initial state satisfies the invariant.
LEMMA InitIInv == Init => IInv
<1> SUFFICES ASSUME Init PROVE IInv
  OBVIOUS
<1>1. TypeOK
  BY ReplicationAssumption DEF Init, TypeOK, Readers, Idle
<1>2. Positions
  BY ReplicationAssumption DEF Init, Positions, EnginesBehind, AnswersApplied, HasAnswer, ClientsForward,
     FeedCovered, ActiveCoversObserved, Readers, Idle
<1>3. Contents
  BY DEF Init, Contents, DeltasContiguous, NoGaps
<1> QED
  BY <1>1, <1>2, <1>3 DEF IInv

\* The state of a reader, by its phase.
LEMMA ReaderFacts ==
  ASSUME TypeOK, NEW r \in Readers
  PROVE  /\ reader[r] \in {Idle} \cup Asking \cup Answered
         /\ reader[r].phase \in {"ask", "read"} => reader[r] \in Asking
         /\ HasAnswer(r) => reader[r] \in Answered
         /\ reader[r].phase \in {"ask", "read", "check", "accept", "apply", "done"} =>
              reader[r].from \in Engines /\ reader[r].epoch \in 1..MaxEpoch
         /\ HasAnswer(r) => reader[r].upto \in 1..MaxLog
         /\ DOMAIN reader = Readers
  BY DEF TypeOK, Idle, Asking, Answered, HasAnswer

\* Every step keeps the types.
LEMMA NextTypeOK == IInv /\ [Next]_vars => TypeOK'
<1> SUFFICES ASSUME IInv, [Next]_vars PROVE TypeOK'
  OBVIOUS
<1> USE ReplicationAssumption DEF IInv, TypeOK
<1>1. ASSUME Submit PROVE TypeOK'
  BY <1>1 DEF Submit
<1>2. ASSUME NEW e \in Engines, EngineApply(e) PROVE TypeOK'
  BY <1>2 DEF EngineApply, Positions, EnginesBehind
<1>3. ASSUME NEW e \in Engines, EngineStop(e) PROVE TypeOK'
  BY <1>3 DEF EngineStop
<1>4. ASSUME NEW e \in Engines, EngineRestart(e) PROVE TypeOK'
  BY <1>4 DEF EngineRestart
<1>5. ASSUME NEW e \in Engines, FetchCandidate(e) PROVE TypeOK'
  BY <1>5 DEF FetchCandidate
<1>6. ASSUME NEW e \in Engines, Promote(e) PROVE TypeOK'
  BY <1>6 DEF Promote
<1>7. ASSUME NEW r \in Readers, Begin(r) PROVE TypeOK'
  BY <1>7, ReaderFacts DEF Begin, Asking
<1>8. ASSUME NEW r \in Readers, Admit(r) PROVE TypeOK'
  BY <1>8, ReaderFacts DEF Admit, Asking
<1>9. ASSUME NEW r \in Readers, ReadEngine(r) PROVE TypeOK'
  <2>1. reader[r].from \in Engines /\ reader[r].epoch \in 1..MaxEpoch
    BY <1>9, ReaderFacts DEF ReadEngine
  <2>2. applied[reader[r].from] \in 1..MaxLog /\ Feeds(r, reader[r].from) \in BOOLEAN
    BY <1>9, <2>1 DEF ReadEngine, Feeds
  <2>3. [phase |-> "check", epoch |-> reader[r].epoch, from |-> reader[r].from,
         upto |-> applied[reader[r].from], feed |-> Feeds(r, reader[r].from)] \in Answered
    BY <2>1, <2>2 DEF Answered
  <2> QED
    BY <1>9, <2>3 DEF ReadEngine
<1>10. ASSUME NEW r \in Readers, Confirm(r) PROVE TypeOK'
  BY <1>10, ReaderFacts DEF Confirm, Answered, HasAnswer
<1>11. ASSUME NEW r \in Readers, GiveUp(r) PROVE TypeOK'
  BY <1>11, ReaderFacts DEF GiveUp, Idle
<1>12. ASSUME NEW c \in Clients, AnswerClient(c) PROVE TypeOK'
  BY <1>12, ReaderFacts DEF AnswerClient, Idle, HasAnswer, Readers
<1>13. ASSUME Replace PROVE TypeOK'
  <2> DEFINE m == reader["market"]
  <2>1. m \in Answered /\ m.epoch \in 1..MaxEpoch /\ m.upto \in 1..MaxLog
    BY <1>13, ReaderFacts DEF Replace, HasAnswer, Readers
  <2>2. market' = [epoch |-> m.epoch, seq |-> m.upto, has |-> 1..m.upto]
    BY <1>13 DEF Replace
  <2> HIDE DEF m
  <2>3. market' \in [epoch : 0..MaxEpoch, seq : 0..MaxLog, has : SUBSET (1..MaxLog)]
    <3>1. m.epoch \in 0..MaxEpoch /\ m.upto \in 0..MaxLog /\ 1..m.upto \in SUBSET (1..MaxLog)
      BY <2>1
    <3> QED
      BY <2>2, <3>1
  <2>4. changes' \subseteq 1..MaxLog /\ reader' \in [Readers -> {Idle} \cup Asking \cup Answered]
    BY <1>13 DEF Replace, Readers
  <2> QED
    BY <1>13, <2>3, <2>4 DEF Replace
<1>14. ASSUME StartApply PROVE TypeOK'
  BY <1>14, ReaderFacts DEF StartApply, Answered, HasAnswer, Readers
<1>15. ASSUME ApplyBatch PROVE TypeOK'
  BY <1>15, ReaderFacts DEF ApplyBatch, Answered, HasAnswer, Readers, Positions, FeedCovered, ActiveCoversObserved
<1>16. ASSUME EndPoll PROVE TypeOK'
  BY <1>16, ReaderFacts DEF EndPoll, Readers, Idle
<1>17. ASSUME MarketRestart PROVE TypeOK'
  BY <1>17, ReaderFacts DEF MarketRestart, Readers, Idle
<1>18. ASSUME ViewDeltas PROVE TypeOK'
  BY <1>18 DEF ViewDeltas
<1>19. ASSUME ViewSnapshot PROVE TypeOK'
  BY <1>19 DEF ViewSnapshot
<1>20. CASE UNCHANGED vars
  BY <1>20 DEF vars
<1> QED
  BY <1>1, <1>2, <1>3, <1>4, <1>5, <1>6, <1>7, <1>8, <1>9, <1>10, <1>11, <1>12, <1>13, <1>14, <1>15, <1>16, <1>17, <1>18, <1>19, <1>20 DEF Next, ReaderStep, MarketStep

\* Every step keeps the order of the positions.
LEMMA NextPositions == IInv /\ [Next]_vars => Positions'
<1> SUFFICES ASSUME IInv, [Next]_vars PROVE Positions'
  OBVIOUS
<1> USE ReplicationAssumption DEF IInv, TypeOK, Positions, EnginesBehind, AnswersApplied, HasAnswer,
      ClientsForward, FeedCovered, ActiveCoversObserved
<1>1. ASSUME Submit PROVE Positions'
  BY <1>1 DEF Submit
<1>2. ASSUME NEW e \in Engines, EngineApply(e) PROVE Positions'
  BY <1>2, ReaderFacts DEF EngineApply, Readers
<1>3. ASSUME NEW e \in Engines, EngineStop(e) PROVE Positions'
  BY <1>3 DEF EngineStop
<1>4. ASSUME NEW e \in Engines, EngineRestart(e) PROVE Positions'
  BY <1>4 DEF EngineRestart
<1>5. ASSUME NEW e \in Engines, FetchCandidate(e) PROVE Positions'
  BY <1>5 DEF FetchCandidate
<1>6. ASSUME NEW e \in Engines, Promote(e) PROVE Positions'
  BY <1>6, ReaderFacts DEF Promote, Complete, Readers
<1>7. ASSUME NEW r \in Readers, Begin(r) PROVE Positions'
  BY <1>7, ReaderFacts DEF Begin, Idle, Readers
<1>8. ASSUME NEW r \in Readers, Admit(r) PROVE Positions'
  BY <1>8, ReaderFacts DEF Admit, Asking, Readers
<1>9. ASSUME NEW r \in Readers, ReadEngine(r) PROVE Positions'
  BY <1>9, ReaderFacts DEF ReadEngine, Asking, Readers
<1>10. ASSUME NEW r \in Readers, Confirm(r) PROVE Positions'
  BY <1>10, ReaderFacts DEF Confirm, Answered, Readers
<1>11. ASSUME NEW r \in Readers, GiveUp(r) PROVE Positions'
  BY <1>11, ReaderFacts DEF GiveUp, Idle, Readers
<1>12. ASSUME NEW c \in Clients, AnswerClient(c) PROVE Positions'
  BY <1>12, ReaderFacts DEF AnswerClient, Idle, Readers, Unchanged
<1>13. ASSUME Replace PROVE Positions'
  BY <1>13, ReaderFacts DEF Replace, Idle, Readers, Unchanged
<1>14. ASSUME StartApply PROVE Positions'
  BY <1>14, ReaderFacts DEF StartApply, Answered, Readers, Unchanged
<1>15. ASSUME ApplyBatch PROVE Positions'
  BY <1>15, ReaderFacts DEF ApplyBatch, Answered, Readers
<1>16. ASSUME EndPoll PROVE Positions'
  BY <1>16, ReaderFacts DEF EndPoll, Readers, Idle
<1>17. ASSUME MarketRestart PROVE Positions'
  BY <1>17, ReaderFacts DEF MarketRestart, Readers, Idle
<1>18. ASSUME ViewDeltas PROVE Positions'
  BY <1>18 DEF ViewDeltas
<1>19. ASSUME ViewSnapshot PROVE Positions'
  BY <1>19 DEF ViewSnapshot
<1>20. CASE UNCHANGED vars
  BY <1>20 DEF vars
<1> QED
  BY <1>1, <1>2, <1>3, <1>4, <1>5, <1>6, <1>7, <1>8, <1>9, <1>10, <1>11, <1>12, <1>13, <1>14, <1>15, <1>16, <1>17, <1>18, <1>19, <1>20 DEF Next, ReaderStep, MarketStep

\* Adding the next number to a suffix of 1..n and dropping old ones leaves a suffix.
LEMMA SuffixShifts ==
  ASSUME NEW n \in Nat, NEW w \in Nat \ {0}, NEW S \in SUBSET (1..n),
         \A s \in S : s..n \subseteq S
  PROVE  LET T == {s \in S \cup {n + 1} : s > n + 1 - w}
         IN  T \subseteq 1..(n + 1) /\ \A s \in T : s..(n + 1) \subseteq T
<1> DEFINE T == {s \in S \cup {n + 1} : s > n + 1 - w}
<1>1. ASSUME NEW s \in T PROVE s \in 1..(n + 1)
  <2>1. s \in S \/ s = n + 1
    OBVIOUS
  <2> QED
    BY <2>1
<1>2. ASSUME NEW s \in T, NEW k \in s..(n + 1) PROVE k \in T
  <2>1. s \in 1..(n + 1) /\ s > n + 1 - w /\ k \in Int /\ k > n + 1 - w
    BY <1>1
  <2>2. k = n + 1 \/ (k \in s..n /\ s \in S)
    BY <2>1
  <2>3. k \in S \cup {n + 1}
    BY <2>2
  <2> QED
    BY <2>1, <2>3
<1> QED
  BY <1>1, <1>2

\* A prefix followed by a suffix that reaches it has no hole.
LEMMA SuffixCompletes ==
  ASSUME NEW n \in Nat, NEW v \in Nat, v < n, NEW S \in SUBSET (1..n),
         \A s \in S : s..n \subseteq S, NEW t \in S, v >= t - 1
  PROVE  (1..v) \cup {s \in S : s > v} = 1..n
<1>1. ASSUME NEW k \in 1..n, k > v PROVE k \in S
  <2>1. t \in 1..n
    OBVIOUS
  <2>2. k \in t..n
    BY <1>1, <2>1
  <2> QED
    BY <2>2
<1>2. (1..v) \cup {s \in S : s > v} \subseteq 1..n
  <2>1. 1..v \subseteq 1..n
    OBVIOUS
  <2> QED
    BY <2>1
<1>3. 1..n \subseteq (1..v) \cup {s \in S : s > v}
  BY <1>1
<1> QED
  BY <1>2, <1>3

\* Every step keeps the contents of projection, deltas and public client.
LEMMA NextContents == IInv /\ [Next]_vars => Contents'
<1> SUFFICES ASSUME IInv, [Next]_vars PROVE Contents'
  OBVIOUS
<1> USE DEF IInv, TypeOK, Contents, DeltasContiguous, NoGaps
<1>1. ASSUME Submit PROVE Contents'
  BY <1>1 DEF Submit
<1>2. ASSUME NEW e \in Engines, EngineApply(e) PROVE Contents'
  BY <1>2 DEF EngineApply
<1>3. ASSUME NEW e \in Engines, EngineStop(e) PROVE Contents'
  BY <1>3 DEF EngineStop
<1>4. ASSUME NEW e \in Engines, EngineRestart(e) PROVE Contents'
  BY <1>4 DEF EngineRestart
<1>5. ASSUME NEW e \in Engines, FetchCandidate(e) PROVE Contents'
  BY <1>5 DEF FetchCandidate
<1>6. ASSUME NEW e \in Engines, Promote(e) PROVE Contents'
  BY <1>6 DEF Promote
<1>7. ASSUME NEW r \in Readers, Begin(r) PROVE Contents'
  BY <1>7 DEF Begin
<1>8. ASSUME NEW r \in Readers, Admit(r) PROVE Contents'
  BY <1>8 DEF Admit
<1>9. ASSUME NEW r \in Readers, ReadEngine(r) PROVE Contents'
  BY <1>9 DEF ReadEngine
<1>10. ASSUME NEW r \in Readers, Confirm(r) PROVE Contents'
  BY <1>10 DEF Confirm
<1>11. ASSUME NEW r \in Readers, GiveUp(r) PROVE Contents'
  BY <1>11 DEF GiveUp
<1>12. ASSUME NEW c \in Clients, AnswerClient(c) PROVE Contents'
  BY <1>12 DEF AnswerClient
<1>13. ASSUME Replace PROVE Contents'
  <2> DEFINE m == reader["market"]
  <2>1. m.upto \in 1..MaxLog /\ m.upto >= market.seq
    BY <1>13, ReaderFacts DEF Replace, HasAnswer, Readers
  <2>2. market' = [epoch |-> m.epoch, seq |-> m.upto, has |-> 1..m.upto]
    BY <1>13 DEF Replace
  <2>3. changes' = {} \/ (changes' = changes /\ market' = market)
    BY <1>13 DEF Replace
  <2> QED
    BY <1>13, <2>1, <2>2, <2>3 DEF Replace
<1>14. ASSUME StartApply PROVE Contents'
  BY <1>14 DEF StartApply
<1>15. ASSUME ApplyBatch PROVE Contents'
  <2>1. market.seq \in Nat /\ market'.seq = market.seq + 1 /\ market'.has = market.has \cup {market.seq + 1}
    BY <1>15 DEF ApplyBatch
  <2>2. changes' = {s \in changes \cup {market.seq + 1} : s > market.seq + 1 - Window}
    BY <1>15, Zenon DEF ApplyBatch
  <2>3. market'.has = 1..market'.seq
    BY <2>1
  <2>4. changes' \subseteq 1..market'.seq /\ \A s \in changes' : s..market'.seq \subseteq changes'
    BY <2>1, <2>2, SuffixShifts, ReplicationAssumption
  <2>5. viewer'.seq <= market'.seq /\ viewer'.has = 1..viewer'.seq
    BY <1>15, <2>1 DEF ApplyBatch
  <2> QED
    BY <2>3, <2>4, <2>5
<1>16. ASSUME EndPoll PROVE Contents'
  BY <1>16 DEF EndPoll
<1>17. ASSUME MarketRestart PROVE Contents'
  BY <1>17 DEF MarketRestart
<1>18. ASSUME ViewDeltas PROVE Contents'
  <2>1. PICK s \in changes : viewer.seq >= s - 1
    BY <1>18 DEF ViewDeltas, Gap
  <2>2. viewer' = [seq |-> market.seq, has |-> viewer.has \cup {k \in changes : k > viewer.seq}]
    BY <1>18 DEF ViewDeltas
  <2>3. market.seq \in Nat /\ viewer.seq \in Nat /\ viewer.seq < market.seq /\ s \in 1..market.seq
    BY <1>18 DEF ViewDeltas
  <2>4. (1..viewer.seq) \cup {k \in changes : k > viewer.seq} = 1..market.seq
    BY <2>1, <2>3, SuffixCompletes
  <2>5. viewer'.has = 1..market.seq
    BY <2>2, <2>4
  <2> QED
    BY <1>18, <2>2, <2>3, <2>5 DEF ViewDeltas
<1>19. ASSUME ViewSnapshot PROVE Contents'
  BY <1>19 DEF ViewSnapshot
<1>20. CASE UNCHANGED vars
  BY <1>20 DEF vars
<1> QED
  BY <1>1, <1>2, <1>3, <1>4, <1>5, <1>6, <1>7, <1>8, <1>9, <1>10, <1>11, <1>12, <1>13, <1>14, <1>15, <1>16, <1>17, <1>18, <1>19, <1>20 DEF Next, ReaderStep, MarketStep

\* The invariant holds in every state.
LEMMA Invariance == Spec => []IInv
<1>1. IInv /\ [Next]_vars => IInv'
  BY NextTypeOK, NextPositions, NextContents DEF IInv
<1> QED
  BY InitIInv, <1>1, PTL DEF Spec

\* storage.py, market.py: every value keeps its range.
THEOREM TypeCorrect == Spec => []TypeOK
BY Invariance, PTL DEF IInv

\* Sequencer.promote (storage.py): the active engine has applied whatever a
\* client was answered or the market published, across any failover.
THEOREM NothingObservedIsLost == Spec => []ActiveCoversObserved
BY Invariance, PTL DEF IInv, Positions

\* Market.replace, apply and deltas (market.py): the projection and a public
\* client that follows it have every command up to their sequence number.
THEOREM ProjectionsComplete == Spec => []NoGaps
BY Invariance, PTL DEF IInv, Contents

\* http.py, active: the answers that a client receives never go back.
THEOREM Monotone == Spec => AnswersNeverGoBack
<1>1. IInv /\ [Next]_vars => [\A c \in Clients : seen'[c] >= seen[c]]_vars
  <2> SUFFICES ASSUME IInv, [Next]_vars, NEW c \in Clients PROVE seen'[c] >= seen[c]
    OBVIOUS
  <2>1. seen[c] \in Nat
    BY DEF IInv, TypeOK
  <2>2. CASE seen' = seen
    BY <2>1, <2>2
  <2>3. ASSUME NEW d \in Clients, AnswerClient(d) PROVE seen'[c] >= seen[c]
    <3>1. reader[d].upto >= seen[d] /\ d \in Readers
      BY <2>3, ReaderFacts DEF AnswerClient, IInv, TypeOK, Positions, ClientsForward, HasAnswer, Readers
    <3>2. seen' = [seen EXCEPT ![d] = reader[d].upto]
      BY <2>3 DEF AnswerClient
    <3> QED
      BY <2>1, <3>1, <3>2 DEF IInv, TypeOK
  <2> QED
    BY <2>2, <2>3 DEF Next, vars, Submit, EngineApply, EngineStop, EngineRestart, FetchCandidate, Promote,
       ReaderStep, Begin, Admit, ReadEngine, Confirm, GiveUp, MarketStep, Replace, StartApply, ApplyBatch,
       EndPoll, MarketRestart, ViewDeltas, ViewSnapshot
<1> QED
  BY Invariance, <1>1, PTL DEF Spec, AnswersNeverGoBack

\* Promotion, readers and market together (storage.py, http.py, market.py): no
\* failover loses what was observed, and no follower has a hole.
THEOREM Kept == Spec => []ObservedKept
BY NothingObservedIsLost, ProjectionsComplete, PTL DEF ObservedKept

-----------------------------------------------------------------------------
(***************************************************************************)
(* Proof that the storage engine keeps what it acknowledged.  The          *)
(* invariant compares three sets of entries: those of the log, those of    *)
(* the published tables and those a reader uses.                           *)
(***************************************************************************)

\* Entries of the writes so far.
Made == [key : Keys, ts : 1..swrites, val : 1..swrites]
Tables == [level : Nat, entries : (SUBSET Made) \ {{}}, born : 0..swrites]

\* What the log holds, what the disk holds, what a reader uses.
Frames(log) == {log[i] : i \in {j \in DOMAIN log : log[j] # Torn}}
OnDisk == Frames(wal) \cup EntriesOf(files)
Readable == mem \cup EntriesOf(tables)

\* Every entry of S is in T, or T has a newer one of its key.
Covers(T, S) == \A e \in S : \E f \in T : f = e \/ (f.key = e.key /\ f.ts > e.ts)
OneValue(E) == \A e, f \in E : e.key = f.key /\ e.ts = f.ts => e = f
OnePerKey(E) == \A e, f \in E : e.key = f.key => e = f

\* E has what was acknowledged and what was read, or something newer.
Reaches(E, done, read) ==
  \A k \in Keys :
    /\ done[k] = 0 \/ \E e \in E : e.key = k /\ e.ts >= done[k]
    /\ read[k] = Nothing \/ \E e \in E : /\ e.key = k
                                        /\ \/ e.ts > read[k].ts
                                           \/ e.ts = read[k].ts /\ e.val = read[k].val

Steps == {"idle", "append", "insert", "publish", "install", "truncate", "compact", "replace", "unlink"}
Flushing == {"publish", "install", "truncate", "compact", "replace", "unlink"}
Merging == {"replace", "unlink"}

EngineShapes ==
  /\ wal \in Seq(Made \cup {Torn}) /\ files \subseteq Tables /\ mem \subseteq Made
  /\ started \in BOOLEAN /\ fenced \in BOOLEAN /\ pc \in Steps
  /\ swrites \in 0..MaxWrites /\ sfaults \in 0..MaxFaults
  /\ sacked \in [Keys -> Nat] /\ sseen \in [Keys -> [ts : Nat, val : Nat]]
  /\ OnePerKey(mem)

\* Only the last frame of the log may be incomplete, none while it takes appends.
LogShape ==
  /\ \A i \in 1..Len(wal) : wal[i] = Torn => i = Len(wal)
  /\ started /\ ~fenced => \A i \in 1..Len(wal) : wal[i] # Torn

\* What a reader uses is on disk, and nothing on disk is newer, but an entry that
\* is still to be inserted and, once the log is fenced, one whose append failed.
Placement ==
  /\ mem \subseteq Frames(wal) /\ tables \subseteq files
  /\ OneValue(OnDisk)
  /\ started /\ ~fenced => Covers(Readable \cup (IF pc = "insert" THEN {cur} ELSE {}), OnDisk)
  /\ Reaches(IF started THEN Readable ELSE OnDisk, sacked, sseen)

\* What the steps of a mutation rely on.
Progress ==
  /\ pc # "idle" => started
  /\ pc \in {"append", "insert"} => cur \in Made
  /\ pc = "append" /\ ~fenced => \A e \in OnDisk : e.key = cur.key => e.ts < cur.ts
  /\ pc = "insert" => cur \in Frames(wal) /\ ~fenced
  /\ pc \in Flushing => cur.key = "stop" \/ (cur \in Made /\ Covers(Readable, {cur}))
  /\ pc = "publish" => mem # {}
  /\ pc = "install" => fresh.table \in files /\ fresh.table.entries = mem
  /\ pc \in {"truncate", "compact"} \cup Merging => mem = {}
  /\ pc \in {"compact"} \cup Merging => ~fenced
  /\ pc \in Merging =>
       /\ fresh = [inputs |-> fresh.inputs, table |-> fresh.table]
       /\ fresh.table \in files /\ fresh.inputs \subseteq Tables /\ fresh.table \notin fresh.inputs
       /\ Covers(fresh.table.entries, EntriesOf(fresh.inputs))
  /\ pc = "unlink" => fresh.table \in tables /\ fresh.inputs \cap tables = {}

EngineIInv == EngineShapes /\ LogShape /\ Placement /\ Progress

-----------------------------------------------------------------------------
(***************************************************************************)
(* Sets of entries.                                                        *)
(***************************************************************************)

Stamped(E) == \A e \in E : e.ts \in Nat

\* A non-empty set of bounded numbers has a greatest element.
LEMMA MaxBounded ==
  ASSUME NEW n \in Nat, NEW T, T \subseteq 0..n, T # {}
  PROVE  \E x \in T : \A y \in T : y <= x
<1> DEFINE D == {d \in 0..n : n - d \in T}
<1>1. D \subseteq Nat /\ D # {}
  <2>1. PICK x \in T : TRUE
    OBVIOUS
  <2>2. PICK d : d \in 0..n /\ n - d = x
    <3>1. x \in 0..n /\ n - x \in 0..n /\ n - (n - x) = x
      OBVIOUS
    <3> QED
      BY <3>1
  <2>3. d \in D
    BY <2>1, <2>2
  <2> QED
    BY <2>3
<1>2. PICK d \in D : \A c \in D : d <= c
  <2> HIDE DEF D
  <2> QED
    BY <1>1, MinNat
<1>3. n - d \in T
  BY <1>2
<1>4. ASSUME NEW y \in T PROVE y <= n - d
  <2>1. PICK c : c \in 0..n /\ n - c = y
    <3>1. y \in 0..n /\ n - y \in 0..n /\ n - (n - y) = y
      OBVIOUS
    <3> QED
      BY <3>1
  <2>2. c \in D
    BY <2>1
  <2>3. d <= c /\ d \in 0..n
    BY <1>2, <2>2
  <2> QED
    BY <2>1, <2>3
<1> QED
  BY <1>3, <1>4

\* Covering is transitive.
LEMMA CoversTrans ==
  ASSUME NEW P, NEW S, NEW T, Stamped(P), Stamped(S), Stamped(T), Covers(S, P), Covers(T, S)
  PROVE  Covers(T, P)
BY DEF Covers, Stamped

\* A larger set covers, and unions cover unions.
LEMMA CoversSubset ==
  ASSUME NEW S, NEW T, S \subseteq T
  PROVE  Covers(T, S)
BY DEF Covers

LEMMA CoversUnion ==
  ASSUME NEW P, NEW S, NEW T, Covers(T, P), Covers(T, S)
  PROVE  Covers(T, P \cup S)
BY DEF Covers

LEMMA CoversMore ==
  ASSUME NEW P, NEW S, NEW T, Covers(S, P), S \subseteq T
  PROVE  Covers(T, P)
BY DEF Covers

\* What a read of key k returns.
IsNewest(x, E, k) ==
  \/ x = Nothing /\ \A e \in E : e.key # k
  \/ \E b \in E : /\ b.key = k /\ x = [ts |-> b.ts, val |-> b.val]
                 /\ \A e \in E : e.key = k => e.ts <= b.ts

LEMMA NewestIs ==
  ASSUME NEW n \in Nat, NEW E, \A e \in E : e.ts \in 0..n, NEW k
  PROVE  IsNewest(Newest(E, k), E, k)
<1> DEFINE mine == {e \in E : e.key = k}
           best == CHOOSE e \in mine : \A f \in mine : e.ts >= f.ts
<1>1. CASE mine = {}
  BY <1>1 DEF Newest, IsNewest
<1>2. CASE mine # {}
  <2> DEFINE T == {e.ts : e \in mine}
  <2>1. T \subseteq 0..n /\ T # {}
    BY <1>2
  <2>2. \E x \in T : \A y \in T : y <= x
    <3> HIDE DEF T
    <3> QED
      BY <2>1, MaxBounded
  <2>3. PICK e \in mine : \A f \in mine : f.ts <= e.ts
    BY <2>2
  <2>4. \A f \in mine : e.ts >= f.ts
    BY <2>3
  <2>5. best \in mine /\ \A f \in mine : best.ts >= f.ts
    BY <2>4
  <2>6. Newest(E, k) = [ts |-> best.ts, val |-> best.val]
    BY <1>2 DEF Newest
  <2> HIDE DEF best
  <2>7. \A f \in E : f.key = k => f.ts <= best.ts
    BY <2>5
  <2> QED
    BY <2>5, <2>6, <2>7 DEF IsNewest
<1> QED
  BY <1>1, <1>2

\* The memtable after an insert.
LEMMA InsertedIs ==
  ASSUME NEW m, NEW e, Stamped(m \cup {e}), OneValue(m \cup {e})
  PROVE  /\ Inserted(m, e) \subseteq m \cup {e} /\ Inserted(m, e) # {}
         /\ Covers(Inserted(m, e), m \cup {e})
         /\ OnePerKey(m) => OnePerKey(Inserted(m, e))
<1>1. CASE \E f \in m : f.key = e.key /\ f.ts > e.ts
  <2>1. Inserted(m, e) = m
    BY <1>1 DEF Inserted
  <2> QED
    BY <1>1, <2>1 DEF Covers
<1>2. CASE ~\E f \in m : f.key = e.key /\ f.ts > e.ts
  <2>1. Inserted(m, e) = {f \in m : f.key # e.key} \cup {e}
    BY <1>2 DEF Inserted
  <2>2. ASSUME NEW f \in m, f.key = e.key PROVE f = e \/ e.ts > f.ts
    <3>1. f.ts \in Nat /\ e.ts \in Nat /\ ~(f.ts > e.ts)
      BY <1>2, <2>2 DEF Stamped
    <3>2. f.ts = e.ts => f = e
      BY <2>2 DEF OneValue
    <3> QED
      BY <3>1, <3>2
  <2>3. Covers(Inserted(m, e), m \cup {e})
    BY <2>1, <2>2 DEF Covers
  <2>4. OnePerKey(m) => OnePerKey(Inserted(m, e))
    BY <2>1 DEF OnePerKey
  <2> QED
    BY <2>1, <2>3, <2>4
<1> QED
  BY <1>1, <1>2

\* The merge of a compaction keeps the newest entries.
LEMMA MergedIs ==
  ASSUME NEW n \in Nat, NEW E, \A e \in E : e.ts \in 0..n
  PROVE  /\ MergedEntries(E) \subseteq E /\ Covers(MergedEntries(E), E)
         /\ E # {} => MergedEntries(E) # {}
<1>1. ASSUME NEW e \in E PROVE \E f \in MergedEntries(E) : f = e \/ (f.key = e.key /\ f.ts > e.ts)
  <2> DEFINE T == {f.ts : f \in {g \in E : g.key = e.key}}
  <2>1. T \subseteq 0..n /\ T # {}
    OBVIOUS
  <2>2. \E x \in T : \A y \in T : y <= x
    <3> HIDE DEF T
    <3> QED
      BY <2>1, MaxBounded
  <2>3. PICK f \in E : f.key = e.key /\ \A g \in E : g.key = e.key => g.ts <= f.ts
    BY <2>2
  <2>4. CASE \A g \in E : g.key = e.key => g.ts <= e.ts
    BY <2>4 DEF MergedEntries
  <2>5. CASE ~\A g \in E : g.key = e.key => g.ts <= e.ts
    <3>1. PICK g \in E : g.key = e.key /\ ~(g.ts <= e.ts)
      BY <2>5
    <3>2. f.ts > e.ts
      BY <2>3, <3>1
    <3>3. f \in MergedEntries(E)
      BY <2>3 DEF MergedEntries
    <3> QED
      BY <2>3, <3>2, <3>3
  <2> QED
    BY <2>4, <2>5
<1> QED
  BY <1>1 DEF MergedEntries, Covers

-----------------------------------------------------------------------------
(***************************************************************************)
(* The log.                                                                *)
(***************************************************************************)

\* Recovery keeps every complete frame of a log that is cut at its end only.
LEMMA CompleteLogIs ==
  ASSUME NEW X, Torn \notin X, NEW log \in Seq(X \cup {Torn}),
         \A i \in 1..Len(log) : log[i] = Torn => i = Len(log)
  PROVE  /\ CompleteLog(log) \in Seq(X) /\ Frames(CompleteLog(log)) = Frames(log)
         /\ Frames(log) = {CompleteLog(log)[i] : i \in 1..Len(CompleteLog(log))}
         /\ (\A i \in 1..Len(log) : log[i] # Torn) => CompleteLog(log) = log
<1> DEFINE n == Len(log)
           cut == {i \in DOMAIN log : log[i] = Torn}
<1>0. /\ n \in Nat /\ DOMAIN log = 1..n /\ log \in [1..n -> X \cup {Torn}] /\ \A i \in 1..n : log[i] = Torn => i = n
      /\ \A i \in 1..n : log[i] # Torn => log[i] \in X
  <2>1. /\ n \in Nat /\ DOMAIN log = 1..n /\ log \in [1..n -> X \cup {Torn}]
    OBVIOUS
  <2>2. \A i \in 1..n : log[i] = Torn => i = n
    OBVIOUS
  <2>3. \A i \in 1..n : log[i] # Torn => log[i] \in X
    BY <2>1
  <2> QED
    BY <2>1, <2>2, <2>3
<1>1. CASE ~Contains(log, Torn)
  <2>1. \A i \in 1..n : log[i] # Torn
    BY <1>1 DEF Contains
  <2>2. CompleteLog(log) = log
    BY <1>1 DEF CompleteLog
  <2>3. log \in Seq(X)
    <3>1. log \in [1..n -> X]
      BY <1>0, <2>1
    <3> HIDE DEF n
    <3> QED
      BY <1>0, <3>1, SeqDef
  <2> QED
    BY <1>0, <2>1, <2>2, <2>3 DEF Frames
<1>2. CASE Contains(log, Torn)
  <2>1. cut = {n} /\ n >= 1
    <3>1. PICK i \in 1..n : log[i] = Torn
      BY <1>2 DEF Contains
    <3>2. i = n
      BY <1>0, <3>1
    <3> HIDE DEF n
    <3> QED
      BY <1>0, <3>1, <3>2
  <2>2. CompleteLog(log) = SubSeq(log, 1, Min(cut) - 1)
    BY <1>2 DEF CompleteLog
  <2> HIDE DEF cut
  <2> HIDE DEF n
  <2>3. Min(cut) = n
    <3>1. n \in cut /\ \A x, y \in cut : x = n /\ x <= y
      BY <1>0, <2>1
    <3> QED
      BY <3>1 DEF Min
  <2> DEFINE c == SubSeq(log, 1, n - 1)
  <2>4. CompleteLog(log) = c
    BY <2>2, <2>3
  <2>5. \A i \in 1..(n - 1) : log[i] \in X /\ log[i] # Torn
    <3> SUFFICES ASSUME NEW i \in 1..(n - 1) PROVE log[i] \in X /\ log[i] # Torn
      OBVIOUS
    <3>1. i \in 1..n /\ i # n
      BY <1>0
    <3> QED
      BY <1>0, <3>1
  <2>6. /\ c \in Seq(X) /\ Len(c) = n - 1 /\ \A i \in 1..(n - 1) : c[i] = log[i]
    <3>1. 1 \in Int /\ n - 1 \in Int /\ \A i \in 1..(n - 1) : log[i] \in X
      BY <1>0, <2>5
    <3>2. /\ c \in Seq(X) /\ Len(c) = (IF 1 <= n - 1 THEN n - 1 - 1 + 1 ELSE 0)
          /\ \A i \in 1..(n - 1 - 1 + 1) : c[i] = log[1 + i - 1]
      BY <3>1, SubSeqProperties
    <3> HIDE DEF c
    <3> QED
      BY <1>0, <2>1, <3>2
  <2>8. log[n] = Torn
    BY <2>1 DEF cut
  <2> HIDE DEF c
  <2>7. DOMAIN c = 1..(n - 1) /\ \A i \in 1..(n - 1) : c[i] # Torn
    BY <2>5, <2>6
  <2>9. Frames(log) = {log[i] : i \in 1..(n - 1)}
    <3>1. {j \in 1..n : log[j] # Torn} = 1..(n - 1)
      BY <1>0, <2>1, <2>5, <2>8
    <3> QED
      BY <1>0, <3>1 DEF Frames
  <2>10. Frames(c) = {c[i] : i \in 1..(n - 1)}
    BY <2>7 DEF Frames
  <2>11. Frames(c) = Frames(log)
    BY <2>6, <2>9, <2>10
  <2>12. n \in 1..n
    BY <1>0, <2>1
  <2> QED
    BY <2>4, <2>6, <2>8, <2>10, <2>11, <2>12 DEF n
<1> QED
  BY <1>1, <1>2

\* What an append adds to the log.
LEMMA FramesAppend ==
  ASSUME NEW X, NEW log \in Seq(X), NEW x \in X
  PROVE  /\ x # Torn => Frames(Append(log, x)) = Frames(log) \cup {x}
         /\ x = Torn => Frames(Append(log, x)) = Frames(log)
<1> DEFINE s == Append(log, x)
<1>1. /\ Len(log) \in Nat /\ DOMAIN log = 1..Len(log) /\ DOMAIN s = 1..(Len(log) + 1)
      /\ s[Len(log) + 1] = x /\ \A i \in 1..Len(log) : s[i] = log[i]
  OBVIOUS
<1> HIDE DEF s
<1>2. Frames(s) \subseteq Frames(log) \cup {x}
  BY <1>1 DEF Frames
<1>3. Frames(log) \subseteq Frames(s)
  BY <1>1 DEF Frames
<1>4. x # Torn => x \in Frames(s)
  BY <1>1 DEF Frames
<1>5. Torn \notin Frames(s)
  BY DEF Frames
<1> QED
  BY <1>2, <1>3, <1>4, <1>5 DEF s

\* The memtables of a replay, one after each entry.
ReplaySteps(m, c, n, g) == g = [i \in 0..n |-> IF i = 0 THEN m ELSE Inserted(g[i - 1], c[i])]

\* They exist: the table of n entries extends the table of n - 1.
LEMMA ReplayExists ==
  ASSUME NEW m, NEW c, NEW n \in Nat
  PROVE  \E g : ReplaySteps(m, c, n, g)
<1> DEFINE Bad == {k \in Nat : ~\E g : ReplaySteps(m, c, k, g)}
<1> SUFFICES Bad = {}
  OBVIOUS
<1> SUFFICES ASSUME Bad # {} PROVE FALSE
  OBVIOUS
<1>1. PICK k \in Bad : \A j \in Bad : k <= j
  <2>1. Bad \subseteq Nat
    OBVIOUS
  <2> HIDE DEF Bad
  <2> QED
    BY <2>1, MinNat
<1>2. k \in Nat /\ ~\E g : ReplaySteps(m, c, k, g)
  BY <1>1
<1>3. CASE k = 0
  <2> DEFINE g == [i \in 0..0 |-> m]
  <2>1. ASSUME NEW i \in 0..0 PROVE i = 0
    OBVIOUS
  <2>2. g = [i \in 0..0 |-> IF i = 0 THEN m ELSE Inserted(g[i - 1], c[i])]
    BY <2>1
  <2>3. ReplaySteps(m, c, 0, g)
    BY <2>2 DEF ReplaySteps
  <2> QED
    BY <1>2, <1>3, <2>3
<1>4. CASE k # 0
  <2>1. k - 1 \in Nat /\ k - 1 \notin Bad
    BY <1>1, <1>2, <1>4
  <2>2. PICK g : ReplaySteps(m, c, k - 1, g)
    BY <2>1
  <2> DEFINE h == [i \in 0..k |-> IF i = k THEN Inserted(g[k - 1], c[k]) ELSE g[i]]
  <2>3. \A i \in 0..(k - 1) : g[i] = IF i = 0 THEN m ELSE Inserted(g[i - 1], c[i])
    BY <2>2 DEF ReplaySteps
  <2>4. h[k] = Inserted(g[k - 1], c[k]) /\ \A i \in 0..(k - 1) : h[i] = g[i]
    BY <1>2, <2>1
  <2>5. ASSUME NEW i \in 0..k PROVE h[i] = IF i = 0 THEN m ELSE Inserted(h[i - 1], c[i])
    <3> HIDE DEF h, Bad
    <3>1. CASE i = k
      <4>1. k - 1 \in 0..(k - 1)
        BY <2>1
      <4> QED
        BY <1>4, <2>4, <3>1, <4>1
    <3>2. CASE i # k
      <4>1. i \in 0..(k - 1) /\ (i # 0 => i - 1 \in 0..(k - 1))
        BY <1>2, <3>2
      <4> QED
        BY <2>3, <2>4, <4>1
    <3> QED
      BY <3>1, <3>2
  <2>6. DOMAIN h = 0..k /\ h = [i \in 0..k |-> h[i]]
    OBVIOUS
  <2> HIDE DEF h
  <2>7. h = [i \in 0..k |-> IF i = 0 THEN m ELSE Inserted(h[i - 1], c[i])]
    BY <2>5, <2>6
  <2>8. ReplaySteps(m, c, k, h)
    BY <2>7 DEF ReplaySteps
  <2> QED
    BY <1>2, <2>8
<1> QED
  BY <1>3, <1>4

\* A replay ends with entries of the memtable and the log, the newest of each key.
LEMMA ReplayedIs ==
  ASSUME NEW m, NEW log, NEW X, CompleteLog(log) \in Seq(X),
         NEW L, L = {CompleteLog(log)[i] : i \in 1..Len(CompleteLog(log))},
         Stamped(m \cup L), OneValue(m \cup L)
  PROVE  /\ Replayed(m, log) \subseteq m \cup L /\ Covers(Replayed(m, log), m \cup L)
         /\ OnePerKey(m) => OnePerKey(Replayed(m, log))
<1> DEFINE c == CompleteLog(log)
           n == Len(c)
           after == CHOOSE g : ReplaySteps(m, c, n, g)
           U(i) == m \cup {c[j] : j \in 1..i}
           Right(i) == /\ after[i] \subseteq U(i) /\ Covers(after[i], U(i))
                       /\ OnePerKey(m) => OnePerKey(after[i])
           Wrong == {i \in 0..n : ~Right(i)}
<1>1. n \in Nat
  OBVIOUS
<1>2. Replayed(m, log) = after[n]
  BY DEF Replayed, ReplaySteps
<1>3. ReplaySteps(m, c, n, after)
  BY <1>1, ReplayExists
<1> HIDE DEF c, n, after
<1>4. \A i \in 0..n : after[i] = IF i = 0 THEN m ELSE Inserted(after[i - 1], c[i])
  BY <1>3 DEF ReplaySteps
<1>5. U(n) = m \cup L
  BY DEF c, n
<1>6. Wrong = {}
  <2> SUFFICES ASSUME Wrong # {} PROVE FALSE
    OBVIOUS
  <2>1. PICK k \in Wrong : \A j \in Wrong : k <= j
    <3>1. Wrong \subseteq Nat
      BY <1>1
    <3> HIDE DEF Wrong
    <3> QED
      BY <3>1, MinNat
  <2>2. k \in 0..n /\ ~Right(k)
    BY <2>1
  <2>3. CASE k = 0
    <3>1. after[0] = m
      BY <1>1, <1>4
    <3>2. U(0) = m
      OBVIOUS
    <3> QED
      BY <2>2, <2>3, <3>1, <3>2, CoversSubset
  <2>4. CASE k # 0
    <3>1. k - 1 \in 0..n /\ k - 1 \notin Wrong
      <4>1. k \in 0..n /\ \A j \in Wrong : k <= j
        BY <2>1, <2>2
      <4> HIDE DEF Wrong
      <4> QED
        BY <1>1, <2>4, <4>1
    <3>2. Right(k - 1)
      BY <3>1
    <3>3. after[k] = Inserted(after[k - 1], c[k])
      BY <1>4, <2>2, <2>4
    <3>4. U(k) = U(k - 1) \cup {c[k]} /\ U(k) \subseteq U(n)
      BY <1>1, <2>2, <2>4
    <3> DEFINE p == after[k - 1]
               V == U(k - 1)
               Grown == U(k)
    <3>5. p \subseteq V /\ Covers(p, V) /\ Grown = V \cup {c[k]} /\ Grown \subseteq m \cup L
      BY <1>5, <3>2, <3>4
    <3>6. (OnePerKey(m) => OnePerKey(p)) /\ after[k] = Inserted(p, c[k])
      BY <3>2, <3>3
    <3>10. ~(after[k] \subseteq Grown /\ Covers(after[k], Grown) /\ (OnePerKey(m) => OnePerKey(after[k])))
      BY <2>2
    <3> HIDE DEF p, V, Grown, U, Wrong, Right
    <3>7. Stamped(p \cup {c[k]}) /\ OneValue(p \cup {c[k]}) /\ Stamped(Grown)
      BY <3>5 DEF Stamped, OneValue
    <3>8. /\ after[k] \subseteq p \cup {c[k]} /\ Covers(after[k], p \cup {c[k]})
          /\ OnePerKey(m) => OnePerKey(after[k])
      <4>1. /\ Inserted(p, c[k]) \subseteq p \cup {c[k]} /\ Covers(Inserted(p, c[k]), p \cup {c[k]})
            /\ OnePerKey(p) => OnePerKey(Inserted(p, c[k]))
        BY <3>7, InsertedIs
      <4> QED
        BY <3>6, <4>1
    <3>9. Covers(p \cup {c[k]}, Grown)
      BY <3>5 DEF Covers
    <3>11. after[k] \subseteq Grown /\ Stamped(after[k])
      BY <3>5, <3>7, <3>8 DEF Stamped
    <3>12. Covers(after[k], Grown)
      BY <3>7, <3>8, <3>9, <3>11, CoversTrans
    <3> QED
      BY <3>8, <3>10, <3>11, <3>12
  <2> QED
    BY <2>3, <2>4
<1>7. Right(n)
  <2>1. n \in 0..n
    BY <1>1
  <2>2. n \notin Wrong
    BY <1>6
  <2> HIDE DEF Right
  <2> QED
    BY <2>1, <2>2
<1> QED
  BY <1>2, <1>5, <1>7

-----------------------------------------------------------------------------
(***************************************************************************)
(* What the invariant says of the sets of entries.                         *)
(***************************************************************************)

\* Where the entries are.
LEMMA EntriesAre ==
  ASSUME EngineAssumption, EngineIInv
  PROVE  /\ Torn \notin Made /\ swrites \in Nat
         /\ Frames(wal) \subseteq Made /\ EntriesOf(files) \subseteq Made
         /\ EntriesOf(tables) \subseteq EntriesOf(files)
         /\ Readable \subseteq OnDisk /\ OnDisk \subseteq Made
         /\ \A E \in SUBSET Made : Stamped(E) /\ \A e \in E : e.ts \in 0..swrites
<1>1. swrites \in Nat /\ swrites <= MaxWrites /\ MaxWrites \in Nat
  BY DEF EngineIInv, EngineShapes, EngineAssumption
<1>2. Torn \notin Made
  <2>1. Made \subseteq [key : Keys, ts : 1..MaxWrites, val : 1..MaxWrites]
    BY <1>1 DEF Made
  <2> QED
    BY <2>1 DEF EngineAssumption
<1>3. Frames(wal) \subseteq Made
  BY DEF EngineIInv, EngineShapes, Frames
<1>4. EntriesOf(files) \subseteq Made
  BY DEF EngineIInv, EngineShapes, EntriesOf, Tables
<1>5. EntriesOf(tables) \subseteq EntriesOf(files) /\ mem \subseteq Frames(wal)
  BY DEF EngineIInv, Placement, EntriesOf
<1>6. \A e \in Made : e.ts \in Nat /\ e.ts \in 0..swrites
  BY <1>1 DEF Made
<1> QED
  BY <1>1, <1>2, <1>3, <1>4, <1>5, <1>6 DEF Readable, OnDisk, Stamped

\* A set that covers another one reaches as far.
LEMMA ReachesCovered ==
  ASSUME NEW E, NEW F, Stamped(E), Stamped(F), Covers(F, E),
         NEW done \in [Keys -> Nat], NEW read \in [Keys -> [ts : Nat, val : Nat]], Reaches(E, done, read)
  PROVE  Reaches(F, done, read)
<1> SUFFICES ASSUME NEW k \in Keys
             PROVE  /\ done[k] = 0 \/ \E f \in F : f.key = k /\ f.ts >= done[k]
                    /\ read[k] = Nothing \/ \E f \in F : /\ f.key = k
                                                        /\ \/ f.ts > read[k].ts
                                                           \/ f.ts = read[k].ts /\ f.val = read[k].val
  BY DEF Reaches
<1>1. /\ done[k] = 0 \/ \E e \in E : e.key = k /\ e.ts >= done[k]
      /\ read[k] = Nothing \/ \E e \in E : /\ e.key = k
                                          /\ \/ e.ts > read[k].ts
                                             \/ e.ts = read[k].ts /\ e.val = read[k].val
      /\ done[k] \in Nat /\ read[k].ts \in Nat
  BY DEF Reaches
<1>2. ASSUME NEW e \in E PROVE \E f \in F : e.ts \in Nat /\ f.ts \in Nat /\ (f = e \/ (f.key = e.key /\ f.ts > e.ts))
  BY DEF Covers, Stamped
<1>3. done[k] = 0 \/ \E f \in F : f.key = k /\ f.ts >= done[k]
  BY <1>1, <1>2
<1>4. CASE read[k] = Nothing
  BY <1>3, <1>4
<1>5. CASE read[k] # Nothing
  <2>1. PICK e \in E : e.key = k /\ (e.ts > read[k].ts \/ (e.ts = read[k].ts /\ e.val = read[k].val))
    BY <1>1, <1>5
  <2>2. PICK f \in F : e.ts \in Nat /\ f.ts \in Nat /\ (f = e \/ (f.key = e.key /\ f.ts > e.ts))
    BY <1>2
  <2>3. f.key = k /\ (f.ts > read[k].ts \/ (f.ts = read[k].ts /\ f.val = read[k].val))
    BY <1>1, <2>1, <2>2
  <2> QED
    BY <1>3, <2>3
<1> QED
  BY <1>4, <1>5

\* What a reader may have got is in the set it reads.
LEMMA ReachesObserved ==
  ASSUME NEW m, NEW T, NEW E, E = m \cup EntriesOf(T), NEW n \in Nat,
         \A e \in E : e.ts \in 0..n /\ e.val \in Nat, sseen \in [Keys -> [ts : Nat, val : Nat]],
         NEW done, Reaches(E, done, sseen)
  PROVE  Reaches(E, done, Observed(m, T)) /\ Observed(m, T) \in [Keys -> [ts : Nat, val : Nat]]
<1>1. ASSUME NEW k \in Keys
      PROVE  /\ Observed(m, T)[k] \in [ts : Nat, val : Nat]
             /\ Observed(m, T)[k] = Nothing \/
                  \E e \in E : /\ e.key = k
                             /\ \/ e.ts > Observed(m, T)[k].ts
                                \/ e.ts = Observed(m, T)[k].ts /\ e.val = Observed(m, T)[k].val
  <2> DEFINE x == Newest(E, k)
  <2>1. Observed(m, T)[k] = IF x.ts > sseen[k].ts THEN x ELSE sseen[k]
    BY DEF Observed
  <2>2. \/ x = Nothing /\ \A e \in E : e.key # k
        \/ \E b \in E : /\ b.key = k /\ x = [ts |-> b.ts, val |-> b.val]
                       /\ \A e \in E : e.key = k => e.ts <= b.ts
    <3>1. \A e \in E : e.ts \in 0..n
      OBVIOUS
    <3>2. IsNewest(x, E, k)
      BY <3>1, NewestIs
    <3> QED
      BY <3>2 DEF IsNewest
  <2> HIDE DEF x
  <2>3. CASE ~(x.ts > sseen[k].ts)
    BY <2>1, <2>3 DEF Reaches
  <2>4. CASE x.ts > sseen[k].ts
    <3>1. x # Nothing
      BY <2>4 DEF Nothing
    <3>2. PICK b \in E : b.key = k /\ x = [ts |-> b.ts, val |-> b.val]
      BY <2>2, <3>1
    <3>3. Observed(m, T)[k] = x /\ x.ts = b.ts /\ x.val = b.val /\ x \in [ts : Nat, val : Nat]
      BY <2>1, <2>4, <3>2
    <3> QED
      BY <3>2, <3>3
  <2> QED
    BY <2>3, <2>4
<1>2. Observed(m, T) \in [Keys -> [ts : Nat, val : Nat]]
  BY <1>1 DEF Observed
<1> QED
  BY <1>1, <1>2 DEF Reaches

\* Of a running engine both the readable entries and the disk reach far enough.
LEMMA RunningReaches ==
  ASSUME EngineAssumption, EngineIInv, started
  PROVE  Reaches(Readable, sacked, sseen) /\ Reaches(OnDisk, sacked, sseen)
<1>1. Reaches(Readable, sacked, sseen) /\ Covers(OnDisk, Readable)
  BY EntriesAre, CoversSubset DEF EngineIInv, Placement
<1>2. Stamped(Readable) /\ Stamped(OnDisk)
  BY EntriesAre
<1>3. sacked \in [Keys -> Nat] /\ sseen \in [Keys -> [ts : Nat, val : Nat]]
  BY DEF EngineIInv, EngineShapes
<1> QED
  BY <1>1, <1>2, <1>3, ReachesCovered

\* One table more.
LEMMA EntriesAdd ==
  ASSUME NEW T, NEW t
  PROVE  EntriesOf(T \cup {t}) = EntriesOf(T) \cup t.entries
BY DEF EntriesOf

-----------------------------------------------------------------------------
(***************************************************************************)
(* The steps.                                                              *)
(***************************************************************************)

LEMMA EngineInitIInv ==
  ASSUME EngineAssumption, EngineInit
  PROVE  EngineIInv
<1>1. Frames(wal) = {} /\ EntriesOf(files) = {} /\ EntriesOf(tables) = {} /\ Len(wal) = 0
  BY DEF EngineInit, Frames, EntriesOf
<1>2. EngineShapes
  <2>1. sacked \in [Keys -> Nat] /\ sseen \in [Keys -> [ts : Nat, val : Nat]]
    BY DEF EngineInit, Nothing
  <2>2. <<>> \in Seq(Made \cup {Torn}) /\ 0 \in 0..MaxWrites /\ 0 \in 0..MaxFaults
    BY DEF EngineAssumption
  <2> QED
    BY <2>1, <2>2 DEF EngineInit, EngineShapes, OnePerKey, Steps
<1>3. LogShape
  BY <1>1 DEF EngineInit, LogShape
<1>4. Reaches({}, sacked, sseen) /\ OneValue({})
  BY DEF EngineInit, Reaches, OneValue
<1>5. Placement
  BY <1>1, <1>4 DEF EngineInit, Placement, OnDisk, Readable
<1>6. Progress
  BY DEF EngineInit, Progress, Flushing, Merging
<1> QED
  BY <1>2, <1>3, <1>5, <1>6 DEF EngineIInv

\* A mutation starts: its timestamp is greater than what it read, so greater than
\* whatever the disk has of its key.
LEMMA BeginWriteStep ==
  ASSUME EngineAssumption, EngineIInv, NEW k \in Keys, BeginWrite(k)
  PROVE  EngineIInv'
<1> DEFINE x == Get(k)
<1>1. /\ started /\ pc = "idle" /\ swrites < MaxWrites /\ swrites' = swrites + 1
      /\ cur' = [key |-> k, ts |-> x.ts + 1, val |-> swrites + 1] /\ pc' = "append"
      /\ UNCHANGED <<wal, files, started, mem, tables, fenced, fresh, sacked, sseen, sfaults>>
  BY DEF BeginWrite, disk
<1>2. /\ EngineShapes /\ LogShape /\ Placement /\ Progress
  BY DEF EngineIInv
<1>3. swrites \in Nat /\ Readable \subseteq Made /\ \A e \in Readable : e.ts \in 0..swrites
  BY EntriesAre
<1>4. \/ x = Nothing /\ \A e \in Readable : e.key # k
      \/ \E b \in Readable : /\ b.key = k /\ x = [ts |-> b.ts, val |-> b.val]
                            /\ \A e \in Readable : e.key = k => e.ts <= b.ts
  <2>1. x = Newest(Readable, k)
    BY DEF Get, Readable
  <2>2. IsNewest(Newest(Readable, k), Readable, k)
    BY <1>3, NewestIs
  <2> QED
    BY <2>1, <2>2 DEF IsNewest
<1> HIDE DEF x
<1>5. x.ts \in 0..swrites /\ \A e \in Readable : e.key = k => e.ts <= x.ts
  <2>1. CASE x = Nothing /\ \A e \in Readable : e.key # k
    BY <1>3, <2>1 DEF Nothing
  <2>2. CASE \E b \in Readable : /\ b.key = k /\ x = [ts |-> b.ts, val |-> b.val]
                               /\ \A e \in Readable : e.key = k => e.ts <= b.ts
    BY <1>3, <2>2
  <2> QED
    BY <1>4, <2>1, <2>2
<1>6. Made \subseteq Made' /\ Tables \subseteq Tables' /\ swrites' \in 0..MaxWrites
  <2>1. 1..swrites \subseteq 1..(swrites + 1) /\ 0..swrites \subseteq 0..(swrites + 1)
    BY <1>3
  <2>2. Made \subseteq Made'
    BY <1>1, <2>1 DEF Made
  <2>3. Tables \subseteq Tables'
    BY <1>1, <2>1, <2>2 DEF Tables
  <2> QED
    BY <1>1, <1>3, <2>2, <2>3 DEF EngineAssumption
<1>7. cur' \in Made'
  BY <1>1, <1>3, <1>5 DEF Made
<1>8. wal' \in Seq(Made' \cup {Torn})
  <2>1. wal \in Seq(Made \cup {Torn}) /\ Made \cup {Torn} \subseteq Made' \cup {Torn}
    BY <1>2, <1>6 DEF EngineShapes
  <2> QED
    BY <1>1, <2>1, SeqMonotonic
<1>9. EngineShapes'
  BY <1>1, <1>2, <1>6, <1>8 DEF EngineShapes, Steps
<1>10. OnDisk' = OnDisk /\ Readable' = Readable /\ Frames(wal)' = Frames(wal)
  BY <1>1 DEF OnDisk, Readable
<1>11. LogShape'
  BY <1>1, <1>2 DEF LogShape
<1>12. Placement'
  BY <1>1, <1>2, <1>10 DEF Placement
<1>13. ASSUME ~fenced, NEW e \in OnDisk, e.key = k PROVE e.ts < x.ts + 1
  <2>1. Covers(Readable, OnDisk)
    BY <1>1, <1>2, <1>13 DEF Placement
  <2>2. PICK f \in Readable : f = e \/ (f.key = e.key /\ f.ts > e.ts)
    BY <2>1 DEF Covers
  <2>3. e.ts \in Nat /\ f.ts \in Nat
    BY EntriesAre DEF Stamped
  <2>4. f.ts <= x.ts
    BY <1>5, <1>13, <2>2
  <2> QED
    BY <1>3, <1>5, <2>2, <2>3, <2>4
<1>14. Progress'
  BY <1>1, <1>2, <1>7, <1>10, <1>13 DEF Progress, Flushing, Merging
<1> QED
  BY <1>9, <1>11, <1>12, <1>14 DEF EngineIInv

\* A synced append.
LEMMA LogEntryStep ==
  ASSUME EngineAssumption, EngineIInv, LogEntry
  PROVE  EngineIInv'
<1>1. /\ pc = "append" /\ ~fenced /\ wal' = Append(wal, cur) /\ pc' = "insert"
      /\ UNCHANGED <<files, started, mem, tables, fenced, cur, fresh, sacked, sseen, swrites, sfaults>>
  BY DEF LogEntry
<1>2. /\ EngineShapes /\ LogShape /\ Placement /\ Progress
  BY DEF EngineIInv
<1>3. started /\ cur \in Made /\ cur # Torn /\ wal \in Seq(Made \cup {Torn})
  BY <1>1, <1>2, EntriesAre DEF Progress, EngineShapes
<1>4. Frames(wal)' = Frames(wal) \cup {cur}
  BY <1>1, <1>3, FramesAppend
<1>5. OnDisk' = OnDisk \cup {cur} /\ Readable' = Readable
  BY <1>1, <1>4 DEF OnDisk, Readable
<1>6. EngineShapes'
  <2>1. Made' = Made /\ Tables' = Tables
    BY <1>1 DEF Made, Tables
  <2>2. wal' \in Seq(Made \cup {Torn})
    BY <1>1, <1>3
  <2>3. pc' \in Steps
    BY <1>1 DEF Steps
  <2> QED
    BY <1>1, <1>2, <2>1, <2>2, <2>3 DEF EngineShapes
<1>7. LogShape'
  <2>1. Len(wal') = Len(wal) + 1 /\ wal'[Len(wal) + 1] = cur /\ \A i \in 1..Len(wal) : wal'[i] = wal[i]
    BY <1>1, <1>3
  <2>2. \A i \in 1..Len(wal) : wal[i] # Torn
    BY <1>1, <1>2, <1>3 DEF LogShape
  <2> QED
    BY <1>3, <2>1, <2>2 DEF LogShape
<1>8. OneValue(OnDisk')
  <2>1. OneValue(OnDisk) /\ \A e \in OnDisk : e.key = cur.key => e.ts < cur.ts
    BY <1>1, <1>2 DEF Placement, Progress
  <2>2. \A e \in OnDisk : e.ts \in Nat
    BY EntriesAre DEF Stamped
  <2>3. cur.ts \in Nat
    BY <1>3 DEF Made
  <2> QED
    BY <1>5, <2>1, <2>2, <2>3 DEF OneValue
<1>9. Covers(Readable \cup {cur}, OnDisk \cup {cur})
  BY <1>1, <1>2, <1>3 DEF Placement, Covers
<1>10. Placement'
  BY <1>1, <1>2, <1>3, <1>4, <1>5, <1>8, <1>9 DEF Placement
<1>11. Progress'
  BY <1>1, <1>2, <1>3, <1>4 DEF Progress, Flushing, Merging, Made
<1> QED
  BY <1>6, <1>7, <1>10, <1>11 DEF EngineIInv

\* A fenced log refuses the mutation.
LEMMA AppendRefusedStep ==
  ASSUME EngineAssumption, EngineIInv, AppendRefused
  PROVE  EngineIInv'
<1>1. /\ pc = "append" /\ fenced /\ pc' = "idle"
      /\ UNCHANGED <<wal, files, started, mem, tables, fenced, cur, fresh, sacked, sseen, swrites, sfaults>>
  BY DEF AppendRefused, disk
<1>2. /\ EngineShapes /\ LogShape /\ Placement /\ Progress
  BY DEF EngineIInv
<1>3. OnDisk' = OnDisk /\ Readable' = Readable
  BY <1>1 DEF OnDisk, Readable
<1>4. EngineShapes'
  BY <1>1, <1>2 DEF EngineShapes, Steps, Made, Tables
<1>5. LogShape' /\ Placement' /\ Progress'
  BY <1>1, <1>2, <1>3 DEF LogShape, Placement, Progress, Flushing, Merging
<1> QED
  BY <1>4, <1>5 DEF EngineIInv

\* A failed append leaves nothing, a cut frame or the entry, and fences the log.
LEMMA AppendFailsStep ==
  ASSUME EngineAssumption, EngineIInv, AppendFails
  PROVE  EngineIInv'
<1>1. /\ pc = "append" /\ ~fenced /\ fenced' = TRUE /\ pc' = "idle"
      /\ sfaults < MaxFaults /\ sfaults' = sfaults + 1
      /\ wal' \in {wal, Append(wal, Torn), Append(wal, cur)}
      /\ UNCHANGED <<files, started, mem, tables, cur, fresh, sacked, sseen, swrites>>
  BY DEF AppendFails
<1>2. /\ EngineShapes /\ LogShape /\ Placement /\ Progress
  BY DEF EngineIInv
<1>3. started /\ cur \in Made /\ cur # Torn /\ wal \in Seq(Made \cup {Torn}) /\ Len(wal) \in Nat
  BY <1>1, <1>2, EntriesAre DEF Progress, EngineShapes
<1>4. Frames(wal)' \in {Frames(wal), Frames(wal) \cup {cur}} /\ wal' \in Seq(Made \cup {Torn})
  <2>1. CASE wal' = wal
    BY <1>3, <2>1
  <2>2. CASE wal' = Append(wal, Torn)
    <3>1. Torn \in Made \cup {Torn}
      OBVIOUS
    <3>2. Frames(Append(wal, Torn)) = Frames(wal)
      BY <1>3, <3>1, FramesAppend
    <3> QED
      BY <1>3, <2>2, <3>1, <3>2
  <2>3. CASE wal' = Append(wal, cur)
    <3>1. cur \in Made \cup {Torn}
      BY <1>3
    <3>2. Frames(Append(wal, cur)) = Frames(wal) \cup {cur}
      BY <1>3, <3>1, FramesAppend
    <3> QED
      BY <1>3, <2>3, <3>1, <3>2
  <2> QED
    BY <1>1, <2>1, <2>2, <2>3
<1>5. OnDisk' \in {OnDisk, OnDisk \cup {cur}} /\ Readable' = Readable
  BY <1>1, <1>4 DEF OnDisk, Readable
<1>6. sfaults' \in 0..MaxFaults
  BY <1>1, <1>2 DEF EngineShapes, EngineAssumption
<1>7. EngineShapes'
  BY <1>1, <1>2, <1>4, <1>6 DEF EngineShapes, Steps, Made, Tables
<1>8. LogShape'
  <2>1. \A i \in 1..Len(wal) : wal[i] # Torn
    BY <1>1, <1>2, <1>3 DEF LogShape
  <2>2. CASE wal' = wal
    BY <1>1, <2>1, <2>2 DEF LogShape
  <2>3. ASSUME NEW x \in {Torn, cur}, wal' = Append(wal, x) PROVE LogShape'
    <3>1. Len(wal') = Len(wal) + 1 /\ \A i \in 1..Len(wal) : wal'[i] = wal[i]
      BY <1>3, <2>3
    <3> QED
      BY <1>1, <1>3, <2>1, <3>1 DEF LogShape
  <2> QED
    BY <1>1, <2>2, <2>3
<1>9. OneValue(OnDisk \cup {cur})
  <2>1. OneValue(OnDisk) /\ \A e \in OnDisk : e.key = cur.key => e.ts < cur.ts
    BY <1>1, <1>2 DEF Placement, Progress
  <2>2. \A e \in OnDisk : e.ts \in Nat
    BY EntriesAre DEF Stamped
  <2>3. cur.ts \in Nat
    BY <1>3 DEF Made
  <2> QED
    BY <2>1, <2>2, <2>3 DEF OneValue
<1>10. Placement'
  BY <1>1, <1>2, <1>3, <1>4, <1>5, <1>9 DEF Placement, OneValue
<1>11. Progress'
  BY <1>1, <1>2, <1>3 DEF Progress, Flushing, Merging
<1> QED
  BY <1>7, <1>8, <1>10, <1>11 DEF EngineIInv

\* An acknowledged entry that is covered is reached.
LEMMA ReachesAcknowledged ==
  ASSUME NEW E, Stamped(E), NEW read, NEW done \in [Keys -> Nat], Reaches(E, done, read),
         NEW x, x.key \in Keys, x.ts \in Nat, Covers(E, {x})
  PROVE  /\ Reaches(E, [done EXCEPT ![x.key] = x.ts], read)
         /\ [done EXCEPT ![x.key] = x.ts] \in [Keys -> Nat]
<1> DEFINE d == [done EXCEPT ![x.key] = x.ts]
<1>1. d \in [Keys -> Nat] /\ \A k \in Keys : d[k] = IF k = x.key THEN x.ts ELSE done[k]
  OBVIOUS
<1> HIDE DEF d
<1>2. PICK f \in E : f = x \/ (f.key = x.key /\ f.ts > x.ts)
  BY DEF Covers
<1>3. f.key = x.key /\ f.ts >= x.ts
  BY <1>2 DEF Stamped
<1>4. ASSUME NEW k \in Keys PROVE d[k] = 0 \/ \E e \in E : e.key = k /\ e.ts >= d[k]
  <2>1. CASE k = x.key
    BY <1>1, <1>3, <2>1
  <2>2. CASE k # x.key
    BY <1>1, <2>2 DEF Reaches
  <2> QED
    BY <2>1, <2>2
<1> QED
  BY <1>1, <1>4 DEF Reaches, d

\* The entry reaches the memtable.
LEMMA InsertStep ==
  ASSUME EngineAssumption, EngineIInv, NEW full \in BOOLEAN, Insert(full)
  PROVE  EngineIInv'
<1>1. /\ pc = "insert" /\ mem' = Inserted(mem, cur) /\ sseen' = Observed(mem', tables)
      /\ pc' = (IF full THEN "publish" ELSE "idle") /\ sacked' = (IF full THEN sacked ELSE Acknowledged)
      /\ UNCHANGED <<wal, files, started, tables, fenced, cur, fresh, swrites, sfaults>>
  BY DEF Insert, disk
<1>2. /\ EngineShapes /\ LogShape /\ Placement /\ Progress
  BY DEF EngineIInv
<1>3. /\ started /\ ~fenced /\ cur \in Made /\ cur \in Frames(wal) /\ mem \subseteq Frames(wal)
      /\ Covers(Readable \cup {cur}, OnDisk) /\ OneValue(OnDisk)
  BY <1>1, <1>2 DEF Progress, Placement
<1>4. /\ OnDisk \subseteq Made /\ Readable \subseteq OnDisk /\ Frames(wal) \subseteq Made
      /\ \A E \in SUBSET Made : Stamped(E) /\ \A e \in E : e.ts \in 0..swrites
      /\ swrites \in Nat
  BY EntriesAre
<1>5. mem \cup {cur} \subseteq Made /\ mem \cup {cur} \subseteq OnDisk
  BY <1>3, <1>4 DEF OnDisk
<1>6. Stamped(mem \cup {cur}) /\ OneValue(mem \cup {cur})
  BY <1>3, <1>4, <1>5 DEF OneValue
<1>7. /\ mem' \subseteq mem \cup {cur} /\ mem' # {} /\ Covers(mem', mem \cup {cur})
      /\ OnePerKey(mem')
  <2>1. OnePerKey(mem)
    BY <1>2 DEF EngineShapes
  <2> QED
    BY <1>1, <1>6, <2>1, InsertedIs
<1>8. /\ Readable' = mem' \cup EntriesOf(tables) /\ OnDisk' = OnDisk /\ Frames(wal)' = Frames(wal)
      /\ Made' = Made /\ Tables' = Tables
  BY <1>1 DEF Readable, OnDisk, Made, Tables
<1>9. Covers(Readable', Readable \cup {cur})
  BY <1>7, <1>8 DEF Covers, Readable
<1>10. Readable' \subseteq Made /\ Stamped(Readable') /\ Stamped(Readable \cup {cur}) /\ Stamped(Readable)
  <2>1. Readable' \subseteq Made /\ Readable \subseteq Made /\ Readable \cup {cur} \subseteq Made
    BY <1>4, <1>5, <1>7, <1>8 DEF Readable
  <2> QED
    BY <1>4, <2>1
<1>11. Covers(Readable', OnDisk') /\ Covers(Readable', Readable) /\ Covers(Readable', {cur})
  <2>1. Stamped(OnDisk)
    BY <1>4
  <2>2. Covers(Readable', OnDisk)
    BY <1>3, <1>9, <1>10, <2>1, CoversTrans
  <2>3. Covers(Readable', Readable) /\ Covers(Readable', {cur})
    BY <1>9 DEF Covers
  <2> QED
    BY <1>8, <2>2, <2>3
<1>12. sacked \in [Keys -> Nat] /\ sseen \in [Keys -> [ts : Nat, val : Nat]]
  BY <1>2 DEF EngineShapes
<1>13. Reaches(Readable', sacked, sseen)
  <2>1. Reaches(Readable, sacked, sseen)
    BY <1>3, RunningReaches
  <2> QED
    BY <1>10, <1>11, <1>12, <2>1, ReachesCovered
<1>14. Reaches(Readable', sacked, sseen') /\ sseen' \in [Keys -> [ts : Nat, val : Nat]]
  <2>1. \A e \in Readable' : e.ts \in 0..swrites /\ e.val \in Nat
    <3>1. \A e \in Made : e.val \in Nat
      BY <1>4 DEF Made
    <3> QED
      BY <1>4, <1>10, <3>1
  <2> DEFINE m == mem'
             E == Readable'
  <2>2. E = m \cup EntriesOf(tables) /\ sseen' = Observed(m, tables)
    BY <1>1, <1>8
  <2>3. (\A e \in E : e.ts \in 0..swrites /\ e.val \in Nat) /\ Reaches(E, sacked, sseen)
    BY <1>13, <2>1
  <2> HIDE DEF m, E
  <2>4. Reaches(E, sacked, sseen') /\ sseen' \in [Keys -> [ts : Nat, val : Nat]]
    BY <1>4, <1>12, <2>2, <2>3, ReachesObserved
  <2> QED
    BY <2>4 DEF E
<1>15. cur.key \in Keys /\ cur.key # "stop" /\ cur.ts \in Nat
  BY <1>3, <1>4 DEF Made, EngineAssumption
<1>16. Reaches(Readable', sacked', sseen') /\ sacked' \in [Keys -> Nat]
  <2>1. CASE full
    BY <1>1, <1>12, <1>14, <2>1
  <2>2. CASE ~full
    <3>1. sacked' = [sacked EXCEPT ![cur.key] = cur.ts]
      BY <1>1, <1>15, <2>2 DEF Acknowledged
    <3> QED
      BY <1>10, <1>11, <1>12, <1>14, <1>15, <3>1, ReachesAcknowledged
  <2> QED
    BY <2>1, <2>2
<1>17. EngineShapes'
  <2>1. mem' \subseteq Made
    BY <1>5, <1>7
  <2> QED
    BY <1>1, <1>2, <1>7, <1>8, <1>14, <1>16, <2>1 DEF EngineShapes, Steps
<1>18. LogShape'
  BY <1>1, <1>2 DEF LogShape
<1>19. Placement'
  <2>1. mem' \subseteq Frames(wal)
    BY <1>3, <1>7
  <2> QED
    BY <1>1, <1>2, <1>3, <1>8, <1>11, <1>16, <2>1 DEF Placement
<1>20. Progress'
  BY <1>1, <1>2, <1>3, <1>7, <1>8, <1>11 DEF Progress, Flushing, Merging
<1> QED
  BY <1>17, <1>18, <1>19, <1>20 DEF EngineIInv

\* A table with entries that the disk has already changes no set of entries.
LEMMA FilesGrow ==
  ASSUME EngineAssumption, EngineIInv, NEW t \in Tables, t.entries \subseteq OnDisk,
         files' \in {files, files \cup {t}}, wal' = wal, swrites' = swrites
  PROVE  /\ OnDisk' = OnDisk /\ files \subseteq files' /\ files' \subseteq Tables'
         /\ Made' = Made /\ Tables' = Tables
<1>1. Made' = Made /\ Tables' = Tables
  BY DEF Made, Tables
<1>2. files \subseteq Tables
  BY DEF EngineIInv, EngineShapes
<1>3. EntriesOf(files') \in {EntriesOf(files), EntriesOf(files) \cup t.entries}
  BY EntriesAdd
<1> QED
  BY <1>1, <1>2, <1>3 DEF OnDisk

\* The table of a flush.
LEMMA FlushTable ==
  ASSUME EngineAssumption, EngineIInv, mem # {}
  PROVE  Table(0, mem) \in Tables /\ Table(0, mem).entries = mem /\ mem \subseteq OnDisk
<1>1. mem \subseteq Made /\ mem \subseteq Frames(wal) /\ swrites \in 0..swrites
  BY EntriesAre DEF EngineIInv, EngineShapes, Placement
<1>2. Table(0, mem) = [level |-> 0, entries |-> mem, born |-> swrites]
  BY DEF Table
<1>3. mem \in (SUBSET Made) \ {{}} /\ 0 \in Nat
  BY <1>1
<1>4. Table(0, mem) \in Tables
  BY <1>1, <1>2, <1>3 DEF Tables
<1> QED
  BY <1>1, <1>2, <1>4 DEF OnDisk

\* The memtable is written to a table.
LEMMA PublishTableStep ==
  ASSUME EngineAssumption, EngineIInv, PublishTable
  PROVE  EngineIInv'
<1>1. /\ pc = "publish" /\ fresh' = [inputs |-> {}, table |-> Table(0, mem)]
      /\ files' = files \cup {Table(0, mem)} /\ pc' = "install"
      /\ UNCHANGED <<wal, started, mem, tables, fenced, cur, sacked, sseen, swrites, sfaults>>
  BY DEF PublishTable
<1>2. /\ EngineShapes /\ LogShape /\ Placement /\ Progress
  BY DEF EngineIInv
<1>3. started /\ mem # {}
  BY <1>1, <1>2 DEF Progress
<1>4. Table(0, mem) \in Tables /\ Table(0, mem).entries = mem /\ mem \subseteq OnDisk
  BY <1>3, FlushTable
<1>5. OnDisk' = OnDisk /\ files \subseteq files' /\ files' \subseteq Tables' /\ Made' = Made /\ Tables' = Tables
  BY <1>1, <1>4, FilesGrow
<1>6. Readable' = Readable
  BY <1>1 DEF Readable
<1>7. EngineShapes'
  BY <1>1, <1>2, <1>5 DEF EngineShapes, Steps
<1>8. LogShape' /\ Placement'
  BY <1>1, <1>2, <1>5, <1>6 DEF LogShape, Placement
<1>9. fresh'.table \in files' /\ fresh'.table.entries = mem'
  BY <1>1, <1>4
<1>10. Progress'
  BY <1>1, <1>2, <1>5, <1>6, <1>9 DEF Progress, Flushing, Merging
<1> QED
  BY <1>7, <1>8, <1>10 DEF EngineIInv

\* A mutation that ends leaves an idle or a stopped engine.
LEMMA EndsWell ==
  ASSUME EngineAssumption, EngineIInv, started, EngineShapes', LogShape', pc' = "idle",
         mem' \subseteq Frames(wal'), tables' \subseteq files', OneValue(OnDisk'), Readable' \subseteq Made',
         OnDisk' \subseteq Made', Made' = Made, swrites' = swrites, sseen' = sseen,
         Reaches(Readable', sacked', sseen'),
         started' /\ ~fenced' => Covers(Readable', OnDisk')
  PROVE  EngineIInv'
<1>1. Readable' \subseteq OnDisk'
  BY DEF Readable, OnDisk, EntriesOf
<1>2. Stamped(Readable') /\ Stamped(OnDisk')
  BY EntriesAre
<1>3. sacked' \in [Keys -> Nat] /\ sseen' \in [Keys -> [ts : Nat, val : Nat]]
  BY DEF EngineShapes
<1>4. Reaches(OnDisk', sacked', sseen')
  BY <1>1, <1>2, <1>3, CoversSubset, ReachesCovered
<1>5. Placement'
  BY <1>4 DEF Placement
<1>6. Progress'
  BY DEF Progress, Flushing, Merging
<1> QED
  BY <1>5, <1>6 DEF EngineIInv

\* Writing the table fails: it is there or not, the mutation ends.
LEMMA PublishFailsStep ==
  ASSUME EngineAssumption, EngineIInv, PublishFails
  PROVE  EngineIInv'
<1>1. /\ pc = "publish" /\ sfaults < MaxFaults /\ sfaults' = sfaults + 1
      /\ files' \in {files, files \cup {Table(0, mem)}}
      /\ pc' = "idle" /\ started' = (cur.key # "stop")
      /\ UNCHANGED <<wal, mem, tables, fenced, cur, sacked, sseen, swrites>>
  BY DEF PublishFails, Fails
<1>2. /\ EngineShapes /\ LogShape /\ Placement /\ Progress
  BY DEF EngineIInv
<1>3. started /\ mem # {}
  BY <1>1, <1>2 DEF Progress
<1>4. Table(0, mem) \in Tables /\ Table(0, mem).entries = mem /\ mem \subseteq OnDisk
  BY <1>3, FlushTable
<1>5. OnDisk' = OnDisk /\ files \subseteq files' /\ files' \subseteq Tables' /\ Made' = Made /\ Tables' = Tables
  BY <1>1, <1>4, FilesGrow
<1>6. Readable' = Readable /\ OnDisk \subseteq Made /\ Readable \subseteq Made
  BY <1>1, EntriesAre DEF Readable
<1>7. sfaults' \in 0..MaxFaults /\ started' \in BOOLEAN
  BY <1>1, <1>2 DEF EngineShapes, EngineAssumption
<1>8. EngineShapes'
  BY <1>1, <1>2, <1>5, <1>7 DEF EngineShapes, Steps
<1>9. LogShape'
  BY <1>1, <1>2, <1>3 DEF LogShape
<1>10. mem' \subseteq Frames(wal') /\ tables' \subseteq files' /\ OneValue(OnDisk')
  BY <1>1, <1>2, <1>5 DEF Placement
<1>11. Reaches(Readable', sacked', sseen')
  BY <1>1, <1>3, <1>6, RunningReaches
<1>12. ~fenced' => Covers(Readable', OnDisk')
  BY <1>1, <1>2, <1>3, <1>5, <1>6 DEF Placement
<1> QED
  BY <1>1, <1>3, <1>5, <1>6, <1>8, <1>9, <1>10, <1>11, <1>12, EndsWell

\* The table takes the place of the memtable.
LEMMA InstallStep ==
  ASSUME EngineAssumption, EngineIInv, Install
  PROVE  EngineIInv'
<1>1. /\ pc = "install" /\ tables' = tables \cup {fresh.table} /\ mem' = {} /\ pc' = "truncate"
      /\ UNCHANGED <<wal, files, started, fenced, cur, fresh, sacked, sseen, swrites, sfaults>>
  BY DEF Install, disk
<1>2. /\ EngineShapes /\ LogShape /\ Placement /\ Progress
  BY DEF EngineIInv
<1>3. started /\ fresh.table \in files /\ fresh.table.entries = mem
  BY <1>1, <1>2 DEF Progress
<1>4. EntriesOf(tables') = EntriesOf(tables) \cup mem
  BY <1>1, <1>3, EntriesAdd
<1>5. Readable' = Readable /\ OnDisk' = OnDisk /\ Made' = Made /\ Tables' = Tables
  BY <1>1, <1>4 DEF Readable, OnDisk, Made, Tables
<1>6. EngineShapes'
  BY <1>1, <1>2, <1>5 DEF EngineShapes, Steps, OnePerKey
<1>7. LogShape' /\ Placement'
  BY <1>1, <1>2, <1>3, <1>5 DEF LogShape, Placement
<1>8. Progress'
  BY <1>1, <1>2, <1>3, <1>5 DEF Progress, Flushing, Merging
<1> QED
  BY <1>6, <1>7, <1>8 DEF EngineIInv

\* Without a memtable the tables alone cover the disk: the log may go.
LEMMA LogDispensable ==
  ASSUME EngineAssumption, EngineIInv, started, ~fenced, mem = {}, pc # "insert"
  PROVE  /\ Frames(<<>>) = {} /\ EntriesOf(files) \subseteq OnDisk
         /\ Covers(Readable, EntriesOf(files)) /\ OneValue(EntriesOf(files))
<1>1. Covers(Readable, OnDisk) /\ OneValue(OnDisk)
  BY DEF EngineIInv, Placement
<1>2. EntriesOf(files) \subseteq OnDisk
  BY DEF OnDisk
<1> QED
  BY <1>1, <1>2 DEF Frames, Covers, OneValue

\* The log is emptied.
LEMMA TruncateStep ==
  ASSUME EngineAssumption, EngineIInv, Truncate
  PROVE  EngineIInv'
<1>1. /\ pc = "truncate" /\ ~fenced /\ wal' = <<>> /\ pc' = "compact"
      /\ UNCHANGED <<files, started, mem, tables, fenced, cur, fresh, sacked, sseen, swrites, sfaults>>
  BY DEF Truncate
<1>2. /\ EngineShapes /\ LogShape /\ Placement /\ Progress
  BY DEF EngineIInv
<1>3. started /\ mem = {}
  BY <1>1, <1>2 DEF Progress, Merging
<1>4. /\ Frames(<<>>) = {} /\ Covers(Readable, EntriesOf(files)) /\ OneValue(EntriesOf(files))
  BY <1>1, <1>3, LogDispensable
<1>5. Readable' = Readable /\ OnDisk' = EntriesOf(files) /\ Made' = Made /\ Tables' = Tables
  BY <1>1, <1>4 DEF Readable, OnDisk, Made, Tables
<1>6. EngineShapes'
  BY <1>1, <1>2, <1>5 DEF EngineShapes, Steps
<1>7. LogShape'
  BY <1>1 DEF LogShape
<1>8. Placement'
  BY <1>1, <1>2, <1>3, <1>4, <1>5 DEF Placement
<1>9. Progress'
  BY <1>1, <1>2, <1>3, <1>5 DEF Progress, Flushing, Merging
<1> QED
  BY <1>6, <1>7, <1>8, <1>9 DEF EngineIInv

\* Emptying the log fails, before or after its effect.
LEMMA TruncateFailsStep ==
  ASSUME EngineAssumption, EngineIInv, TruncateFails
  PROVE  EngineIInv'
<1>1. /\ pc = "truncate" /\ pc' = "idle" /\ started' = (cur.key # "stop")
      /\ \/ fenced /\ UNCHANGED <<wal, fenced, sfaults>>
         \/ /\ ~fenced /\ sfaults < MaxFaults /\ sfaults' = sfaults + 1
            /\ wal' \in {wal, <<>>} /\ fenced' = TRUE
      /\ UNCHANGED <<files, mem, tables, cur, sacked, sseen, swrites>>
  BY DEF TruncateFails, Fails
<1>2. /\ EngineShapes /\ LogShape /\ Placement /\ Progress
  BY DEF EngineIInv
<1>3. started /\ mem = {}
  BY <1>1, <1>2 DEF Progress, Merging
<1>4. Readable' = Readable /\ Made' = Made /\ Tables' = Tables
  BY <1>1 DEF Readable, Made, Tables
<1>5. OnDisk' \in {OnDisk, EntriesOf(files)} /\ OneValue(OnDisk') /\ OnDisk' \subseteq OnDisk
  <2>1. CASE wal' = wal
    <3>1. OnDisk' = OnDisk
      BY <1>1, <2>1 DEF OnDisk
    <3> QED
      BY <1>2, <3>1 DEF Placement
  <2>2. CASE ~fenced /\ wal' = <<>>
    <3>1. /\ Frames(<<>>) = {} /\ EntriesOf(files) \subseteq OnDisk /\ OneValue(EntriesOf(files))
      BY <1>1, <1>3, <2>2, LogDispensable
    <3>2. OnDisk' = EntriesOf(files)
      BY <1>1, <2>2, <3>1 DEF OnDisk
    <3> QED
      BY <3>1, <3>2
  <2> QED
    BY <1>1, <2>1, <2>2
<1>6. sfaults' \in 0..MaxFaults /\ started' \in BOOLEAN /\ fenced' = TRUE
  BY <1>1, <1>2 DEF EngineShapes, EngineAssumption
<1>7. wal' \in Seq(Made \cup {Torn})
  <2>1. wal \in Seq(Made \cup {Torn}) /\ <<>> \in Seq(Made \cup {Torn})
    BY <1>2 DEF EngineShapes
  <2> QED
    BY <1>1, <2>1
<1>8. EngineShapes'
  BY <1>1, <1>2, <1>4, <1>6, <1>7 DEF EngineShapes, Steps
<1>9. LogShape'
  <2>1. CASE wal' = wal
    BY <1>2, <1>6, <2>1 DEF LogShape
  <2>2. CASE wal' = <<>>
    BY <2>2 DEF LogShape
  <2> QED
    BY <1>1, <2>1, <2>2
<1>10. mem' \subseteq Frames(wal') /\ tables' \subseteq files'
  BY <1>1, <1>2, <1>3 DEF Placement
<1>11. Reaches(Readable', sacked', sseen')
  BY <1>1, <1>3, <1>4, RunningReaches
<1>12. OnDisk' \subseteq Made' /\ Readable' \subseteq Made'
  BY <1>4, <1>5, EntriesAre
<1> QED
  BY <1>1, <1>3, <1>4, <1>5, <1>6, <1>8, <1>9, <1>10, <1>11, <1>12, EndsWell

\* The table of a compaction.
LEMMA CompactedIs ==
  ASSUME EngineAssumption, EngineIInv, FullLevels # {}, NEW l, l = Min(FullLevels)
  PROVE  /\ Level(tables, l) \subseteq Tables
         /\ Compacted(l) \in Tables /\ Compacted(l).entries \subseteq OnDisk
         /\ Compacted(l) \notin Level(tables, l)
         /\ Covers(Compacted(l).entries, EntriesOf(Level(tables, l)))
<1> DEFINE E == EntriesOf(Level(tables, l))
<1>1. /\ tables \subseteq Tables /\ tables \subseteq files
      /\ \A t \in Tables : t.level \in Nat /\ t.entries # {} /\ t.entries \subseteq Made
  BY DEF EngineIInv, EngineShapes, Placement, Tables
<1>2. FullLevels \subseteq Nat /\ \A x \in FullLevels : \E t \in tables : t.level = x
  BY <1>1 DEF FullLevels
<1>3. l \in FullLevels
  <2>1. \E x \in FullLevels : \A y \in FullLevels : x <= y
    BY <1>2, MinNat
  <2> QED
    BY <2>1 DEF Min
<1>4. PICK t \in tables : t.level = l
  BY <1>2, <1>3
<1>5. t \in Level(tables, l) /\ l \in Nat
  BY <1>2, <1>3, <1>4 DEF Level
<1>6. Level(tables, l) \subseteq tables /\ \A u \in Level(tables, l) : u.level = l
  BY DEF Level
<1>7. E # {} /\ E \subseteq EntriesOf(tables)
  BY <1>1, <1>5, <1>6 DEF EntriesOf
<1>8. E \subseteq Made /\ E \subseteq OnDisk /\ swrites \in Nat /\ \A e \in E : e.ts \in 0..swrites
  <2>1. E \subseteq OnDisk /\ OnDisk \subseteq Made
    BY <1>7, EntriesAre DEF Readable
  <2> HIDE DEF E
  <2> QED
    BY <2>1, EntriesAre
<1> HIDE DEF E
<1>9. MergedEntries(E) \subseteq E /\ Covers(MergedEntries(E), E) /\ MergedEntries(E) # {}
  BY <1>7, <1>8, MergedIs
<1>10. Compacted(l) = [level |-> l + 1, entries |-> MergedEntries(E), born |-> swrites]
  BY DEF Compacted, Table, E
<1>11. MergedEntries(E) \in (SUBSET Made) \ {{}} /\ l + 1 \in Nat /\ swrites \in 0..swrites
  BY <1>5, <1>8, <1>9
<1>12. Compacted(l) \in Tables
  BY <1>10, <1>11 DEF Tables
<1>13. Compacted(l) \notin Level(tables, l)
  <2>1. Compacted(l).level = l + 1 /\ l + 1 # l
    BY <1>5, <1>10
  <2> QED
    BY <1>6, <2>1
<1>14. Compacted(l).entries = MergedEntries(E)
  BY <1>10
<1> QED
  BY <1>1, <1>6, <1>8, <1>9, <1>12, <1>13, <1>14 DEF E

\* The merge of a level is published.
LEMMA CompactStep ==
  ASSUME EngineAssumption, EngineIInv, Compact
  PROVE  EngineIInv'
<1>0. PICK l : l = Min(FullLevels)
  OBVIOUS
<1>1. /\ pc = "compact" /\ FullLevels # {} /\ pc' = "replace"
      /\ fresh' = [inputs |-> Level(tables, l), table |-> Compacted(l)]
      /\ files' = files \cup {Compacted(l)}
      /\ UNCHANGED <<wal, started, mem, tables, fenced, cur, sacked, sseen, swrites, sfaults>>
  BY <1>0 DEF Compact
<1>2. /\ EngineShapes /\ LogShape /\ Placement /\ Progress
  BY DEF EngineIInv
<1>3. started /\ mem = {} /\ ~fenced
  BY <1>1, <1>2 DEF Progress
<1>4. /\ Level(tables, l) \subseteq Tables
      /\ Compacted(l) \in Tables /\ Compacted(l).entries \subseteq OnDisk
      /\ Compacted(l) \notin Level(tables, l)
      /\ Covers(Compacted(l).entries, EntriesOf(Level(tables, l)))
  BY <1>0, <1>1, CompactedIs
<1>5. OnDisk' = OnDisk /\ files \subseteq files' /\ files' \subseteq Tables' /\ Made' = Made /\ Tables' = Tables
  BY <1>1, <1>4, FilesGrow
<1>6. Readable' = Readable
  BY <1>1 DEF Readable
<1>7. EngineShapes'
  BY <1>1, <1>2, <1>5 DEF EngineShapes, Steps
<1>8. LogShape' /\ Placement'
  BY <1>1, <1>2, <1>5, <1>6 DEF LogShape, Placement
<1>9. /\ fresh' = [inputs |-> fresh'.inputs, table |-> fresh'.table]
      /\ fresh'.table \in files' /\ fresh'.inputs \subseteq Tables' /\ fresh'.table \notin fresh'.inputs
      /\ Covers(fresh'.table.entries, EntriesOf(fresh'.inputs))
  BY <1>1, <1>4, <1>5
<1>10. Progress'
  BY <1>1, <1>2, <1>3, <1>5, <1>6, <1>9 DEF Progress, Flushing, Merging
<1> QED
  BY <1>7, <1>8, <1>10 DEF EngineIInv

\* The merge fails: its table is there or not, the mutation ends.
LEMMA CompactFailsStep ==
  ASSUME EngineAssumption, EngineIInv, CompactFails
  PROVE  EngineIInv'
<1>0. PICK l : l = Min(FullLevels)
  OBVIOUS
<1>1. /\ pc = "compact" /\ FullLevels # {} /\ sfaults < MaxFaults /\ sfaults' = sfaults + 1
      /\ files' \in {files, files \cup {Compacted(l)}}
      /\ pc' = "idle" /\ started' = (cur.key # "stop")
      /\ UNCHANGED <<wal, mem, tables, fenced, cur, sacked, sseen, swrites>>
  BY <1>0 DEF CompactFails, Fails
<1>2. /\ EngineShapes /\ LogShape /\ Placement /\ Progress
  BY DEF EngineIInv
<1>3. started
  BY <1>1, <1>2 DEF Progress
<1>4. Compacted(l) \in Tables /\ Compacted(l).entries \subseteq OnDisk
  BY <1>0, <1>1, CompactedIs
<1>5. OnDisk' = OnDisk /\ files \subseteq files' /\ files' \subseteq Tables' /\ Made' = Made /\ Tables' = Tables
  BY <1>1, <1>4, FilesGrow
<1>6. Readable' = Readable /\ OnDisk \subseteq Made /\ Readable \subseteq Made
  BY <1>1, EntriesAre DEF Readable
<1>7. sfaults' \in 0..MaxFaults /\ started' \in BOOLEAN
  BY <1>1, <1>2 DEF EngineShapes, EngineAssumption
<1>8. EngineShapes'
  BY <1>1, <1>2, <1>5, <1>7 DEF EngineShapes, Steps
<1>9. LogShape'
  BY <1>1, <1>2, <1>3 DEF LogShape
<1>10. mem' \subseteq Frames(wal') /\ tables' \subseteq files' /\ OneValue(OnDisk')
  BY <1>1, <1>2, <1>5 DEF Placement
<1>11. Reaches(Readable', sacked', sseen')
  BY <1>1, <1>3, <1>6, RunningReaches
<1>12. ~fenced' => Covers(Readable', OnDisk')
  BY <1>1, <1>2, <1>3, <1>5, <1>6 DEF Placement
<1> QED
  BY <1>1, <1>3, <1>5, <1>6, <1>8, <1>9, <1>10, <1>11, <1>12, EndsWell

\* The readers turn from the inputs of the merge to its table.
LEMMA ReplaceTablesStep ==
  ASSUME EngineAssumption, EngineIInv, ReplaceTables
  PROVE  EngineIInv'
<1>1. /\ pc = "replace" /\ tables' = (tables \ fresh.inputs) \cup {fresh.table} /\ pc' = "unlink"
      /\ UNCHANGED <<wal, files, started, mem, fenced, cur, fresh, sacked, sseen, swrites, sfaults>>
  BY DEF ReplaceTables, disk
<1>2. /\ EngineShapes /\ LogShape /\ Placement /\ Progress
  BY DEF EngineIInv
<1>3. /\ started /\ mem = {} /\ ~fenced
      /\ fresh = [inputs |-> fresh.inputs, table |-> fresh.table]
      /\ fresh.table \in files /\ fresh.inputs \subseteq Tables /\ fresh.table \notin fresh.inputs
      /\ Covers(fresh.table.entries, EntriesOf(fresh.inputs))
      /\ cur.key = "stop" \/ (cur \in Made /\ Covers(Readable, {cur}))
  BY <1>1, <1>2 DEF Progress, Merging, Flushing
<1>4. OnDisk' = OnDisk /\ Made' = Made /\ Tables' = Tables /\ Frames(wal)' = Frames(wal)
  BY <1>1 DEF OnDisk, Made, Tables
<1>5. tables' \subseteq files /\ tables \subseteq files
  BY <1>1, <1>2, <1>3 DEF Placement
<1>6. /\ Readable' = EntriesOf(tables') /\ Readable = EntriesOf(tables)
  BY <1>1, <1>3 DEF Readable
<1>7. Covers(Readable', Readable)
  <2> SUFFICES ASSUME NEW e \in Readable PROVE \E f \in Readable' : f = e \/ (f.key = e.key /\ f.ts > e.ts)
    BY DEF Covers
  <2>1. PICK t \in tables : e \in t.entries
    BY <1>6 DEF EntriesOf
  <2>2. CASE t \in fresh.inputs
    <3>1. e \in EntriesOf(fresh.inputs)
      BY <2>1, <2>2 DEF EntriesOf
    <3>2. fresh.table.entries \subseteq Readable'
      BY <1>1, <1>6 DEF EntriesOf
    <3> QED
      BY <1>3, <3>1, <3>2 DEF Covers
  <2>3. CASE t \notin fresh.inputs
    BY <1>1, <1>6, <2>1, <2>3 DEF EntriesOf
  <2> QED
    BY <2>2, <2>3
<1>8. Readable' \subseteq OnDisk
  BY <1>5, <1>6 DEF EntriesOf, OnDisk
<1>9. OnDisk \subseteq Made /\ Readable \subseteq OnDisk /\ \A E \in SUBSET Made : Stamped(E)
  BY EntriesAre
<1>10. Stamped(Readable') /\ Stamped(Readable) /\ Stamped(OnDisk)
  BY <1>8, <1>9
<1>11. Covers(Readable', OnDisk)
  <2>1. Covers(Readable, OnDisk)
    BY <1>1, <1>2, <1>3 DEF Placement
  <2> QED
    BY <1>7, <1>10, <2>1, CoversTrans
<1>12. Reaches(Readable', sacked, sseen)
  <2>1. Reaches(Readable, sacked, sseen) /\ sacked \in [Keys -> Nat] /\ sseen \in [Keys -> [ts : Nat, val : Nat]]
    BY <1>2, <1>3, RunningReaches DEF EngineShapes
  <2> QED
    BY <1>7, <1>10, <2>1, ReachesCovered
<1>13. cur.key = "stop" \/ (cur \in Made /\ Covers(Readable', {cur}))
  <2>1. ASSUME cur \in Made, Covers(Readable, {cur}) PROVE Covers(Readable', {cur})
    <3>1. {cur} \in SUBSET Made
      BY <2>1
    <3>2. Stamped({cur})
      BY <1>9, <3>1
    <3> QED
      BY <1>7, <1>10, <2>1, <3>2, CoversTrans
  <2> QED
    BY <1>3, <2>1
<1>14. EngineShapes'
  BY <1>1, <1>2, <1>4 DEF EngineShapes, Steps
<1>15. LogShape'
  BY <1>1, <1>2 DEF LogShape
<1>16. Placement'
  BY <1>1, <1>2, <1>3, <1>4, <1>5, <1>11, <1>12 DEF Placement
<1>17. fresh.table \in tables' /\ fresh.inputs \cap tables' = {}
  BY <1>1, <1>3
<1>18. Progress'
  BY <1>1, <1>3, <1>4, <1>13, <1>17 DEF Progress, Flushing, Merging
<1> QED
  BY <1>14, <1>15, <1>16, <1>18 DEF EngineIInv

\* An input of the merge is removed, or stays.
LEMMA UnlinkStep ==
  ASSUME EngineAssumption, EngineIInv, NEW t, NEW removed \in BOOLEAN, Unlink(t, removed)
  PROVE  EngineIInv'
<1>1. /\ pc = "unlink" /\ t \in fresh.inputs /\ (removed \/ sfaults < MaxFaults)
      /\ sfaults' = (IF removed THEN sfaults ELSE sfaults + 1)
      /\ files' = (IF removed THEN files \ {t} ELSE files)
      /\ fresh' = [fresh EXCEPT !.inputs = fresh.inputs \ {t}]
      /\ UNCHANGED <<wal, started, mem, tables, fenced, pc, cur, sacked, sseen, swrites>>
  BY DEF Unlink
<1>2. /\ EngineShapes /\ LogShape /\ Placement /\ Progress
  BY DEF EngineIInv
<1>3. /\ started /\ mem = {} /\ ~fenced
      /\ fresh = [inputs |-> fresh.inputs, table |-> fresh.table]
      /\ fresh.table \in files /\ fresh.inputs \subseteq Tables /\ fresh.table \notin fresh.inputs
      /\ Covers(fresh.table.entries, EntriesOf(fresh.inputs))
      /\ fresh.table \in tables /\ fresh.inputs \cap tables = {}
      /\ cur.key = "stop" \/ (cur \in Made /\ Covers(Readable, {cur}))
  BY <1>1, <1>2 DEF Progress, Merging, Flushing
<1>4. fresh' = [inputs |-> fresh.inputs \ {t}, table |-> fresh.table]
  <2>1. PICK i, u : fresh = [inputs |-> i, table |-> u]
    BY <1>3
  <2> QED
    BY <1>1, <2>1
<1>5. fresh'.inputs = fresh.inputs \ {t} /\ fresh'.table = fresh.table
  BY <1>4
<1>6. Made' = Made /\ Tables' = Tables /\ Readable' = Readable
  BY <1>1 DEF Made, Tables, Readable
<1>7. files' \subseteq files /\ tables' \subseteq files' /\ fresh.table \in files'
  BY <1>1, <1>2, <1>3 DEF Placement
<1>8. OnDisk' \subseteq OnDisk
  BY <1>1, <1>7 DEF OnDisk, EntriesOf
<1>9. Covers(Readable, OnDisk') /\ OneValue(OnDisk')
  <2>1. Covers(Readable, OnDisk) /\ OneValue(OnDisk)
    BY <1>1, <1>2, <1>3 DEF Placement
  <2> QED
    BY <1>8, <2>1 DEF Covers, OneValue
<1>10. sfaults' \in 0..MaxFaults
  BY <1>1, <1>2 DEF EngineShapes, EngineAssumption
<1>11. EngineShapes'
  BY <1>1, <1>2, <1>6, <1>7, <1>10 DEF EngineShapes
<1>12. LogShape'
  BY <1>1, <1>2 DEF LogShape
<1>13. Placement'
  BY <1>1, <1>2, <1>3, <1>6, <1>7, <1>9 DEF Placement
<1>14. Covers(fresh'.table.entries, EntriesOf(fresh'.inputs))
  <2>1. EntriesOf(fresh'.inputs) \subseteq EntriesOf(fresh.inputs)
    BY <1>5 DEF EntriesOf
  <2> QED
    BY <1>3, <1>5, <2>1 DEF Covers
<1>15. /\ fresh' = [inputs |-> fresh'.inputs, table |-> fresh'.table]
       /\ fresh'.table \in files' /\ fresh'.inputs \subseteq Tables' /\ fresh'.table \notin fresh'.inputs
       /\ fresh'.table \in tables' /\ fresh'.inputs \cap tables' = {}
  BY <1>1, <1>3, <1>4, <1>5, <1>6, <1>7
<1>16. Progress'
  BY <1>1, <1>3, <1>6, <1>14, <1>15 DEF Progress, Flushing, Merging
<1> QED
  BY <1>11, <1>12, <1>13, <1>16 DEF EngineIInv

\* The mutation returns, its entry covered by what the readers use.
LEMMA FinishStep ==
  ASSUME EngineAssumption, EngineIInv, Finish
  PROVE  EngineIInv'
<1>1. /\ pc \in {"compact", "unlink"} /\ pc' = "idle" /\ sacked' = Acknowledged
      /\ started' = (cur.key # "stop")
      /\ UNCHANGED <<wal, files, mem, tables, fenced, cur, sseen, swrites, sfaults>>
  BY DEF Finish, disk
<1>2. /\ EngineShapes /\ LogShape /\ Placement /\ Progress
  BY DEF EngineIInv
<1>3. started /\ (cur.key = "stop" \/ (cur \in Made /\ Covers(Readable, {cur})))
  BY <1>1, <1>2 DEF Progress, Flushing
<1>4. OnDisk' = OnDisk /\ Readable' = Readable /\ Made' = Made /\ Tables' = Tables
  BY <1>1 DEF OnDisk, Readable, Made, Tables
<1>5. /\ OnDisk \subseteq Made /\ Readable \subseteq Made /\ Stamped(Readable) /\ swrites \in Nat
  <2>1. OnDisk \subseteq Made /\ Readable \subseteq Made
    BY EntriesAre
  <2> QED
    BY <2>1, EntriesAre
<1>6. Reaches(Readable, sacked', sseen) /\ sacked' \in [Keys -> Nat]
  <2>1. Reaches(Readable, sacked, sseen) /\ sacked \in [Keys -> Nat]
    BY <1>2, <1>3, RunningReaches DEF EngineShapes
  <2>2. CASE cur.key = "stop"
    BY <1>1, <2>1, <2>2 DEF Acknowledged
  <2>3. CASE cur.key # "stop"
    <3>1. cur.key \in Keys /\ cur.ts \in Nat /\ Covers(Readable, {cur})
      BY <1>3, <1>5, <2>3 DEF Made
    <3>2. sacked' = [sacked EXCEPT ![cur.key] = cur.ts]
      BY <1>1, <2>3 DEF Acknowledged
    <3> QED
      BY <1>5, <2>1, <3>1, <3>2, ReachesAcknowledged
  <2> QED
    BY <2>2, <2>3
<1>7. EngineShapes'
  BY <1>1, <1>2, <1>4, <1>6 DEF EngineShapes, Steps
<1>8. LogShape'
  BY <1>1, <1>2, <1>3 DEF LogShape
<1>9. mem' \subseteq Frames(wal') /\ tables' \subseteq files' /\ OneValue(OnDisk')
  BY <1>1, <1>2, <1>4 DEF Placement
<1>10. ~fenced' => Covers(Readable', OnDisk')
  BY <1>1, <1>2, <1>3, <1>4 DEF Placement
<1>11. Reaches(Readable', sacked', sseen')
  BY <1>1, <1>4, <1>6
<1> QED
  BY <1>1, <1>3, <1>4, <1>5, <1>7, <1>8, <1>9, <1>10, <1>11, EndsWell

\* A shutdown: at once without a memtable, otherwise after a flush.
LEMMA StopStep ==
  ASSUME EngineAssumption, EngineIInv, Stop
  PROVE  EngineIInv'
<1>1. /\ started /\ pc = "idle" /\ cur' = [key |-> "stop", ts |-> 0, val |-> 0]
      /\ IF mem = {} THEN pc' = "idle" /\ started' = FALSE ELSE pc' = "publish" /\ started' = started
      /\ UNCHANGED <<wal, files, mem, tables, fenced, fresh, sacked, sseen, swrites, sfaults>>
  BY DEF Stop, disk
<1>2. /\ EngineShapes /\ LogShape /\ Placement /\ Progress
  BY DEF EngineIInv
<1>3. OnDisk' = OnDisk /\ Readable' = Readable /\ Made' = Made /\ Tables' = Tables
  BY <1>1 DEF OnDisk, Readable, Made, Tables
<1>4. Reaches(Readable, sacked, sseen) /\ Reaches(OnDisk, sacked, sseen)
  BY <1>1, RunningReaches
<1>5. EngineShapes'
  BY <1>1, <1>2, <1>3 DEF EngineShapes, Steps
<1>6. LogShape'
  BY <1>1, <1>2 DEF LogShape
<1>7. Placement'
  BY <1>1, <1>2, <1>3, <1>4 DEF Placement
<1>8. cur'.key = "stop"
  BY <1>1
<1>9. Progress'
  BY <1>1, <1>8 DEF Progress, Flushing, Merging
<1> QED
  BY <1>5, <1>6, <1>7, <1>9 DEF EngineIInv

\* A crash loses the memory and may cut an append.
LEMMA CrashStep ==
  ASSUME EngineAssumption, EngineIInv, Crash
  PROVE  EngineIInv'
<1>1. /\ started /\ sfaults < MaxFaults /\ sfaults' = sfaults + 1 /\ started' = FALSE
      /\ mem' = {} /\ tables' = {} /\ fenced' = FALSE /\ pc' = "idle"
      /\ wal' = wal \/ (pc = "append" /\ ~fenced /\ wal' = Append(wal, Torn))
      /\ UNCHANGED <<files, cur, sacked, sseen, swrites>>
  BY DEF Crash
<1>2. /\ EngineShapes /\ LogShape /\ Placement /\ Progress
  BY DEF EngineIInv
<1>3. wal \in Seq(Made \cup {Torn}) /\ Len(wal) \in Nat /\ Torn \in Made \cup {Torn}
  BY <1>2 DEF EngineShapes
<1>4. Frames(wal)' = Frames(wal) /\ wal' \in Seq(Made \cup {Torn})
  <2>1. CASE wal' = wal
    BY <1>3, <2>1
  <2>2. CASE wal' = Append(wal, Torn)
    <3>1. Frames(Append(wal, Torn)) = Frames(wal)
      BY <1>3, FramesAppend
    <3> QED
      BY <1>3, <2>2, <3>1
  <2> QED
    BY <1>1, <2>1, <2>2
<1>5. OnDisk' = OnDisk /\ Made' = Made /\ Tables' = Tables
  BY <1>1, <1>4 DEF OnDisk, Made, Tables
<1>6. sfaults' \in 0..MaxFaults
  BY <1>1, <1>2 DEF EngineShapes, EngineAssumption
<1>7. EngineShapes'
  BY <1>1, <1>2, <1>4, <1>5, <1>6 DEF EngineShapes, Steps, OnePerKey
<1>8. LogShape'
  <2>1. CASE wal' = wal
    BY <1>1, <1>2, <2>1 DEF LogShape
  <2>2. CASE ~fenced /\ wal' = Append(wal, Torn)
    <3>1. \A i \in 1..Len(wal) : wal[i] # Torn
      BY <1>1, <1>2, <2>2 DEF LogShape
    <3>2. Len(wal') = Len(wal) + 1 /\ \A i \in 1..Len(wal) : wal'[i] = wal[i]
      BY <1>3, <2>2
    <3> QED
      BY <1>1, <1>3, <3>1, <3>2 DEF LogShape
  <2> QED
    BY <1>1, <2>1, <2>2
<1>9. Reaches(OnDisk, sacked, sseen)
  BY <1>1, RunningReaches
<1>10. Placement'
  BY <1>1, <1>2, <1>5, <1>9 DEF Placement
<1>11. Progress'
  BY <1>1 DEF Progress, Flushing, Merging
<1> QED
  BY <1>7, <1>8, <1>10, <1>11 DEF EngineIInv

\* What a replay of the log finds, whatever part of it the memtable m already has.
LEMMA ReplayFinds ==
  ASSUME EngineAssumption, EngineIInv, NEW m, m \subseteq Frames(wal)
  PROVE  /\ CompleteLog(wal) \in Seq(Made) /\ Frames(CompleteLog(wal)) = Frames(wal)
         /\ Replayed(m, wal) \subseteq Frames(wal) /\ Covers(Replayed(m, wal), Frames(wal))
         /\ OnePerKey(m) => OnePerKey(Replayed(m, wal))
<1> DEFINE L == {CompleteLog(wal)[i] : i \in 1..Len(CompleteLog(wal))}
<1>1. /\ wal \in Seq(Made \cup {Torn}) /\ \A i \in 1..Len(wal) : wal[i] = Torn => i = Len(wal)
      /\ OneValue(OnDisk)
  BY DEF EngineIInv, EngineShapes, LogShape, Placement
<1>2. Torn \notin Made /\ Frames(wal) \subseteq Made /\ Frames(wal) \subseteq OnDisk
  BY EntriesAre DEF OnDisk
<1>3. CompleteLog(wal) \in Seq(Made) /\ Frames(CompleteLog(wal)) = Frames(wal) /\ Frames(wal) = L
  BY <1>1, <1>2, CompleteLogIs
<1> HIDE DEF L
<1>4. m \cup L = Frames(wal) /\ Stamped(Frames(wal))
  BY <1>2, <1>3, EntriesAre
<1>5. OneValue(Frames(wal))
  BY <1>1, <1>2 DEF OneValue
<1>6. Stamped(m \cup L) /\ OneValue(m \cup L)
  BY <1>4, <1>5
<1>7. /\ Replayed(m, wal) \subseteq m \cup L /\ Covers(Replayed(m, wal), m \cup L)
      /\ OnePerKey(m) => OnePerKey(Replayed(m, wal))
  BY <1>3, <1>6, ReplayedIs DEF L
<1> QED
  BY <1>3, <1>4, <1>7

\* Recovery: the tables of the directory and a replay of the log.
LEMMA StartStep ==
  ASSUME EngineAssumption, EngineIInv, Start
  PROVE  EngineIInv'
<1>1. /\ ~started /\ tables' = files /\ mem' = Replayed(mem, wal) /\ wal' = CompleteLog(wal)
      /\ fenced' = FALSE /\ started' = TRUE /\ sseen' = Observed(mem', tables')
      /\ UNCHANGED <<files, pc, cur, fresh, sacked, swrites, sfaults>>
  BY DEF Start
<1>2. /\ EngineShapes /\ LogShape /\ Placement /\ Progress
  BY DEF EngineIInv
<1>3. pc = "idle" /\ mem \subseteq Frames(wal) /\ OneValue(OnDisk) /\ Reaches(OnDisk, sacked, sseen)
  BY <1>1, <1>2 DEF Progress, Placement
<1>4. sacked \in [Keys -> Nat] /\ sseen \in [Keys -> [ts : Nat, val : Nat]] /\ OnePerKey(mem)
  BY <1>2 DEF EngineShapes
<1>5. /\ wal' \in Seq(Made) /\ Frames(wal') = Frames(wal)
      /\ mem' \subseteq Frames(wal) /\ Covers(mem', Frames(wal)) /\ OnePerKey(mem')
  BY <1>1, <1>3, <1>4, ReplayFinds
<1>6. /\ Torn \notin Made /\ OnDisk \subseteq Made /\ Frames(wal) \subseteq Made /\ swrites \in Nat
      /\ \A E \in SUBSET Made : Stamped(E) /\ \A e \in E : e.ts \in 0..swrites
  BY EntriesAre
<1>7. Made' = Made /\ Tables' = Tables /\ OnDisk' = OnDisk /\ Readable' = mem' \cup EntriesOf(files)
  BY <1>1, <1>5 DEF Made, Tables, OnDisk, Readable
<1>8. Readable' \subseteq Made /\ Covers(Readable', OnDisk)
  BY <1>5, <1>6, <1>7 DEF OnDisk, Covers
<1>9. Stamped(Readable') /\ Stamped(OnDisk)
  BY <1>6, <1>8
<1>10. Reaches(Readable', sacked, sseen)
  BY <1>3, <1>4, <1>8, <1>9, ReachesCovered
<1>11. Reaches(Readable', sacked, sseen') /\ sseen' \in [Keys -> [ts : Nat, val : Nat]]
  <2>1. \A e \in Made : e.val \in Nat
    BY <1>6 DEF Made
  <2>2. PICK m, E : m = mem' /\ E = Readable'
    OBVIOUS
  <2>3. /\ E = m \cup EntriesOf(files) /\ sseen' = Observed(m, files)
        /\ \A e \in E : e.ts \in 0..swrites /\ e.val \in Nat
        /\ Reaches(E, sacked, sseen)
    BY <1>1, <1>6, <1>7, <1>8, <1>10, <2>1, <2>2
  <2>4. Reaches(E, sacked, sseen') /\ sseen' \in [Keys -> [ts : Nat, val : Nat]]
    BY <1>4, <1>6, <2>3, ReachesObserved
  <2> QED
    BY <2>2, <2>4
<1>12. EngineShapes'
  <2>1. wal' \in Seq(Made \cup {Torn}) /\ mem' \subseteq Made
    BY <1>5, <1>6
  <2> QED
    BY <1>1, <1>2, <1>5, <1>7, <1>11, <2>1 DEF EngineShapes
<1>13. LogShape'
  <2>1. \A i \in 1..Len(wal') : wal'[i] # Torn
    BY <1>5, <1>6
  <2> QED
    BY <2>1 DEF LogShape
<1>14. Placement'
  BY <1>1, <1>3, <1>5, <1>7, <1>8, <1>11 DEF Placement
<1>15. Progress'
  BY <1>1, <1>3 DEF Progress, Flushing, Merging
<1> QED
  BY <1>12, <1>13, <1>14, <1>15 DEF EngineIInv

\* Nothing changes.
LEMMA EngineStutter ==
  ASSUME EngineIInv, UNCHANGED engineVars
  PROVE  EngineIInv'
<1>1. /\ UNCHANGED <<wal, files, started, mem, tables, fenced, pc, cur, fresh, sacked, sseen, swrites, sfaults>>
  BY DEF engineVars, disk
<1>2. /\ EngineShapes /\ LogShape /\ Placement /\ Progress
  BY DEF EngineIInv
<1>3. OnDisk' = OnDisk /\ Readable' = Readable /\ Made' = Made /\ Tables' = Tables
  BY <1>1 DEF OnDisk, Readable, Made, Tables
<1>4. EngineShapes' /\ LogShape'
  BY <1>1, <1>2, <1>3 DEF EngineShapes, LogShape
<1>5. Placement' /\ Progress'
  BY <1>1, <1>2, <1>3 DEF Placement, Progress, Merging
<1> QED
  BY <1>4, <1>5 DEF EngineIInv

LEMMA EngineNextIInv ==
  ASSUME EngineAssumption, EngineIInv, [EngineNext]_engineVars
  PROVE  EngineIInv'
<1>1. ASSUME NEW k \in Keys, BeginWrite(k) PROVE EngineIInv'
  BY <1>1, BeginWriteStep
<1>2. CASE LogEntry
  BY <1>2, LogEntryStep
<1>3. CASE AppendRefused
  BY <1>3, AppendRefusedStep
<1>4. CASE AppendFails
  BY <1>4, AppendFailsStep
<1>5. ASSUME NEW full \in BOOLEAN, Insert(full) PROVE EngineIInv'
  BY <1>5, InsertStep
<1>6. CASE PublishTable
  BY <1>6, PublishTableStep
<1>7. CASE PublishFails
  BY <1>7, PublishFailsStep
<1>8. CASE Install
  BY <1>8, InstallStep
<1>9. CASE Truncate
  BY <1>9, TruncateStep
<1>10. CASE TruncateFails
  BY <1>10, TruncateFailsStep
<1>11. CASE Compact
  BY <1>11, CompactStep
<1>12. CASE CompactFails
  BY <1>12, CompactFailsStep
<1>13. CASE ReplaceTables
  BY <1>13, ReplaceTablesStep
<1>14. ASSUME NEW t, NEW removed \in BOOLEAN, Unlink(t, removed) PROVE EngineIInv'
  BY <1>14, UnlinkStep
<1>15. CASE Finish
  BY <1>15, FinishStep
<1>16. CASE Stop
  BY <1>16, StopStep
<1>17. CASE Crash
  BY <1>17, CrashStep
<1>18. CASE Start
  BY <1>18, StartStep
<1>19. CASE UNCHANGED engineVars
  BY <1>19, EngineStutter
<1> QED
  BY <1>1, <1>2, <1>3, <1>4, <1>5, <1>6, <1>7, <1>8, <1>9, <1>10, <1>11, <1>12, <1>13, <1>14,
     <1>15, <1>16, <1>17, <1>18, <1>19 DEF EngineNext

-----------------------------------------------------------------------------
(***************************************************************************)
(* What it says to a reader.                                               *)
(***************************************************************************)

\* A set that covers another one is read at least as far.
LEMMA CoveredReads ==
  ASSUME NEW n \in Nat, NEW E, NEW F, \A e \in E \cup F : e.ts \in 0..n, Covers(F, E), NEW k
  PROVE  Newest(F, k).ts >= Newest(E, k).ts
<1>1. /\ \/ Newest(E, k) = Nothing /\ \A e \in E : e.key # k
         \/ \E b \in E : b.key = k /\ Newest(E, k) = [ts |-> b.ts, val |-> b.val]
      /\ \/ Newest(F, k) = Nothing /\ \A f \in F : f.key # k
         \/ \E b \in F : /\ b.key = k /\ Newest(F, k) = [ts |-> b.ts, val |-> b.val]
                        /\ \A f \in F : f.key = k => f.ts <= b.ts
  <2>1. IsNewest(Newest(E, k), E, k) /\ IsNewest(Newest(F, k), F, k)
    BY NewestIs
  <2> QED
    BY <2>1 DEF IsNewest
<1>2. Newest(F, k).ts \in Nat
  BY <1>1 DEF Nothing
<1>3. CASE Newest(E, k) = Nothing
  BY <1>2, <1>3 DEF Nothing
<1>4. CASE Newest(E, k) # Nothing
  <2>1. PICK b \in E : b.key = k /\ Newest(E, k) = [ts |-> b.ts, val |-> b.val]
    BY <1>1, <1>4
  <2>2. PICK f \in F : f.key = k /\ f.ts >= b.ts
    BY <2>1 DEF Covers
  <2>3. PICK c \in F : /\ c.key = k /\ Newest(F, k) = [ts |-> c.ts, val |-> c.val]
                       /\ \A g \in F : g.key = k => g.ts <= c.ts
    BY <1>1, <2>2
  <2>4. Newest(E, k).ts = b.ts /\ Newest(F, k).ts = c.ts /\ f.ts <= c.ts
    BY <2>1, <2>2, <2>3
  <2> QED
    BY <2>2, <2>4
<1> QED
  BY <1>3, <1>4

\* A reader gets what was reported as done and what it got before, or newer.
LEMMA ReachedReads ==
  ASSUME NEW n \in Nat, NEW E, \A e \in E : e.ts \in 1..n, OneValue(E), NEW k \in Keys,
         NEW done \in [Keys -> Nat], NEW read \in [Keys -> [ts : Nat, val : Nat]], Reaches(E, done, read)
  PROVE  /\ Newest(E, k).ts >= done[k]
         /\ Newest(E, k).ts > read[k].ts \/ Newest(E, k) = read[k]
<1>1. \/ Newest(E, k) = Nothing /\ \A e \in E : e.key # k
      \/ \E b \in E : /\ b.key = k /\ Newest(E, k) = [ts |-> b.ts, val |-> b.val]
                     /\ \A e \in E : e.key = k => e.ts <= b.ts
  <2>1. \A e \in E : e.ts \in 0..n
    OBVIOUS
  <2>2. IsNewest(Newest(E, k), E, k)
    BY <2>1, NewestIs
  <2> QED
    BY <2>2 DEF IsNewest
<1>2. /\ done[k] = 0 \/ \E e \in E : e.key = k /\ e.ts >= done[k]
      /\ read[k] = Nothing \/ \E e \in E : /\ e.key = k
                                          /\ \/ e.ts > read[k].ts
                                             \/ e.ts = read[k].ts /\ e.val = read[k].val
      /\ done[k] \in Nat /\ read[k] = [ts |-> read[k].ts, val |-> read[k].val] /\ read[k].ts \in Nat
  BY DEF Reaches
<1>3. CASE Newest(E, k) = Nothing /\ \A e \in E : e.key # k
  <2>1. done[k] = 0 /\ read[k] = Nothing
    BY <1>2, <1>3
  <2> QED
    BY <1>3, <2>1 DEF Nothing
<1>4. ASSUME NEW b \in E, b.key = k, Newest(E, k) = [ts |-> b.ts, val |-> b.val],
             \A e \in E : e.key = k => e.ts <= b.ts
      PROVE  /\ Newest(E, k).ts >= done[k]
             /\ Newest(E, k).ts > read[k].ts \/ Newest(E, k) = read[k]
  <2>1. Newest(E, k).ts = b.ts /\ b.ts \in Nat /\ b.ts > 0
    BY <1>4
  <2>2. b.ts >= done[k]
    BY <1>2, <1>4, <2>1
  <2>3. CASE read[k] = Nothing
    <3>1. read[k].ts = 0
      BY <2>3 DEF Nothing
    <3> QED
      BY <2>1, <2>2, <3>1
  <2>4. CASE read[k] # Nothing
    <3>1. PICK e \in E : e.key = k /\ (e.ts > read[k].ts \/ (e.ts = read[k].ts /\ e.val = read[k].val))
      BY <1>2, <2>4
    <3>2. e.ts <= b.ts /\ e.ts \in Nat
      BY <1>4, <3>1
    <3>3. e.ts = b.ts => e = b
      BY <1>4, <3>1 DEF OneValue
    <3>4. b.ts > read[k].ts \/ (b.ts = read[k].ts /\ b.val = read[k].val)
      BY <1>2, <2>1, <3>1, <3>2, <3>3
    <3> QED
      BY <1>2, <1>4, <2>1, <2>2, <3>4
  <2> QED
    BY <2>3, <2>4
<1> QED
  BY <1>1, <1>3, <1>4

\* The invariant gives the property of the run.
LEMMA IInvDurable ==
  ASSUME EngineAssumption, EngineIInv
  PROVE  EngineDurable
<1>1. /\ EngineShapes /\ LogShape /\ Placement /\ Progress
  BY DEF EngineIInv
<1>2. /\ OnDisk \subseteq Made /\ Readable \subseteq OnDisk /\ swrites \in Nat /\ Torn \notin Made
      /\ EntriesOf(files) \subseteq OnDisk /\ \A e \in Made : e.ts \in 1..swrites /\ e.ts \in 0..swrites
  <2>1. swrites \in Nat
    BY EntriesAre
  <2> QED
    BY <2>1, EntriesAre DEF OnDisk, Made
<1>3. EngineTypeOK
  <2>1. Made \subseteq Entry
    BY <1>1 DEF EngineShapes, Made, Entry, EngineAssumption
  <2>2. \A t \in files \cup tables : t.entries \subseteq Entry /\ t.entries # {} /\ t.level \in Nat
    <3>1. \A t \in Tables : t.entries \subseteq Made /\ t.entries # {} /\ t.level \in Nat
      BY DEF Tables
    <3>2. files \cup tables \subseteq Tables
      BY <1>1 DEF EngineShapes, Placement
    <3> QED
      BY <2>1, <3>1, <3>2
  <2>3. \A i \in DOMAIN wal : wal[i] \in Entry \cup {Torn}
    BY <1>1, <2>1 DEF EngineShapes
  <2>4. mem \subseteq Entry /\ \A e, f \in mem : e.key = f.key => e = f
    BY <1>1, <2>1 DEF EngineShapes, OnePerKey
  <2> QED
    BY <1>1, <2>2, <2>3, <2>4 DEF EngineTypeOK, EngineShapes, Progress, Steps
<1>4. ReadableIsOnDisk
  <2> DEFINE Restored == Replayed({}, wal) \cup EntriesOf(files)
  <2>1. /\ Replayed({}, wal) \subseteq Frames(wal) /\ Covers(Replayed({}, wal), Frames(wal))
    BY ReplayFinds
  <2>2. Restored \subseteq OnDisk /\ Covers(Restored, OnDisk)
    BY <2>1 DEF OnDisk, Covers
  <2>3. \A k : Recovered(k) = Newest(Restored, k) /\ Get(k) = Newest(Readable, k)
    BY DEF Recovered, Get, Readable
  <2> HIDE DEF Restored
  <2>4. Covers(Restored, Readable) /\ \A e \in Readable \cup Restored : e.ts \in 0..swrites
    BY <1>2, <2>2 DEF Covers
  <2>5. \A k \in Keys : Newest(Restored, k).ts >= Newest(Readable, k).ts
    BY <1>2, <2>4, CoveredReads
  <2> QED
    BY <2>3, <2>5 DEF ReadableIsOnDisk
<1>5. AckedSurvives /\ ReadsNeverGoBack
  <2> SUFFICES ASSUME started, NEW k \in Keys
               PROVE  Get(k).ts >= sacked[k] /\ (Get(k).ts > sseen[k].ts \/ Get(k) = sseen[k])
    BY DEF AckedSurvives, ReadsNeverGoBack
  <2>1. Reaches(Readable, sacked, sseen)
    BY RunningReaches
  <2>2. sacked \in [Keys -> Nat] /\ sseen \in [Keys -> [ts : Nat, val : Nat]]
    BY <1>1 DEF EngineShapes
  <2>3. OneValue(Readable) /\ \A e \in Readable : e.ts \in 1..swrites
    BY <1>1, <1>2 DEF Placement, OneValue
  <2>4. Get(k) = Newest(Readable, k)
    BY DEF Get, Readable
  <2> QED
    BY <1>2, <2>1, <2>2, <2>3, <2>4, ReachedReads
<1>6. OneValuePerTimestamp
  <2>1. mem \cup EntriesOf(files \cup tables) \cup Frames(wal) \subseteq OnDisk
    BY <1>1 DEF OnDisk, Placement, EntriesOf
  <2>2. OneValue(OnDisk)
    BY <1>1 DEF Placement
  <2> QED
    BY <2>1, <2>2 DEF OneValuePerTimestamp, OneValue, Frames
<1> QED
  BY <1>3, <1>4, <1>5, <1>6 DEF EngineDurable

\* In every execution of the storage engine the log, the tables and the memtable
\* keep their places: what a reader uses is on disk, and nothing newer is.
THEOREM EngineInvariant ==
  ASSUME EngineAssumption
  PROVE  EngineSpec => []EngineIInv
<1>1. EngineInit => EngineIInv
  BY EngineInitIInv
<1>2. EngineIInv /\ [EngineNext]_engineVars => EngineIInv'
  BY EngineNextIInv
<1> QED
  BY <1>1, <1>2, PTL DEF EngineSpec

\* No crash, I/O error, flush or compaction loses a write that was reported as
\* done, takes a reader back, or gives a timestamp a second value, for any keys,
\* any threshold and any number of writes and faults (storage/engine.py).
THEOREM EngineIsDurable ==
  ASSUME EngineAssumption
  PROVE  EngineSpec => []EngineDurable
<1>1. EngineIInv => EngineDurable
  BY IInvDurable
<1> QED
  BY <1>1, EngineInvariant, PTL

-----------------------------------------------------------------------------
(***************************************************************************)
(* The replicated key-value store loses no acknowledged write and returns  *)
(* it to quorum reads, for any nodes, quorums, clock limit and number of   *)
(* writes, reads and outages.                                              *)
(*                                                                         *)
(* The argument: reconcile replaces a version only by one that covers it,  *)
(* so what a record covers it goes on covering, and a hint goes only when  *)
(* its target covers it.  Clocks stay apart because a node's own record    *)
(* has counted every write of the node that anybody knows of: the counter  *)
(* it derives next is new.  A read that asked primaries only remembers, so *)
(* to speak, a set of primaries that answered; each write that it must     *)
(* return is covered by W primaries, and W + R > N makes the two meet.     *)
(***************************************************************************)

\* Every version that has left its coordinator's derivation: stored, on its way,
\* acknowledged, kept as a hint, seen by a client, waited for, or read.
Stored  == UNION {rec[n] : n \in Nodes}
Sent    == {t.ver : t \in tasks}
Granted == {a.ver : a \in acked}
Hinted  == UNION {{h.ver : h \in hints[n]} : n \in Nodes}
Shown   == UNION contexts
Awaited == {wr[n].ver : n \in {m \in Nodes : wr[m].phase = "waiting"}}
Found   == IF rd.phase = "open" THEN rd.found ELSE {}
Known   == Stored \cup Sent \cup Granted \cup Hinted \cup Shown \cup Awaited \cup Found

\* The sets of versions are finite.
RecordsFinite ==
  /\ \A n \in Nodes : IsFiniteSet(rec[n])
  /\ \A S \in contexts : IsFiniteSet(S)
  /\ rd.phase = "open" => IsFiniteSet(rd.found)

\* c's own record has counted as far as v has counted c's writes.
Counted(v, c) == v.clock[c] = 0 \/ \E x \in rec[c] : v.clock[c] <= x.clock[c]

\* No version knows of more writes of a node than the node's own record, except
\* the one that the node has derived and not yet stored.
CountersKept == \A v \in Known : \A c \in Nodes : Counted(v, c)
DerivedFresh ==
  \A m \in Nodes : wr[m].phase = "derived" =>
    /\ \A c \in Nodes \ {m} : Counted(wr[m].ver, c)
    /\ wr[m].ver.clock[m] > 0
    /\ \A v \in Known : v.clock[m] < wr[m].ver.clock[m]
KnownUnique == \A v, w \in Known : v.clock = w.clock => v = w

\* An acknowledgement of v, also before the quorum is complete.
AckSound(v, k, c) ==
  /\ Covered(v, rec[k[1]])
  /\ k[2] = None => k[1] \in Primary
  /\ k[2] # None => Covered(v, rec[k[2]]) \/ [target |-> k[2], ver |-> v] \in hints[c]
AcksSound ==
  /\ \A a \in acked : Cardinality(a.acks) >= W /\ \A k \in a.acks : AckSound(a.ver, k, a.coord)
  /\ \A n \in Nodes : wr[n].phase = "waiting" => \A k \in wr[n].acks : AckSound(wr[n].ver, k, n)

\* A task for a substitute sends only what its coordinator keeps for the original.
TasksSound ==
  \A t \in tasks :
    /\ t.original = None => t.node \in Primary
    /\ t.original # t.coord /\ (t.phase = "hint" => t.original # None)
    /\ t.phase = "send" /\ t.original # None =>
         Covered(t.ver, rec[t.original]) \/ [target |-> t.original, ver |-> t.ver] \in hints[t.coord]

\* What an open read has: some set A of primaries answered, and of every version
\* the read must return, W primaries cover it and the answers cover what those of
\* A among them had.
AnsweredBy(A) ==
  /\ Cardinality(A) = rd.got
  /\ \A v \in rd.must : \E Q \in SUBSET Primary :
       /\ Cardinality(Q) >= W
       /\ \A n \in Q : Covered(v, rec[n]) /\ (n \in A => Covered(v, rd.found))
ReadSound ==
  rd.phase = "open" /\ rd.strict =>
    rd.todo \subseteq Primary /\ \E A \in SUBSET (Primary \ rd.todo) : AnsweredBy(A)

ReplicaIInv ==
  /\ KVTypeOK /\ RecordsFinite /\ CountersKept /\ DerivedFresh /\ KnownUnique
  /\ AcksSound /\ TasksSound /\ ReadSound /\ ReadsSeeAcked

-----------------------------------------------------------------------------
(***************************************************************************)
(* Clocks, records and placement.                                          *)
(***************************************************************************)

\* The order of clocks.
LEMMA GeqOrder ==
  /\ \A a \in [Nodes -> Nat] : Geq(a, a)
  /\ \A a, b, c \in [Nodes -> Nat] : Geq(a, b) /\ Geq(b, c) => Geq(a, c)
  /\ \A a, b \in [Nodes -> Nat] : Geq(a, b) /\ Geq(b, a) => a = b
<1>1. ASSUME NEW a \in [Nodes -> Nat] PROVE Geq(a, a)
  BY DEF Geq
<1>2. ASSUME NEW a \in [Nodes -> Nat], NEW b \in [Nodes -> Nat], NEW c \in [Nodes -> Nat],
             Geq(a, b), Geq(b, c)
      PROVE  Geq(a, c)
  <2>1. ASSUME NEW n \in Nodes PROVE a[n] >= c[n]
    <3>1. a[n] \in Nat /\ b[n] \in Nat /\ c[n] \in Nat
      OBVIOUS
    <3>2. a[n] >= b[n] /\ b[n] >= c[n]
      BY <1>2 DEF Geq
    <3> QED
      BY <3>1, <3>2
  <2> QED
    BY <2>1 DEF Geq
<1>3. ASSUME NEW a \in [Nodes -> Nat], NEW b \in [Nodes -> Nat], Geq(a, b), Geq(b, a)
      PROVE  a = b
  <2>1. ASSUME NEW n \in Nodes PROVE a[n] = b[n]
    <3>1. a[n] \in Nat /\ b[n] \in Nat
      OBVIOUS
    <3>2. a[n] >= b[n] /\ b[n] >= a[n]
      BY <1>3 DEF Geq
    <3> QED
      BY <3>1, <3>2
  <2> QED
    BY <2>1
<1> QED
  BY <1>1, <1>2, <1>3

\* reconcile drops a version only for one that dominates it: what is left covers
\* all that was there.
LEMMA ReconcileCovers ==
  ASSUME NEW V \in SUBSET Version, IsFiniteSet(V)
  PROVE  /\ Reconcile(V) \in SUBSET V /\ IsFiniteSet(Reconcile(V))
         /\ \A v \in V : Covered(v, Reconcile(V))
<1>1. Reconcile(V) \in SUBSET V /\ IsFiniteSet(Reconcile(V))
  BY FS_Subset DEF Reconcile
<1>2. ASSUME NEW v \in V PROVE Covered(v, Reconcile(V))
  <2> DEFINE Above(w) == {x \in V : Geq(x.clock, w.clock)}
  <2> DEFINE T == {Above(w) : w \in Above(v)}
  <2>1. \A w \in V : w \in Version /\ w.clock \in [Nodes -> Nat]
    BY DEF Version
  <2>2. v \in Above(v)
    BY <2>1, GeqOrder
  <2>3. T \subseteq SUBSET V /\ T # {}
    BY <2>2
  <2>4. \E X \in T : \A Y \in T : Y \subseteq X => Y = X
    <3> HIDE DEF T
    <3> QED
      BY <2>3, MinSubset
  <2>5. PICK w \in Above(v) : \A Y \in T : Y \subseteq Above(w) => Y = Above(w)
    BY <2>4
  <2>6. w \in V /\ Geq(w.clock, v.clock)
    BY <2>5
  <2>7. ASSUME NEW x \in V, Dominates(x.clock, w.clock) PROVE FALSE
    <3>1. x.clock \in [Nodes -> Nat] /\ w.clock \in [Nodes -> Nat] /\ v.clock \in [Nodes -> Nat]
      BY <2>1, <2>6
    <3>2. Geq(x.clock, w.clock) /\ x.clock # w.clock
      BY <2>7 DEF Dominates
    <3>3. Geq(x.clock, v.clock)
      BY <2>6, <3>1, <3>2, GeqOrder
    <3>4. x \in Above(v)
      BY <3>3
    <3>5. Above(x) \in T
      BY <3>4
    <3>6. Above(x) \subseteq Above(w)
      <4>1. ASSUME NEW y \in Above(x) PROVE Geq(y.clock, w.clock)
        <5>1. y \in V /\ Geq(y.clock, x.clock) /\ y.clock \in [Nodes -> Nat]
          BY <2>1
        <5> QED
          BY <5>1, <3>1, <3>2, GeqOrder
      <4> QED
        BY <4>1
    <3>7. Above(x) = Above(w)
      BY <2>5, <3>5, <3>6
    <3>8. w \in Above(w)
      BY <2>6, <3>1, GeqOrder
    <3>9. Geq(w.clock, x.clock)
      BY <3>7, <3>8
    <3> QED
      BY <3>1, <3>2, <3>9, GeqOrder
  <2>8. w \in Reconcile(V)
    BY <2>6, <2>7 DEF Reconcile
  <2> QED
    BY <2>6, <2>8 DEF Covered
<1> QED
  BY <1>1, <1>2

\* A finite non-empty set of natural numbers has a greatest one.
LEMMA MaxNat ==
  ASSUME NEW V, IsFiniteSet(V), V # {}
  PROVE  V \in SUBSET Nat => Max(V) \in V /\ \A y \in V : Max(V) >= y
<1>0. \A C \in SUBSET SUBSET V : C # {} => \E X \in C : \A Y \in C : Y \subseteq X => Y = X
  BY MinSubset
<1> SUFFICES ASSUME V \in SUBSET Nat PROVE Max(V) \in V /\ \A y \in V : Max(V) >= y
  OBVIOUS
<1> DEFINE Above(w) == {x \in V : x >= w}
<1> DEFINE T == {Above(w) : w \in V}
<1>1. T \subseteq SUBSET V /\ T # {}
  OBVIOUS
<1>2. \E X \in T : \A Y \in T : Y \subseteq X => Y = X
  <2> HIDE DEF T
  <2> QED
    BY <1>0, <1>1
<1>3. PICK w \in V : \A Y \in T : Y \subseteq Above(w) => Y = Above(w)
  BY <1>2
<1>4. ASSUME NEW y \in V PROVE w >= y
  <2>1. SUFFICES ASSUME y > w PROVE FALSE
    BY DEF Above
  <2>2. Above(y) \in T
    OBVIOUS
  <2>4. ASSUME NEW x \in Above(y) PROVE x \in Above(w)
    <3>1. x \in Nat /\ y \in Nat /\ w \in Nat /\ x >= y /\ x \in V
      OBVIOUS
    <3> QED
      BY <2>1, <3>1
  <2>3. w \in Above(w) /\ w \notin Above(y)
    BY <2>1
  <2> QED
    BY <1>3, <2>2, <2>3, <2>4
<1>5. \E x \in V : \A y \in V : x >= y
  BY <1>4
<1> QED
  BY <1>5 DEF Max

\* The image of a finite set under a function is finite, and not larger.
LEMMA ImageFinite ==
  ASSUME NEW S, IsFiniteSet(S), NEW f, f = [x \in S |-> f[x]]
  PROVE  IsFiniteSet({f[x] : x \in S}) /\ Cardinality({f[x] : x \in S}) <= Cardinality(S)
<1> DEFINE T == {f[x] : x \in S}
<1>1. f \in Surjection(S, T)
  BY DEF Surjection
<1> HIDE DEF T
<1>2. IsFiniteSet(T) /\ Cardinality(T) <= Cardinality(S)
  BY <1>1, FS_Surjection
<1> QED
  BY <1>2 DEF T

\* An entry of a merged clock is 0 or that of one of the versions.
LEMMA JoinClock ==
  ASSUME NEW V \in SUBSET Version, IsFiniteSet(V)
  PROVE  /\ Join({v.clock : v \in V}) \in [Nodes -> Nat]
         /\ \A n \in Nodes : \/ Join({v.clock : v \in V})[n] = 0
                             \/ \E x \in V : Join({v.clock : v \in V})[n] = x.clock[n]
<1> DEFINE C == {v.clock : v \in V}
<1> DEFINE T(n) == {0} \cup {c[n] : c \in C}
<1>1. ASSUME NEW n \in Nodes
      PROVE  Max(T(n)) \in Nat /\ (Max(T(n)) = 0 \/ \E v \in V : Max(T(n)) = v.clock[n])
  <2> DEFINE f == [v \in V |-> v.clock[n]]
  <2>1. \A v \in V : v.clock[n] \in Nat
    BY DEF Version
  <2>2. T(n) = {f[v] : v \in V} \cup {0}
    OBVIOUS
  <2>3. IsFiniteSet({f[v] : v \in V})
    <3>1. f = [v \in V |-> f[v]]
      OBVIOUS
    <3> HIDE DEF f
    <3> QED
      BY <3>1, ImageFinite
  <2>4. IsFiniteSet(T(n))
    BY <2>2, <2>3, FS_AddElement
  <2>5. T(n) \in SUBSET Nat /\ T(n) # {}
    BY <2>1
  <2>6. Max(T(n)) \in T(n)
    <3> DEFINE X == T(n)
    <3> HIDE DEF X
    <3>1. X \in SUBSET Nat => Max(X) \in X
      <4>1. IsFiniteSet(X) /\ X # {}
        BY <2>4, <2>5 DEF X
      <4> QED
        BY <4>1, MaxNat
    <3> QED
      BY <2>5, <3>1 DEF X
  <2> QED
    BY <2>5, <2>6
<1>2. Join(C) = [n \in Nodes |-> Max(T(n))]
  BY DEF Join
<1> HIDE DEF T
<1> QED
  BY <1>1, <1>2

\* The clock of a new version: the coordinator's own entry exceeds the client's and
\* those of its record, the others are the client's or pruned away.
LEMMA NextClock ==
  ASSUME NEW c \in Nodes, NEW client \in [Nodes -> Nat], rec[c] \in SUBSET Version,
         IsFiniteSet(rec[c]), NEW clock \in NextClocks(c, client)
  PROVE  /\ clock \in [Nodes -> Nat]
         /\ clock[c] > client[c] /\ \A v \in rec[c] : clock[c] > v.clock[c]
         /\ \A n \in Nodes \ {c} : clock[n] = 0 \/ clock[n] = client[n]
<1> DEFINE T == {client[c]} \cup {v.clock[c] : v \in rec[c]}
<1>1. Max(T) \in Nat /\ \A y \in T : Max(T) >= y
  <2> DEFINE f == [v \in rec[c] |-> v.clock[c]]
  <2>1. \A v \in rec[c] : v.clock[c] \in Nat
    BY DEF Version
  <2>2. T = {f[v] : v \in rec[c]} \cup {client[c]}
    OBVIOUS
  <2>3. IsFiniteSet({f[v] : v \in rec[c]})
    <3>1. f = [v \in rec[c] |-> f[v]]
      OBVIOUS
    <3> HIDE DEF f
    <3> QED
      BY <3>1, ImageFinite
  <2>4. IsFiniteSet(T)
    BY <2>2, <2>3, FS_AddElement
  <2>5. T \in SUBSET Nat /\ T # {}
    BY <2>1
  <2> HIDE DEF T
  <2>6. T \in SUBSET Nat => Max(T) \in T /\ \A y \in T : Max(T) >= y
    BY <2>4, <2>5, MaxNat
  <2> QED
    BY <2>5, <2>6
<1> DEFINE own == OwnCounter(c, client)
<1>2. own \in Nat /\ own >= client[c] /\ \A v \in rec[c] : own >= v.clock[c]
  BY <1>1 DEF OwnCounter
<1> HIDE DEF own, T
<1> DEFINE base == [client EXCEPT ![c] = own]
<1>3. PICK pruned \in Pruned(c, base) : clock = [pruned EXCEPT ![c] = @ + 1]
  BY DEF NextClocks, own
<1> DEFINE Zeroed(K) == [n \in Nodes |-> IF n \in K THEN base[n] ELSE 0]
<1>4. PICK K \in SUBSET Nodes : c \in K /\ pruned = [n \in Nodes |-> IF n \in K THEN base[n] ELSE 0]
  <2> HIDE DEF base
  <2> DEFINE used == {n \in Nodes : base[n] > 0} \cup {c}
             Largest == {K \in SUBSET used : /\ c \in K
                                             /\ Cardinality(K) = Min({Cardinality(used), MaxEntries})
                                             /\ \A k \in K \ {c}, x \in used \ K : base[k] >= base[x]}
  <2>1. PICK K \in Largest : pruned = Zeroed(K)
    BY <1>3, Zenon DEF Pruned
  <2>2. K \in SUBSET used /\ c \in K
    OBVIOUS
  <2>3. used \subseteq Nodes
    OBVIOUS
  <2> HIDE DEF used, Largest
  <2> QED
    BY <2>1, <2>2, <2>3
<1>5. pruned \in [Nodes -> Nat] /\ pruned[c] = own
      /\ \A n \in Nodes \ {c} : pruned[n] = 0 \/ pruned[n] = client[n]
  BY <1>2, <1>4
<1>6. clock \in [Nodes -> Nat] /\ clock[c] = own + 1
      /\ \A n \in Nodes \ {c} : clock[n] = 0 \/ clock[n] = client[n]
  BY <1>2, <1>3, <1>5
<1>7. client[c] \in Nat /\ \A v \in rec[c] : v.clock[c] \in Nat
  BY DEF Version
<1> QED
  BY <1>2, <1>6, <1>7

\* _targets: a target that replaces nobody is a primary, and a replaced primary is
\* not the coordinator, which is alive to itself.
LEMMA TargetsSound ==
  ASSUME ReplicaAssumption, NEW c \in Nodes, NEW down \in SUBSET (Nodes \ {c}),
         NEW t \in Targets(down)
  PROVE  /\ t[1] \in Nodes /\ t[2] \in Nodes \cup {None} /\ t = <<t[1], t[2]>>
         /\ t[2] = None => t[1] \in Primary
         /\ t[2] # c
<1> DEFINE dead  == {i \in 1..N : Order[i] \in down}
<1> DEFINE spare == {i \in (N + 1)..Cardinality(Nodes) : Order[i] \notin down}
<1> DEFINE subst == {p \in spare \X dead :
                  Cardinality({i \in spare : i < p[1]}) = Cardinality({i \in dead : i < p[2]})}
<1>1. \/ t \in {<<Order[i], None>> : i \in {j \in 1..N : \A p \in subst : p[2] # j}}
      \/ t \in {<<Order[p[1]], Order[p[2]]>> : p \in subst}
  BY DEF Targets
<1>2. N \in 1..Cardinality(Nodes) /\ None \notin Nodes
  BY DEF ReplicaAssumption
<1>3. Cardinality(Nodes) \in Nat
  BY FS_CardinalityType DEF ReplicaAssumption
<1>4. \A i \in 1..Cardinality(Nodes) : Order[i] \in Nodes
  BY DEF ReplicaAssumption
<1>5. \A i \in 1..N : i \in 1..Cardinality(Nodes)
  BY <1>2, <1>3
<1>6. \A i \in spare : i \in 1..Cardinality(Nodes)
  BY <1>2, <1>3
<1>7. CASE t \in {<<Order[i], None>> : i \in {j \in 1..N : \A p \in subst : p[2] # j}}
  <2>1. PICK i \in 1..N : t = <<Order[i], None>>
    BY <1>7
  <2> QED
    BY <2>1, <1>2, <1>4, <1>5 DEF Primary
<1>8. CASE t \in {<<Order[p[1]], Order[p[2]]>> : p \in subst}
  <2>1. PICK i \in spare, j \in dead : t = <<Order[i], Order[j]>>
    BY <1>8
  <2>2. Order[i] \in Nodes /\ Order[j] \in Nodes /\ Order[j] \in down
    BY <1>4, <1>5, <1>6
  <2> QED
    BY <2>1, <2>2, <1>2
<1> QED
  BY <1>1, <1>7, <1>8

\* There are N primaries at most.
LEMMA PrimarySize ==
  ASSUME ReplicaAssumption
  PROVE  Primary \in SUBSET Nodes /\ IsFiniteSet(Primary) /\ Cardinality(Primary) <= N
<1>1. N \in 1..Cardinality(Nodes)
  BY DEF ReplicaAssumption
<1>2. Cardinality(Nodes) \in Nat
  BY FS_CardinalityType DEF ReplicaAssumption
<1>3. \A i \in 1..Cardinality(Nodes) : Order[i] \in Nodes
  BY DEF ReplicaAssumption
<1>4. \A i \in 1..N : i \in 1..Cardinality(Nodes)
  BY <1>1, <1>2
<1>5. Primary \in SUBSET Nodes
  BY <1>3, <1>4 DEF Primary
<1> DEFINE f == [i \in 1..N |-> Order[i]]
<1> DEFINE S == 1..N
<1>6. Primary = {f[i] : i \in S}
  BY DEF Primary
<1>7. IsFiniteSet(S) /\ Cardinality(S) = N
  BY <1>1, <1>2, FS_Interval
<1>8. f = [i \in S |-> f[i]]
  OBVIOUS
<1> HIDE DEF f, S
<1>9. IsFiniteSet({f[i] : i \in S}) /\ Cardinality({f[i] : i \in S}) <= Cardinality(S)
  BY <1>7, <1>8, ImageFinite
<1> QED
  BY <1>5, <1>6, <1>7, <1>9

\* W + R > N: a set of R answers meets a set of W acknowledgements.
LEMMA QuorumsMeet ==
  ASSUME ReplicaAssumption, W + R > N, NEW A \in SUBSET Primary, NEW Q \in SUBSET Primary,
         Cardinality(A) = R, Cardinality(Q) >= W
  PROVE  A \cap Q # {}
<1>1. IsFiniteSet(Primary) /\ Cardinality(Primary) <= N
  BY PrimarySize
<1>2. IsFiniteSet(Q) /\ IsFiniteSet(A)
  BY <1>1, FS_Subset
<1>3. Cardinality(Q) \in Nat /\ Cardinality(A) \in Nat /\ Cardinality(Primary) \in Nat /\ Cardinality(Nodes) \in Nat
  BY <1>1, <1>2, FS_CardinalityType DEF ReplicaAssumption
<1>4. N \in Int /\ W \in Int /\ R \in Int
  BY <1>3 DEF ReplicaAssumption
<1>5. Cardinality(A) + Cardinality(Q) > Cardinality(Primary)
  BY <1>1, <1>3, <1>4
<1> QED
  BY <1>1, <1>5, FS_MajoritiesIntersect

-----------------------------------------------------------------------------
(***************************************************************************)
(* What a step may do to records, hints and known versions.                *)
(***************************************************************************)

\* A step loses no version of a record except for one that covers it, and no hint
\* except for one that its target covers.
RecordsGrow == \A n \in Nodes : \A v \in rec[n] : \E w \in rec'[n] : Geq(w.clock, v.clock)
HintsHeld ==
  \A n \in Nodes : \A h \in hints[n] :
    h \in hints'[n] \/ \E w \in rec'[h.target] : Geq(w.clock, h.ver.clock)

\* What a merge does to the records.
LEMMA MergeStep ==
  ASSUME KVTypeOK, RecordsFinite, NEW n \in Nodes, NEW V \in SUBSET Version, IsFiniteSet(V),
         rec' = Merged(n, V)
  PROVE  /\ rec' \in [Nodes -> SUBSET Version]
         /\ \A m \in Nodes : IsFiniteSet(rec'[m]) /\ rec'[m] \subseteq rec[m] \cup V
         /\ RecordsGrow
         /\ \A v \in V : \E w \in rec'[n] : Geq(w.clock, v.clock)
<1> DEFINE X == rec[n] \cup V
<1>1. rec \in [Nodes -> SUBSET Version] /\ \A m \in Nodes : IsFiniteSet(rec[m])
  BY DEF KVTypeOK, RecordsFinite
<1>2. X \in SUBSET Version /\ IsFiniteSet(X)
  BY <1>1, FS_Union
<1>3. rec' = [rec EXCEPT ![n] = Reconcile(X)]
  BY DEF Merged
<1> HIDE DEF X
<1>4. /\ Reconcile(X) \in SUBSET X /\ IsFiniteSet(Reconcile(X))
      /\ \A v \in X : Covered(v, Reconcile(X))
  BY <1>2, ReconcileCovers
<1>5. rec'[n] = Reconcile(X) /\ \A m \in Nodes \ {n} : rec'[m] = rec[m]
  BY <1>1, <1>3
<1>6. rec' \in [Nodes -> SUBSET Version]
  BY <1>1, <1>2, <1>3, <1>4
<1>7. \A m \in Nodes : IsFiniteSet(rec'[m]) /\ rec'[m] \subseteq rec[m] \cup V
  BY <1>1, <1>4, <1>5 DEF X
<1>8. \A v \in X : \E w \in rec'[n] : Geq(w.clock, v.clock)
  BY <1>4, <1>5 DEF Covered
<1>9. ASSUME NEW m \in Nodes, NEW v \in rec[m] PROVE \E w \in rec'[m] : Geq(w.clock, v.clock)
  <2>1. CASE m = n
    BY <1>8, <2>1 DEF X
  <2>2. CASE m # n
    <3>1. rec'[m] = rec[m] /\ v.clock \in [Nodes -> Nat]
      BY <1>1, <1>5, <2>2 DEF Version
    <3> QED
      BY <3>1, GeqOrder
  <2> QED
    BY <2>1, <2>2
<1> QED
  BY <1>6, <1>7, <1>8, <1>9 DEF RecordsGrow, X

\* The same when the records stay.
LEMMA RecordsStay ==
  ASSUME KVTypeOK, RecordsFinite, UNCHANGED rec
  PROVE  /\ rec' \in [Nodes -> SUBSET Version] /\ \A m \in Nodes : IsFiniteSet(rec'[m])
         /\ RecordsGrow
<1>1. rec' = rec /\ rec \in [Nodes -> SUBSET Version]
  BY DEF KVTypeOK
<1>2. ASSUME NEW m \in Nodes, NEW v \in rec[m] PROVE \E w \in rec'[m] : Geq(w.clock, v.clock)
  <2>1. v.clock \in [Nodes -> Nat]
    BY <1>1 DEF Version
  <2> QED
    BY <1>1, <2>1, GeqOrder
<1> QED
  BY <1>1, <1>2 DEF RecordsFinite, RecordsGrow

\* What a record covers it goes on covering.
LEMMA CoveredStays ==
  ASSUME KVTypeOK, KVTypeOK', RecordsGrow, NEW n \in Nodes, NEW v \in Version, Covered(v, rec[n])
  PROVE  \E w \in rec'[n] : Geq(w.clock, v.clock)
<1>1. PICK x \in rec[n] : Geq(x.clock, v.clock)
  BY DEF Covered
<1>2. PICK w \in rec'[n] : Geq(w.clock, x.clock)
  BY DEF RecordsGrow
<1>3. rec[n] \in SUBSET Version /\ rec'[n] \in SUBSET Version
  BY DEF KVTypeOK
<1>4. x.clock \in [Nodes -> Nat] /\ w.clock \in [Nodes -> Nat] /\ v.clock \in [Nodes -> Nat]
  BY <1>3 DEF Version
<1> QED
  BY <1>1, <1>2, <1>4, GeqOrder

\* The ways in which a version is known.
LEMMA KnownWays ==
  /\ \A n \in Nodes : rec[n] \subseteq Known
  /\ \A t \in tasks : t.ver \in Known
  /\ \A a \in acked : a.ver \in Known
  /\ \A n \in Nodes : \A h \in hints[n] : h.ver \in Known
  /\ \A S \in contexts : S \subseteq Known
  /\ \A n \in Nodes : wr[n].phase = "waiting" => wr[n].ver \in Known
  /\ rd.phase = "open" => rd.found \subseteq Known
<1>1. \A n \in Nodes : rec[n] \subseteq Stored
  BY DEF Stored
<1>2. (\A t \in tasks : t.ver \in Sent) /\ (\A a \in acked : a.ver \in Granted)
  BY DEF Sent, Granted
<1>3. ASSUME NEW n \in Nodes, NEW h \in hints[n] PROVE h.ver \in Hinted
  <2>1. h.ver \in {g.ver : g \in hints[n]}
    OBVIOUS
  <2> QED
    BY <2>1 DEF Hinted
<1>4. \A S \in contexts : S \subseteq Shown
  BY DEF Shown
<1>5. \A n \in Nodes : wr[n].phase = "waiting" => wr[n].ver \in Awaited
  BY DEF Awaited
<1>6. rd.phase = "open" => rd.found \subseteq Found
  BY DEF Found
<1>7. /\ Stored \subseteq Known /\ Sent \subseteq Known /\ Granted \subseteq Known
      /\ Hinted \subseteq Known /\ Shown \subseteq Known /\ Awaited \subseteq Known
      /\ Found \subseteq Known
  BY DEF Known
<1> QED
  BY <1>1, <1>2, <1>3, <1>4, <1>5, <1>6, <1>7

\* After a step, every way to be known leads into the set K.
LEMMA KnownNext ==
  ASSUME NEW K,
         \A n \in Nodes : rec'[n] \subseteq K,
         \A t \in tasks' : t.ver \in K,
         \A a \in acked' : a.ver \in K,
         \A n \in Nodes : \A h \in hints'[n] : h.ver \in K,
         \A S \in contexts' : S \subseteq K,
         \A n \in Nodes : wr'[n].phase = "waiting" => wr'[n].ver \in K,
         rd'.phase = "open" => rd'.found \subseteq K
  PROVE  Known' \subseteq K
<1>1. Stored' \subseteq K
  BY DEF Stored
<1>2. Sent' \subseteq K /\ Granted' \subseteq K
  BY DEF Sent, Granted
<1>3. Hinted' \subseteq K
  BY DEF Hinted
<1>4. Shown' \subseteq K
  BY DEF Shown
<1>5. Awaited' \subseteq K
  BY DEF Awaited
<1>6. Found' \subseteq K
  BY DEF Found
<1>7. Known' = Stored' \cup Sent' \cup Granted' \cup Hinted' \cup Shown' \cup Awaited' \cup Found'
  BY DEF Known
<1> QED
  BY <1>1, <1>2, <1>3, <1>4, <1>5, <1>6, <1>7

-----------------------------------------------------------------------------
(***************************************************************************)
(* One lemma per action: types, finite records, and what records, hints    *)
(* and known versions become.                                              *)
(***************************************************************************)

StepSound == KVTypeOK' /\ RecordsFinite' /\ RecordsGrow /\ HintsHeld

\* The parts of the type invariant.
LEMMA Types ==
  ASSUME KVTypeOK
  PROVE  /\ alive \in [Nodes -> BOOLEAN] /\ rec \in [Nodes -> SUBSET Version]
         /\ hints \in [Nodes -> SUBSET [target : Nodes, ver : Version]]
         /\ \A n \in Nodes : \A h \in hints[n] : h.target # n
         /\ wr \in [Nodes -> Writing] /\ \A n \in Nodes : wr[n] # NoWrite => alive[n]
         /\ tasks \in SUBSET Task
         /\ \A t \in tasks : alive[t.coord]
         /\ rd \in {[phase |-> "none"]} \cup Read
         /\ acked \in SUBSET [ver : Version, acks : SUBSET Acks, coord : Nodes]
         /\ contexts \in SUBSET SUBSET Version
         /\ syncing \in [Nodes -> {NoSync} \cup [peer : Nodes, view : SUBSET Version]]
         /\ writes \in 0..MaxVersions /\ reads \in 0..MaxReads /\ faults \in 0..MaxOutages
BY DEF KVTypeOK

\* The write of a node, by its phase.
LEMMA WritingTypes ==
  ASSUME NEW w \in Writing
  PROVE  /\ w.phase = "idle" => w = NoWrite
         /\ w.phase \in {"idle", "derived", "waiting"}
         /\ w.phase = "derived" => w \in [phase : {"derived"}, ver : Version]
         /\ w.phase = "waiting" => w \in [phase : {"waiting"}, ver : Version, acks : SUBSET Acks]
<1>1. CASE w = NoWrite
  BY <1>1 DEF NoWrite
<1>2. CASE w \in [phase : {"derived"}, ver : Version]
  BY <1>2
<1>3. CASE w \in [phase : {"waiting"}, ver : Version, acks : SUBSET Acks]
  BY <1>3
<1> QED
  BY <1>1, <1>2, <1>3 DEF Writing

LEMMA ReadTypes ==
  ASSUME NEW r \in {[phase |-> "none"]} \cup Read, r.phase # "none"
  PROVE  r \in Read
OBVIOUS

\* WriteBegin derives a version that nobody knows.
LEMMA WriteBeginStep ==
  ASSUME ReplicaAssumption, ReplicaIInv, NEW c \in Coordinators, NEW S \in contexts, WriteBegin(c, S)
  PROVE  /\ StepSound /\ Known' \subseteq Known
         /\ wr'[c].phase = "derived"
         /\ \A m \in Nodes \ {c} : wr'[m] = wr[m]
         /\ \A v \in S : v \in Version
         /\ wr'[c].ver \in Version
         /\ \A n \in Nodes \ {c} : \/ wr'[c].ver.clock[n] = 0
                                   \/ \E v \in S : wr'[c].ver.clock[n] = v.clock[n]
         /\ wr'[c].ver.clock[c] > 0 /\ \A v \in rec[c] : wr'[c].ver.clock[c] > v.clock[c]
<1>1. KVTypeOK /\ RecordsFinite
  BY DEF ReplicaIInv
<1>2. c \in Nodes
  BY DEF ReplicaAssumption
<1>3. S \in SUBSET Version /\ IsFiniteSet(S)
  BY <1>1, Types DEF RecordsFinite
<1> DEFINE client == Join({v.clock : v \in S})
<1>4. client \in [Nodes -> Nat] /\ \A n \in Nodes : client[n] = 0 \/ \E v \in S : client[n] = v.clock[n]
  BY <1>3, JoinClock
<1>5. PICK clock \in NextClocks(c, client) :
        wr' = [wr EXCEPT ![c] = [phase |-> "derived", ver |-> [id |-> writes + 1, clock |-> clock]]]
  BY DEF WriteBegin
<1> HIDE DEF client
<1>6. rec[c] \in SUBSET Version /\ IsFiniteSet(rec[c])
  BY <1>1, <1>2, Types DEF RecordsFinite
<1>7. /\ clock \in [Nodes -> Nat]
      /\ clock[c] > client[c] /\ \A v \in rec[c] : clock[c] > v.clock[c]
      /\ \A n \in Nodes \ {c} : clock[n] = 0 \/ clock[n] = client[n]
  BY <1>2, <1>4, <1>6, NextClock
<1> DEFINE ver == [id |-> writes + 1, clock |-> clock]
<1>8. writes < MaxVersions /\ writes' = writes + 1
      /\ UNCHANGED <<alive, rec, hints, tasks, rd, acked, contexts, syncing, reads, faults>>
  BY DEF WriteBegin
<1>9. writes \in 0..MaxVersions /\ MaxVersions \in Nat
  BY <1>1, Types DEF ReplicaAssumption
<1>10. ver \in Version /\ writes' \in 0..MaxVersions
  BY <1>7, <1>8, <1>9 DEF Version
<1> HIDE DEF ver
<1>11. wr' = [wr EXCEPT ![c] = [phase |-> "derived", ver |-> ver]]
  BY <1>5 DEF ver
<1>12. wr \in [Nodes -> Writing]
  BY <1>1, Types
<1>13. wr' \in [Nodes -> Writing]
  BY <1>2, <1>10, <1>11, <1>12 DEF Writing
<1>14. wr'[c] = [phase |-> "derived", ver |-> ver] /\ \A m \in Nodes \ {c} : wr'[m] = wr[m]
  BY <1>2, <1>11, <1>12
<1>15. KVTypeOK'
  <2>1. alive[c]
    BY DEF WriteBegin
  <2>2. \A n \in Nodes : wr'[n] # NoWrite => alive'[n]
    BY <1>1, <1>8, <1>14, <2>1, Types
  <2> QED
    BY <1>1, <1>8, <1>10, <1>13, <2>2 DEF KVTypeOK
<1>16. RecordsFinite' /\ HintsHeld
  BY <1>1, <1>8 DEF RecordsFinite, HintsHeld
<1>17. RecordsGrow
  BY <1>1, <1>8, RecordsStay
<1>18. Known' \subseteq Known
  <2>1. \A n \in Nodes : wr'[n].phase = "waiting" => wr'[n].ver \in Known
    BY <1>14, KnownWays
  <2> QED
    BY <1>8, <2>1, KnownWays, KnownNext
<1>19. ver.clock = clock
  BY DEF ver
<1>20. clock[c] > 0
  <2>1. clock[c] \in Nat /\ client[c] \in Nat
    BY <1>2, <1>4, <1>7
  <2> QED
    BY <2>1, <1>7
<1>21. wr'[c].ver = ver /\ wr'[c].phase = "derived"
  BY <1>14
<1>22. \A n \in Nodes \ {c} : clock[n] = 0 \/ \E v \in S : clock[n] = v.clock[n]
  BY <1>4, <1>7
<1> QED
  BY <1>3, <1>7, <1>10, <1>14, <1>15, <1>16, <1>17, <1>18, <1>19, <1>20, <1>21, <1>22 DEF StepSound

\* WriteFanOut makes the derived version known.
LEMMA WriteFanOutStep ==
  ASSUME ReplicaAssumption, ReplicaIInv, NEW c \in Coordinators,
         NEW down \in SUBSET (Nodes \ {c}), WriteFanOut(c, down)
  PROVE  /\ StepSound /\ Known' \subseteq Known \cup {wr[c].ver}
         /\ wr[c].ver \in Version
         /\ \E w \in rec'[c] : Geq(w.clock, wr[c].ver.clock)
         /\ wr'[c] = [phase |-> "waiting", ver |-> wr[c].ver, acks |-> {}]
         /\ \A m \in Nodes \ {c} : wr'[m] = wr[m]
         /\ \A t \in tasks' : t \in tasks \/
              /\ t.coord = c /\ t.original # c /\ t.ver = wr[c].ver
              /\ t.original = None => t.phase = "send" /\ t.node \in Primary
              /\ t.original # None => t.phase = "hint"
<1>1. KVTypeOK /\ RecordsFinite
  BY DEF ReplicaIInv
<1>2. c \in Nodes
  BY DEF ReplicaAssumption
<1> DEFINE ver == wr[c].ver
<1> DEFINE Task0(t) == [coord |-> c, node |-> t[1], original |-> t[2], ver |-> ver,
         phase |-> IF t[2] = None THEN "send" ELSE "hint"]
<1>3. /\ wr[c].phase = "derived" /\ rec' = Merged(c, {ver})
      /\ tasks' = tasks \cup {Task0(t) : t \in Targets(down)}
      /\ wr' = [wr EXCEPT ![c] = [phase |-> "waiting", ver |-> ver, acks |-> {}]]
      /\ UNCHANGED <<alive, hints, rd, acked, contexts, syncing, writes, reads, faults>>
  BY DEF WriteFanOut
<1>4. wr \in [Nodes -> Writing] /\ wr[c] \in Writing
  BY <1>1, <1>2, Types
<1>5. ver \in Version /\ wr[c] # NoWrite
  BY <1>3, <1>4, WritingTypes DEF NoWrite
<1> HIDE DEF ver
<1>6. {ver} \in SUBSET Version /\ IsFiniteSet({ver})
  BY <1>5, FS_Singleton
<1>7. /\ rec' \in [Nodes -> SUBSET Version]
      /\ \A m \in Nodes : IsFiniteSet(rec'[m]) /\ rec'[m] \subseteq rec[m] \cup {ver}
      /\ RecordsGrow
      /\ \A v \in {ver} : \E w \in rec'[c] : Geq(w.clock, v.clock)
  BY <1>1, <1>2, <1>3, <1>6, MergeStep
<1>8. ASSUME NEW t \in Targets(down)
      PROVE  /\ Task0(t) \in Task /\ Task0(t).original # c
             /\ Task0(t).original = None => Task0(t).phase = "send" /\ Task0(t).node \in Primary
             /\ Task0(t).original # None => Task0(t).phase = "hint"
  BY <1>2, <1>5, TargetsSound DEF Task
<1>9. \A t \in tasks' : t \in tasks \/
              /\ t \in Task
              /\ t.coord = c /\ t.original # c /\ t.ver = ver
              /\ t.original = None => t.phase = "send" /\ t.node \in Primary
              /\ t.original # None => t.phase = "hint"
  BY <1>3, <1>8
<1>10. wr'[c] = [phase |-> "waiting", ver |-> ver, acks |-> {}] /\ \A m \in Nodes \ {c} : wr'[m] = wr[m]
  BY <1>2, <1>3, <1>4
<1>11. wr' \in [Nodes -> Writing]
  BY <1>2, <1>3, <1>4, <1>5 DEF Writing
<1>12. KVTypeOK'
  <2>1. alive[c]
    BY <1>1, <1>2, <1>5, Types
  <2>2. \A n \in Nodes : wr'[n] # NoWrite => alive'[n]
    BY <1>1, <1>3, <1>10, <2>1, Types
  <2>3. tasks' \in SUBSET Task /\ \A t \in tasks' : alive'[t.coord]
    BY <1>1, <1>3, <1>9, <2>1, Types
  <2> QED
    BY <1>1, <1>3, <1>7, <1>11, <2>2, <2>3 DEF KVTypeOK
<1>13. RecordsFinite' /\ HintsHeld
  BY <1>1, <1>3, <1>7 DEF RecordsFinite, HintsHeld
<1>14. Known' \subseteq Known \cup {ver}
  <2> DEFINE K == Known \cup {ver}
  <2>1. \A n \in Nodes : wr'[n].phase = "waiting" => wr'[n].ver \in K
    BY <1>10, KnownWays
  <2>2. \A n \in Nodes : rec'[n] \subseteq K
    BY <1>7, KnownWays
  <2>3. \A t \in tasks' : t.ver \in K
    BY <1>9, KnownWays
  <2>4. /\ \A a \in acked' : a.ver \in K
        /\ \A n \in Nodes : \A h \in hints'[n] : h.ver \in K
        /\ \A S \in contexts' : S \subseteq K
        /\ rd'.phase = "open" => rd'.found \subseteq K
    BY <1>3, KnownWays
  <2> HIDE DEF K
  <2>5. Known' \subseteq K
    BY <2>1, <2>2, <2>3, <2>4, KnownNext
  <2> QED
    BY <2>5 DEF K
<1> QED
  BY <1>5, <1>7, <1>9, <1>10, <1>12, <1>13, <1>14 DEF StepSound, ver

\* SaveHint moves a task on after its hint is in the journal.
LEMMA SaveHintStep ==
  ASSUME ReplicaAssumption, ReplicaIInv, NEW t \in tasks, SaveHint(t)
  PROVE  /\ StepSound /\ Known' \subseteq Known
         /\ [target |-> t.original, ver |-> t.ver] \in hints'[t.coord]
         /\ \A s \in tasks' : s \in tasks \/ s = [t EXCEPT !.phase = "send"]
<1>1. KVTypeOK /\ RecordsFinite
  BY DEF ReplicaIInv
<1> DEFINE h == [target |-> t.original, ver |-> t.ver]
<1>2. /\ t.phase = "hint"
      /\ hints' = [hints EXCEPT ![t.coord] = @ \cup {h}]
      /\ tasks' = (tasks \ {t}) \cup {[t EXCEPT !.phase = "send"]}
      /\ UNCHANGED <<alive, rec, wr, rd, acked, contexts, syncing, writes, reads, faults>>
  BY DEF SaveHint
<1>3. t \in Task
  BY <1>1, Types
<1>4. t.coord \in Nodes /\ t.original \in Nodes /\ t.original # t.coord /\ t.ver \in Version
  <2>1. t.original # t.coord /\ t.original # None
    BY <1>2 DEF ReplicaIInv, TasksSound
  <2> QED
    BY <1>3, <2>1 DEF Task
<1>5. h \in [target : Nodes, ver : Version]
  BY <1>4
<1>6. h.target # t.coord /\ h.ver = t.ver
  BY <1>4
<1> HIDE DEF h
<1>7. hints \in [Nodes -> SUBSET [target : Nodes, ver : Version]]
  BY <1>1, Types
<1>8. /\ hints'[t.coord] = hints[t.coord] \cup {h}
      /\ \A n \in Nodes \ {t.coord} : hints'[n] = hints[n]
      /\ hints' \in [Nodes -> SUBSET [target : Nodes, ver : Version]]
  BY <1>2, <1>4, <1>5, <1>7
<1>9. \A n \in Nodes : \A g \in hints'[n] : g.target # n
  BY <1>1, <1>6, <1>8, Types
<1> DEFINE s == [t EXCEPT !.phase = "send"]
<1>10. s \in Task /\ s.coord = t.coord /\ s.ver = t.ver
  BY <1>3 DEF Task
<1> HIDE DEF s
<1>11. tasks' = (tasks \ {t}) \cup {s}
  BY <1>2 DEF s
<1>12. KVTypeOK'
  <2>1. tasks' \in SUBSET Task /\ \A x \in tasks' : alive'[x.coord]
    BY <1>1, <1>2, <1>10, <1>11, Types
  <2> QED
    BY <1>1, <1>2, <1>8, <1>9, <2>1 DEF KVTypeOK
<1>13. RecordsFinite' /\ HintsHeld
  BY <1>1, <1>2, <1>8 DEF RecordsFinite, HintsHeld
<1>14. RecordsGrow
  BY <1>1, <1>2, RecordsStay
<1>15. Known' \subseteq Known
  <2>1. \A x \in tasks' : x.ver \in Known
    BY <1>10, <1>11, KnownWays
  <2>2. \A n \in Nodes : \A g \in hints'[n] : g.ver \in Known
    BY <1>6, <1>8, KnownWays
  <2> QED
    BY <1>2, <2>1, <2>2, KnownWays, KnownNext
<1> QED
  BY <1>8, <1>11, <1>12, <1>13, <1>14, <1>15 DEF StepSound, h, s

\* What _collect may do with the answer of a task: the write it belongs to gets
\* its acknowledgement, is acknowledged to the client, or ends.
CollectSound(t, acks) ==
  /\ wr' \in [Nodes -> Writing]
  /\ \A n \in Nodes : wr'[n] # NoWrite => wr[n] # NoWrite
  /\ \A n \in Nodes : wr'[n].phase = "derived" => wr'[n] = wr[n]
  /\ \A n \in Nodes : wr'[n].phase = "waiting" =>
       /\ wr[n].phase = "waiting" /\ wr'[n].ver = wr[n].ver
       /\ \A k \in wr'[n].acks : k \in wr[n].acks \/ (n = t.coord /\ wr[n].ver = t.ver /\ k \in acks)
  /\ \A a \in acked' : a \in acked \/
       /\ a \in [ver : Version, acks : SUBSET Acks, coord : Nodes]
       /\ a.coord = t.coord /\ a.ver = t.ver /\ Cardinality(a.acks) >= W
       /\ wr[t.coord].phase = "waiting" /\ wr[t.coord].ver = t.ver
       /\ \A k \in a.acks : k \in wr[t.coord].acks \/ k \in acks
  /\ \A S \in contexts' : S \in contexts \/ S = {t.ver}

LEMMA CollectStep ==
  ASSUME KVTypeOK, NEW t \in tasks, NEW acks \in SUBSET Acks, Collect(t, acks)
  PROVE  CollectSound(t, acks)
<1> DEFINE c == t.coord
<1> DEFINE w == wr[c]
<1> DEFINE mine == w.phase = "waiting" /\ w.ver = t.ver
<1> DEFINE now == w.acks \cup acks
<1>1. t \in Task /\ c \in Nodes /\ t.ver \in Version
  BY Types DEF Task
<1>2. wr \in [Nodes -> Writing] /\ w \in Writing
  BY <1>1, Types
<1>3. CASE ~mine
  <2>1. UNCHANGED <<wr, acked, contexts>>
    BY <1>3 DEF Collect
  <2> QED
    BY <1>2, <2>1 DEF CollectSound
<1>4. CASE mine /\ Cardinality(now) >= W
  <2>1. /\ wr' = [wr EXCEPT ![c] = NoWrite]
        /\ acked' = acked \cup {[ver |-> w.ver, acks |-> now, coord |-> c]}
        /\ contexts' = contexts \cup {{w.ver}}
    BY <1>4 DEF Collect
  <2>2. w.acks \in SUBSET Acks /\ w.ver \in Version
    BY <1>2, <1>4, WritingTypes
  <2>3. wr'[c] = NoWrite /\ (\A n \in Nodes \ {c} : wr'[n] = wr[n]) /\ NoWrite.phase = "idle"
    BY <1>1, <1>2, <2>1 DEF NoWrite
  <2>4. wr' \in [Nodes -> Writing]
    BY <1>1, <1>2, <2>1 DEF Writing
  <2> DEFINE b == [ver |-> w.ver, acks |-> now, coord |-> c]
  <2>5. /\ b \in [ver : Version, acks : SUBSET Acks, coord : Nodes]
        /\ b.coord = t.coord /\ b.ver = t.ver /\ b.acks = now
    BY <1>1, <1>4, <2>2
  <2>6. acked' = acked \cup {b} /\ contexts' = contexts \cup {{t.ver}}
    BY <1>4, <2>1
  <2> HIDE DEF b
  <2>7. \A n \in Nodes : /\ wr'[n] # NoWrite => wr[n] # NoWrite
                         /\ wr'[n].phase = "derived" => wr'[n] = wr[n]
    BY <2>3
  <2>8. ASSUME NEW n \in Nodes, wr'[n].phase = "waiting"
        PROVE  wr[n].phase = "waiting" /\ wr'[n].ver = wr[n].ver /\ wr'[n].acks = wr[n].acks
    BY <2>3, <2>8
  <2>9. ASSUME NEW a \in acked', a \notin acked
        PROVE  /\ a \in [ver : Version, acks : SUBSET Acks, coord : Nodes]
               /\ a.coord = t.coord /\ a.ver = t.ver /\ Cardinality(a.acks) >= W
               /\ wr[t.coord].phase = "waiting" /\ wr[t.coord].ver = t.ver
               /\ \A k \in a.acks : k \in wr[t.coord].acks \/ k \in acks
    BY <1>4, <2>5, <2>6, <2>9
  <2>10. \A S \in contexts' : S \in contexts \/ S = {t.ver}
    BY <2>6
  <2> QED
    BY <2>4, <2>7, <2>8, <2>9, <2>10 DEF CollectSound
<1>5. CASE mine /\ ~(Cardinality(now) >= W)
  <2>1. /\ UNCHANGED <<acked, contexts>>
        /\ \/ wr' = [wr EXCEPT ![c] = NoWrite]
           \/ wr' = [wr EXCEPT ![c] = [w EXCEPT !.acks = now]]
    BY <1>5 DEF Collect
  <2>2. w \in [phase : {"waiting"}, ver : Version, acks : SUBSET Acks]
    BY <1>2, <1>5, WritingTypes
  <2>3. CASE wr' = [wr EXCEPT ![c] = NoWrite]
    <3>1. wr'[c] = NoWrite /\ (\A n \in Nodes \ {c} : wr'[n] = wr[n]) /\ NoWrite.phase = "idle"
      BY <1>1, <1>2, <2>3 DEF NoWrite
    <3>2. wr' \in [Nodes -> Writing]
      BY <1>1, <1>2, <2>3 DEF Writing
    <3>3. \A n \in Nodes : /\ wr'[n] # NoWrite => wr[n] # NoWrite
                           /\ wr'[n].phase = "derived" => wr'[n] = wr[n]
                           /\ wr'[n].phase = "waiting" => wr'[n] = wr[n]
      BY <3>1
    <3> QED
      BY <2>1, <3>2, <3>3 DEF CollectSound
  <2>4. CASE wr' = [wr EXCEPT ![c] = [w EXCEPT !.acks = now]]
    <3> DEFINE x == [w EXCEPT !.acks = now]
    <3>1. x \in [phase : {"waiting"}, ver : Version, acks : SUBSET Acks] /\ x.ver = w.ver /\ x.acks = now
      BY <2>2
    <3>2. x.phase = "waiting" /\ x \in Writing
      BY <3>1 DEF Writing
    <3>3. wr' = [wr EXCEPT ![c] = x]
      BY <2>4
    <3> HIDE DEF x
    <3>4. wr'[c] = x /\ (\A n \in Nodes \ {c} : wr'[n] = wr[n]) /\ wr' \in [Nodes -> Writing]
      BY <1>1, <1>2, <3>2, <3>3
    <3>5. w # NoWrite
      BY <1>5 DEF NoWrite
    <3>6. \A n \in Nodes : /\ wr'[n] # NoWrite => wr[n] # NoWrite
                           /\ wr'[n].phase = "derived" => wr'[n] = wr[n]
      BY <3>2, <3>4, <3>5
    <3>7. ASSUME NEW n \in Nodes, wr'[n].phase = "waiting"
          PROVE  /\ wr[n].phase = "waiting" /\ wr'[n].ver = wr[n].ver
                 /\ \A k \in wr'[n].acks : k \in wr[n].acks \/ (n = t.coord /\ wr[n].ver = t.ver /\ k \in acks)
      BY <1>5, <3>1, <3>4, <3>7
    <3> QED
      BY <2>1, <3>4, <3>6, <3>7 DEF CollectSound
  <2> QED
    BY <2>1, <2>3, <2>4
<1> QED
  BY <1>3, <1>4, <1>5

\* What the end of a task leaves typed, finite and known, when it may have merged
\* the task's version at its node and saved a hint of it.
LEMMA TaskEnds ==
  ASSUME ReplicaAssumption, ReplicaIInv, NEW t \in tasks, NEW acks \in SUBSET Acks, Collect(t, acks),
         rec' = Merged(t.node, {t.ver}) \/ rec' = rec,
         NEW H \in SUBSET [target : Nodes \ {t.coord}, ver : {t.ver}],
         hints' = [hints EXCEPT ![t.coord] = @ \cup H],
         tasks' = tasks \ {t}, faults' \in 0..MaxOutages,
         UNCHANGED <<alive, rd, syncing, writes, reads>>
  PROVE  StepSound /\ Known' \subseteq Known
<1>1. KVTypeOK /\ RecordsFinite
  BY DEF ReplicaIInv
<1>2. t \in Task
  BY <1>1, Types
<1>3. t.coord \in Nodes /\ t.node \in Nodes /\ t.ver \in Version
  BY <1>2 DEF Task
<1>4. CollectSound(t, acks)
  BY <1>1, CollectStep
<1>5. {t.ver} \in SUBSET Version /\ IsFiniteSet({t.ver})
  BY <1>3, FS_Singleton
<1>6. /\ rec' \in [Nodes -> SUBSET Version]
      /\ \A m \in Nodes : IsFiniteSet(rec'[m]) /\ rec'[m] \subseteq rec[m] \cup {t.ver}
      /\ RecordsGrow
  <2>1. CASE rec' = Merged(t.node, {t.ver})
    BY <1>1, <1>3, <1>5, <2>1, MergeStep
  <2>2. CASE rec' = rec
    BY <1>1, <2>2, RecordsStay
  <2> QED
    BY <2>1, <2>2
<1>7. hints \in [Nodes -> SUBSET [target : Nodes, ver : Version]]
  BY <1>1, Types
<1>8. H \in SUBSET [target : Nodes, ver : Version] /\ \A h \in H : h.target # t.coord /\ h.ver = t.ver
  BY <1>3
<1>9. /\ hints'[t.coord] = hints[t.coord] \cup H
      /\ \A n \in Nodes \ {t.coord} : hints'[n] = hints[n]
      /\ hints' \in [Nodes -> SUBSET [target : Nodes, ver : Version]]
  BY <1>3, <1>7, <1>8
<1>10. \A n \in Nodes : \A h \in hints'[n] : h.target # n
  BY <1>1, <1>8, <1>9, Types
<1>11. contexts' \in SUBSET SUBSET Version
  BY <1>1, <1>3, <1>4, Types DEF CollectSound
<1>12. acked' \in SUBSET [ver : Version, acks : SUBSET Acks, coord : Nodes]
  BY <1>1, <1>4, Types DEF CollectSound
<1>13. wr' \in [Nodes -> Writing] /\ \A n \in Nodes : wr'[n] # NoWrite => alive'[n]
  BY <1>1, <1>4, Types DEF CollectSound
<1>14. KVTypeOK'
  <2>1. tasks' \in SUBSET Task /\ \A s \in tasks' : alive'[s.coord]
    BY <1>1, Types
  <2> QED
    BY <1>1, <1>6, <1>9, <1>10, <1>11, <1>12, <1>13, <2>1 DEF KVTypeOK
<1>15. RecordsFinite'
  BY <1>1, <1>4, <1>5, <1>6 DEF RecordsFinite, CollectSound
<1>16. HintsHeld
  BY <1>9 DEF HintsHeld
<1>17. Known' \subseteq Known
  <2>1. t.ver \in Known
    BY KnownWays
  <2>2. \A n \in Nodes : rec'[n] \subseteq Known
    BY <1>6, <2>1, KnownWays
  <2>3. \A s \in tasks' : s.ver \in Known
    BY KnownWays
  <2>4. \A a \in acked' : a.ver \in Known
    BY <1>4, <2>1, KnownWays DEF CollectSound
  <2>5. \A n \in Nodes : \A h \in hints'[n] : h.ver \in Known
    BY <1>8, <1>9, <2>1, KnownWays
  <2>6. \A S \in contexts' : S \subseteq Known
    BY <1>4, <2>1, KnownWays DEF CollectSound
  <2>7. \A n \in Nodes : wr'[n].phase = "waiting" => wr'[n].ver \in Known
    BY <1>4, KnownWays DEF CollectSound
  <2>8. rd'.phase = "open" => rd'.found \subseteq Known
    BY KnownWays
  <2> QED
    BY <2>2, <2>3, <2>4, <2>5, <2>6, <2>7, <2>8, KnownNext
<1> QED
  BY <1>6, <1>14, <1>15, <1>16, <1>17 DEF StepSound

LEMMA ReplicateStep ==
  ASSUME ReplicaAssumption, ReplicaIInv, NEW t \in tasks, Replicate(t)
  PROVE  /\ StepSound /\ Known' \subseteq Known
         /\ CollectSound(t, {<<t.node, t.original>>})
         /\ \E w \in rec'[t.node] : Geq(w.clock, t.ver.clock)
<1>1. KVTypeOK /\ RecordsFinite
  BY DEF ReplicaIInv
<1>2. t \in Task
  BY <1>1, Types
<1>3. t.coord \in Nodes /\ t.node \in Nodes /\ t.original \in Nodes \cup {None} /\ t.ver \in Version
  BY <1>2 DEF Task
<1> DEFINE acks == {<<t.node, t.original>>}
<1>4. acks \in SUBSET Acks
  BY <1>3 DEF Acks
<1>5. /\ rec' = Merged(t.node, {t.ver}) /\ tasks' = tasks \ {t} /\ Collect(t, acks)
      /\ UNCHANGED <<alive, hints, rd, syncing, writes, reads, faults>>
  BY DEF Replicate
<1> HIDE DEF acks
<1>6. {t.ver} \in SUBSET Version /\ IsFiniteSet({t.ver})
  BY <1>3, FS_Singleton
<1>7. \A v \in {t.ver} : \E w \in rec'[t.node] : Geq(w.clock, v.clock)
  BY <1>1, <1>3, <1>5, <1>6, MergeStep
<1>8. hints' = [hints EXCEPT ![t.coord] = @ \cup {}]
  <2>1. hints \in [Nodes -> SUBSET [target : Nodes, ver : Version]]
    BY <1>1, Types
  <2> QED
    BY <1>3, <1>5, <2>1
<1>9. faults' \in 0..MaxOutages
  BY <1>1, <1>5, Types
<1>10. StepSound /\ Known' \subseteq Known
  BY <1>4, <1>5, <1>8, <1>9, TaskEnds
<1> QED
  BY <1>1, <1>4, <1>5, <1>7, <1>10, CollectStep DEF acks

LEMMA ReplicateFailsStep ==
  ASSUME ReplicaAssumption, ReplicaIInv, NEW t \in tasks, NEW executed \in BOOLEAN,
         ReplicateFails(t, executed)
  PROVE  StepSound /\ Known' \subseteq Known /\ CollectSound(t, {})
<1>1. KVTypeOK /\ RecordsFinite
  BY DEF ReplicaIInv
<1>2. t \in Task
  BY <1>1, Types
<1>3. t.coord \in Nodes /\ t.node \in Nodes /\ t.original \in Nodes \cup {None} /\ t.ver \in Version
  BY <1>2 DEF Task
<1> DEFINE h == [target |-> IF t.original = None THEN t.node ELSE t.original, ver |-> t.ver]
<1>4. /\ t.node # t.coord /\ (alive[t.node] => faults < MaxOutages)
      /\ faults' = IF alive[t.node] THEN faults + 1 ELSE faults
      /\ rec' = IF executed THEN Merged(t.node, {t.ver}) ELSE rec
      /\ hints' = [hints EXCEPT ![t.coord] = @ \cup {h}]
      /\ tasks' = tasks \ {t} /\ Collect(t, {})
      /\ UNCHANGED <<alive, rd, syncing, writes, reads>>
  BY DEF ReplicateFails
<1>5. t.original # t.coord
  BY DEF ReplicaIInv, TasksSound
<1>6. {h} \in SUBSET [target : Nodes \ {t.coord}, ver : {t.ver}]
  BY <1>3, <1>4, <1>5
<1> HIDE DEF h
<1>7. faults' \in 0..MaxOutages
  <2>1. faults \in 0..MaxOutages /\ MaxOutages \in Nat
    BY <1>1, Types DEF ReplicaAssumption
  <2> QED
    BY <1>4, <2>1
<1>8. rec' = Merged(t.node, {t.ver}) \/ rec' = rec
  BY <1>4
<1>9. {} \in SUBSET Acks
  OBVIOUS
<1>10. StepSound /\ Known' \subseteq Known
  BY <1>4, <1>6, <1>7, <1>8, <1>9, TaskEnds
<1> QED
  BY <1>1, <1>4, <1>9, <1>10, CollectStep

\* Reads leave records and hints alone.
LEMMA ReadBeginStep ==
  ASSUME ReplicaAssumption, ReplicaIInv, NEW c \in Coordinators,
         NEW down \in SUBSET (Nodes \ {c}), ReadBegin(c, down)
  PROVE  StepSound /\ Known' \subseteq Known
<1>1. KVTypeOK /\ RecordsFinite
  BY DEF ReplicaIInv
<1>2. c \in Nodes
  BY DEF ReplicaAssumption
<1>3. /\ reads < MaxReads /\ reads' = reads + 1
      /\ rd' = [phase |-> "open", coord |-> c, todo |-> {t[1] : t \in Targets(down)}, got |-> 0,
                found |-> {}, strict |-> \A t \in Targets(down) : t[2] = None,
                must |-> {a.ver : a \in {x \in acked : \A k \in x.acks : k[2] = None}}]
      /\ UNCHANGED <<alive, rec, hints, wr, tasks, acked, contexts, syncing, writes, faults>>
  BY DEF ReadBegin
<1> DEFINE todo == {t[1] : t \in Targets(down)}
<1> DEFINE strict == \A t \in Targets(down) : t[2] = None
<1> DEFINE must == {a.ver : a \in {x \in acked : \A k \in x.acks : k[2] = None}}
<1>4. todo \in SUBSET Nodes /\ strict \in BOOLEAN
  BY <1>2, TargetsSound
<1>5. must \in SUBSET Version
  BY <1>1, Types
<1>6. rd' = [phase |-> "open", coord |-> c, todo |-> todo, got |-> 0, found |-> {},
             strict |-> strict, must |-> must]
  BY <1>3
<1> HIDE DEF todo, strict, must
<1>7. rd' \in Read /\ rd'.found = {}
  BY <1>2, <1>4, <1>5, <1>6 DEF Read
<1>8. reads' \in 0..MaxReads
  <2>1. reads \in 0..MaxReads /\ MaxReads \in Nat
    BY <1>1, Types DEF ReplicaAssumption
  <2> QED
    BY <1>3, <2>1
<1>9. KVTypeOK'
  BY <1>1, <1>3, <1>7, <1>8 DEF KVTypeOK
<1>10. RecordsFinite' /\ HintsHeld
  BY <1>1, <1>3, <1>7, FS_EmptySet DEF RecordsFinite, HintsHeld
<1>11. RecordsGrow
  BY <1>1, <1>3, RecordsStay
<1>12. Known' \subseteq Known
  BY <1>3, <1>7, KnownWays, KnownNext
<1> QED
  BY <1>9, <1>10, <1>11, <1>12 DEF StepSound

\* What an answer does to an open read.
LEMMA ReadReplyStep ==
  ASSUME ReplicaAssumption, ReplicaIInv, NEW n \in Nodes, ReadReply(n)
  PROVE  /\ StepSound /\ Known' \subseteq Known
         /\ rd \in Read /\ rd' \in Read /\ rd.phase = "open" /\ n \in rd.todo
         /\ rd'.strict = rd.strict /\ rd'.must = rd.must /\ rd'.todo = rd.todo \ {n}
         /\ rd'.got = rd.got + 1
         /\ rd'.phase = "open" \/ (rd'.phase = "done" /\ rd'.got = R)
         /\ \A v \in rd.found \cup rec[n] : Covered(v, rd'.found)
<1>1. KVTypeOK /\ RecordsFinite
  BY DEF ReplicaIInv
<1> DEFINE all == rd.found \cup rec[n]
<1> DEFINE last == rd.got + 1 = R
<1>2. /\ rd.phase = "open" /\ n \in rd.todo
      /\ rd' = [rd EXCEPT !.todo = @ \ {n}, !.got = @ + 1, !.found = IF last THEN Reconcile(all) ELSE all,
                          !.phase = IF last THEN "done" ELSE "open"]
      /\ contexts' = IF last THEN contexts \cup {Reconcile(all)} ELSE contexts
      /\ UNCHANGED <<alive, rec, hints, wr, tasks, acked, syncing, writes, reads, faults>>
  BY DEF ReadReply
<1>3. rd \in Read
  BY <1>1, <1>2, Types, ReadTypes
<1>4. all \in SUBSET Version /\ IsFiniteSet(all)
  <2>1. rd.found \in SUBSET Version /\ IsFiniteSet(rd.found)
    BY <1>1, <1>2, <1>3 DEF Read, RecordsFinite
  <2>2. rec[n] \in SUBSET Version /\ IsFiniteSet(rec[n])
    BY <1>1, Types DEF RecordsFinite
  <2> QED
    BY <2>1, <2>2, FS_Union
<1>5. all \subseteq Known
  BY <1>2, KnownWays
<1>6. /\ Reconcile(all) \in SUBSET all /\ IsFiniteSet(Reconcile(all))
      /\ \A v \in all : Covered(v, Reconcile(all))
  <2> HIDE DEF all
  <2> QED
    BY <1>4, ReconcileCovers
<1>7. \A v \in all : Covered(v, all)
  <2>1. \A v \in all : v.clock \in [Nodes -> Nat]
    BY <1>4 DEF Version
  <2> HIDE DEF all
  <2> QED
    BY <2>1, GeqOrder DEF Covered
<1> HIDE DEF all
<1> DEFINE found == IF last THEN Reconcile(all) ELSE all
<1>8. found \in SUBSET Version /\ IsFiniteSet(found) /\ found \subseteq Known
      /\ \A v \in all : Covered(v, found)
  BY <1>4, <1>5, <1>6, <1>7
<1>9. rd' = [rd EXCEPT !.todo = @ \ {n}, !.got = @ + 1, !.found = found,
                       !.phase = IF last THEN "done" ELSE "open"]
  BY <1>2
<1>10. contexts' \subseteq contexts \cup {found}
  BY <1>2
<1> HIDE DEF found
<1>11. /\ rd'.todo = rd.todo \ {n} /\ rd'.got = rd.got + 1 /\ rd'.found = found
       /\ rd'.phase = (IF last THEN "done" ELSE "open")
       /\ rd'.strict = rd.strict /\ rd'.must = rd.must /\ rd'.coord = rd.coord
  BY <1>3, <1>9 DEF Read
<1>12. rd' \in Read
  <2> DEFINE phase == IF last THEN "done" ELSE "open"
  <2> DEFINE todo == rd.todo \ {n}
  <2> DEFINE got == rd.got + 1
  <2>1. phase \in {"open", "done", "failed"} /\ todo \in SUBSET Nodes /\ got \in Nat
    BY <1>3 DEF Read
  <2>2. rd' = [rd EXCEPT !.todo = todo, !.got = got, !.found = found, !.phase = phase]
    BY <1>9
  <2> HIDE DEF phase, todo, got
  <2> QED
    BY <1>3, <1>8, <2>1, <2>2 DEF Read
<1>13. KVTypeOK'
  <2>1. contexts' \in SUBSET SUBSET Version
    BY <1>1, <1>8, <1>10, Types
  <2> QED
    BY <1>1, <1>2, <1>12, <2>1 DEF KVTypeOK
<1>14. RecordsFinite' /\ HintsHeld
  BY <1>1, <1>2, <1>8, <1>10, <1>11 DEF RecordsFinite, HintsHeld
<1>15. RecordsGrow
  BY <1>1, <1>2, RecordsStay
<1>16. Known' \subseteq Known
  <2>1. \A S \in contexts' : S \subseteq Known
    BY <1>8, <1>10, KnownWays
  <2> QED
    BY <1>2, <1>8, <1>11, <2>1, KnownWays, KnownNext
<1> QED
  BY <1>2, <1>3, <1>8, <1>11, <1>12, <1>13, <1>14, <1>15, <1>16 DEF StepSound, all

LEMMA ReadFailsStep ==
  ASSUME ReplicaAssumption, ReplicaIInv, NEW n \in Nodes, ReadFails(n)
  PROVE  /\ StepSound /\ Known' \subseteq Known
         /\ rd.phase = "open" /\ rd'.phase \in {"open", "failed"}
         /\ rd'.strict = rd.strict /\ rd'.must = rd.must /\ rd'.todo \subseteq rd.todo
         /\ rd'.got = rd.got /\ rd'.found = rd.found
<1>1. KVTypeOK /\ RecordsFinite
  BY DEF ReplicaIInv
<1>2. /\ rd.phase = "open" /\ (alive[n] => faults < MaxOutages)
      /\ faults' = IF alive[n] THEN faults + 1 ELSE faults
      /\ rd' = [rd EXCEPT !.todo = @ \ {n}, !.phase = IF rd.todo = {n} THEN "failed" ELSE "open"]
      /\ UNCHANGED <<alive, rec, hints, wr, tasks, acked, contexts, syncing, writes, reads>>
  BY DEF ReadFails
<1>3. rd \in Read
  BY <1>1, <1>2, Types, ReadTypes
<1>4. /\ rd'.todo = rd.todo \ {n} /\ rd'.got = rd.got /\ rd'.found = rd.found
      /\ rd'.phase \in {"open", "failed"}
      /\ rd'.strict = rd.strict /\ rd'.must = rd.must /\ rd'.coord = rd.coord
  BY <1>2, <1>3 DEF Read
<1>5. rd' \in Read
  BY <1>2, <1>3 DEF Read
<1>6. faults' \in 0..MaxOutages
  <2>1. faults \in 0..MaxOutages /\ MaxOutages \in Nat
    BY <1>1, Types DEF ReplicaAssumption
  <2> QED
    BY <1>2, <2>1
<1>7. KVTypeOK'
  BY <1>1, <1>2, <1>5, <1>6 DEF KVTypeOK
<1>8. RecordsFinite' /\ HintsHeld
  BY <1>1, <1>2, <1>4 DEF RecordsFinite, HintsHeld
<1>9. RecordsGrow
  BY <1>1, <1>2, RecordsStay
<1>10. Known' \subseteq Known
  BY <1>2, <1>4, KnownWays, KnownNext
<1> QED
  BY <1>2, <1>4, <1>7, <1>8, <1>9, <1>10 DEF StepSound

\* A step that merges known versions into the record of one node, or leaves the
\* records, and otherwise only ends syncs.
LEMMA RepairStep ==
  ASSUME ReplicaIInv, NEW n \in Nodes, NEW V \in SUBSET Version, IsFiniteSet(V), V \subseteq Known,
         rec' = Merged(n, V) \/ rec' = rec,
         syncing' \in [Nodes -> {NoSync} \cup [peer : Nodes, view : SUBSET Version]],
         UNCHANGED <<alive, hints, wr, tasks, rd, acked, contexts, writes, reads, faults>>
  PROVE  StepSound /\ Known' \subseteq Known
<1>1. KVTypeOK /\ RecordsFinite
  BY DEF ReplicaIInv
<1>2. /\ rec' \in [Nodes -> SUBSET Version]
      /\ \A m \in Nodes : IsFiniteSet(rec'[m]) /\ rec'[m] \subseteq rec[m] \cup V
      /\ RecordsGrow
  <2>1. CASE rec' = Merged(n, V)
    BY <1>1, <2>1, MergeStep
  <2>2. CASE rec' = rec
    BY <1>1, <2>2, RecordsStay
  <2> QED
    BY <2>1, <2>2
<1>3. KVTypeOK'
  BY <1>1, <1>2 DEF KVTypeOK
<1>4. RecordsFinite' /\ HintsHeld
  BY <1>1, <1>2 DEF RecordsFinite, HintsHeld
<1>5. Known' \subseteq Known
  <2>1. \A m \in Nodes : rec'[m] \subseteq Known
    BY <1>2, KnownWays
  <2> QED
    BY <2>1, KnownWays, KnownNext
<1> QED
  BY <1>2, <1>3, <1>4, <1>5 DEF StepSound

LEMMA SyncPullStep ==
  ASSUME ReplicaIInv, NEW n \in Nodes, NEW peer \in Nodes, SyncPull(n, peer)
  PROVE  StepSound /\ Known' \subseteq Known
<1>1. KVTypeOK /\ RecordsFinite
  BY DEF ReplicaIInv
<1>2. /\ rec' = IF n \in Primary THEN Merged(n, rec[peer]) ELSE rec
      /\ syncing' = [syncing EXCEPT ![n] = [peer |-> peer, view |-> rec'[n]]]
      /\ UNCHANGED <<alive, hints, wr, tasks, rd, acked, contexts, writes, reads, faults>>
  BY DEF SyncPull, Page
<1>3. rec[peer] \in SUBSET Version /\ IsFiniteSet(rec[peer]) /\ rec[peer] \subseteq Known
  BY <1>1, Types, KnownWays DEF RecordsFinite
<1>4. rec' = Merged(n, rec[peer]) \/ rec' = rec
  BY <1>2
<1>5. rec'[n] \in SUBSET Version
  <2>1. CASE rec' = Merged(n, rec[peer])
    BY <1>1, <1>3, <2>1, MergeStep
  <2>2. CASE rec' = rec
    BY <1>1, <2>2, Types
  <2> QED
    BY <1>4, <2>1, <2>2
<1>6. syncing' \in [Nodes -> {NoSync} \cup [peer : Nodes, view : SUBSET Version]]
  BY <1>1, <1>2, <1>5, Types
<1> QED
  BY <1>2, <1>3, <1>4, <1>6, RepairStep

LEMMA SyncPushStep ==
  ASSUME ReplicaIInv, NEW n \in Nodes, SyncPush(n)
  PROVE  StepSound /\ Known' \subseteq Known
<1>1. KVTypeOK /\ RecordsFinite
  BY DEF ReplicaIInv
<1> DEFINE peer == syncing[n].peer
<1>2. /\ peer # None
      /\ rec' = Merged(peer, rec[n]) \/ rec' = rec
      /\ syncing' = [syncing EXCEPT ![n] = NoSync]
      /\ UNCHANGED <<alive, hints, wr, tasks, rd, acked, contexts, writes, reads, faults>>
  BY DEF SyncPush
<1>3. syncing \in [Nodes -> {NoSync} \cup [peer : Nodes, view : SUBSET Version]]
  BY <1>1, Types
<1>4. peer \in Nodes
  <2>1. syncing[n] \in {NoSync} \cup [peer : Nodes, view : SUBSET Version]
    BY <1>3
  <2>2. syncing[n] # NoSync
    BY <1>2 DEF NoSync
  <2> QED
    BY <2>1, <2>2
<1> HIDE DEF peer
<1>5. syncing' \in [Nodes -> {NoSync} \cup [peer : Nodes, view : SUBSET Version]]
  BY <1>2, <1>3
<1>6. rec[n] \in SUBSET Version /\ IsFiniteSet(rec[n]) /\ rec[n] \subseteq Known
  BY <1>1, Types, KnownWays DEF RecordsFinite
<1> QED
  BY <1>2, <1>4, <1>5, <1>6, RepairStep

\* DeliverHint deletes a hint that its target now covers.
LEMMA DeliverHintStep ==
  ASSUME ReplicaIInv, NEW n \in Nodes, NEW h \in hints[n], DeliverHint(n, h)
  PROVE  StepSound /\ Known' \subseteq Known
<1>1. KVTypeOK /\ RecordsFinite
  BY DEF ReplicaIInv
<1>2. /\ rec' = Merged(h.target, {h.ver})
      /\ hints' = [hints EXCEPT ![n] = @ \ {h}]
      /\ UNCHANGED <<alive, wr, tasks, rd, acked, contexts, syncing, writes, reads, faults>>
  BY DEF DeliverHint
<1>3. hints \in [Nodes -> SUBSET [target : Nodes, ver : Version]]
  BY <1>1, Types
<1>4. h \in [target : Nodes, ver : Version]
  BY <1>3
<1>5. {h.ver} \in SUBSET Version /\ IsFiniteSet({h.ver}) /\ h.target \in Nodes
  BY <1>4, FS_Singleton
<1>6. /\ rec' \in [Nodes -> SUBSET Version]
      /\ \A m \in Nodes : IsFiniteSet(rec'[m]) /\ rec'[m] \subseteq rec[m] \cup {h.ver}
      /\ RecordsGrow
      /\ \A v \in {h.ver} : \E w \in rec'[h.target] : Geq(w.clock, v.clock)
  BY <1>1, <1>2, <1>5, MergeStep
<1>7. /\ hints'[n] = hints[n] \ {h}
      /\ \A m \in Nodes \ {n} : hints'[m] = hints[m]
      /\ hints' \in [Nodes -> SUBSET [target : Nodes, ver : Version]]
  BY <1>2, <1>3
<1>8. KVTypeOK'
  <2>1. \A m \in Nodes : \A g \in hints'[m] : g.target # m
    BY <1>1, <1>7, Types
  <2> QED
    BY <1>1, <1>2, <1>6, <1>7, <2>1 DEF KVTypeOK
<1>9. RecordsFinite'
  BY <1>1, <1>2, <1>6 DEF RecordsFinite
<1>10. HintsHeld
  <2>1. ASSUME NEW m \in Nodes, NEW g \in hints[m]
        PROVE  g \in hints'[m] \/ \E w \in rec'[g.target] : Geq(w.clock, g.ver.clock)
    <3>1. CASE g = h
      BY <1>6, <3>1
    <3>2. CASE g # h
      BY <1>7, <3>2
    <3> QED
      BY <3>1, <3>2
  <2> QED
    BY <2>1 DEF HintsHeld
<1>11. Known' \subseteq Known
  <2>1. h.ver \in Known
    BY KnownWays
  <2>2. \A m \in Nodes : rec'[m] \subseteq Known
    BY <1>6, <2>1, KnownWays
  <2>3. \A m \in Nodes : \A g \in hints'[m] : g.ver \in Known
    BY <1>7, KnownWays
  <2> QED
    BY <1>2, <2>2, <2>3, KnownWays, KnownNext
<1> QED
  BY <1>6, <1>8, <1>9, <1>10, <1>11 DEF StepSound

\* A node that stops loses its write, its tasks, its read and its sync.
LEMMA NodeCrashStep ==
  ASSUME ReplicaAssumption, ReplicaIInv, NEW n \in Nodes, NodeCrash(n)
  PROVE  /\ StepSound /\ Known' \subseteq Known
         /\ tasks' \subseteq tasks
         /\ \A m \in Nodes : wr'[m] = wr[m] \/ wr'[m] = NoWrite
         /\ rd' = rd \/ rd'.phase = "failed"
<1>1. KVTypeOK /\ RecordsFinite
  BY DEF ReplicaIInv
<1>2. /\ faults < MaxOutages /\ faults' = faults + 1
      /\ alive' = [alive EXCEPT ![n] = FALSE]
      /\ tasks' = {t \in tasks : t.coord # n}
      /\ wr' = [wr EXCEPT ![n] = NoWrite]
      /\ syncing' = [syncing EXCEPT ![n] = NoSync]
      /\ rd' = IF rd.phase = "open" /\ rd.coord = n THEN [rd EXCEPT !.phase = "failed"] ELSE rd
      /\ UNCHANGED <<rec, hints, acked, contexts, writes, reads>>
  BY DEF NodeCrash
<1>3. wr \in [Nodes -> Writing] /\ alive \in [Nodes -> BOOLEAN]
  BY <1>1, Types
<1>4. /\ wr'[n] = NoWrite /\ (\A m \in Nodes \ {n} : wr'[m] = wr[m] /\ alive'[m] = alive[m])
      /\ alive' \in [Nodes -> BOOLEAN]
  BY <1>2, <1>3
<1>5. wr' \in [Nodes -> Writing]
  BY <1>2, <1>3 DEF Writing
<1>6. \A m \in Nodes : wr'[m] # NoWrite => alive'[m]
  BY <1>1, <1>4, Types
<1>7. tasks' \in SUBSET Task /\ \A t \in tasks' : alive'[t.coord]
  <2>1. ASSUME NEW t \in tasks' PROVE t \in Task /\ alive'[t.coord]
    <3>1. t \in tasks /\ t.coord # n /\ t \in Task /\ alive[t.coord]
      BY <1>1, <1>2, Types
    <3>2. t.coord \in Nodes
      BY <3>1 DEF Task
    <3> QED
      BY <1>4, <3>1, <3>2
  <2> QED
    BY <2>1
<1>8. /\ rd' \in {[phase |-> "none"]} \cup Read
      /\ rd' = rd \/ rd'.phase = "failed"
  <2>1. CASE rd.phase = "open" /\ rd.coord = n
    <3>1. rd \in Read
      BY <1>1, <2>1, Types, ReadTypes
    <3>2. rd' = [rd EXCEPT !.phase = "failed"]
      BY <1>2, <2>1
    <3> QED
      BY <3>1, <3>2 DEF Read
  <2>2. CASE ~(rd.phase = "open" /\ rd.coord = n)
    <3>1. rd' = rd
      BY <1>2, <2>2
    <3> QED
      BY <1>1, <3>1, Types
  <2> QED
    BY <2>1, <2>2
<1>9. syncing' \in [Nodes -> {NoSync} \cup [peer : Nodes, view : SUBSET Version]]
  BY <1>1, <1>2, Types
<1>10. faults' \in 0..MaxOutages
  <2>1. faults \in 0..MaxOutages /\ MaxOutages \in Nat
    BY <1>1, Types DEF ReplicaAssumption
  <2> QED
    BY <1>2, <2>1
<1>11. KVTypeOK'
  BY <1>1, <1>2, <1>4, <1>5, <1>6, <1>7, <1>8, <1>9, <1>10 DEF KVTypeOK
<1>12. RecordsFinite' /\ HintsHeld
  BY <1>1, <1>2, <1>8 DEF RecordsFinite, HintsHeld
<1>13. RecordsGrow
  BY <1>1, <1>2, RecordsStay
<1>14. NoWrite.phase = "idle"
  BY DEF NoWrite
<1>15. Known' \subseteq Known
  <2>1. \A m \in Nodes : wr'[m].phase = "waiting" => wr'[m].ver \in Known
    BY <1>4, <1>14, KnownWays
  <2>2. rd'.phase = "open" => rd'.found \subseteq Known
    BY <1>8, KnownWays
  <2> QED
    BY <1>2, <2>1, <2>2, KnownWays, KnownNext
<1> QED
  BY <1>2, <1>4, <1>8, <1>11, <1>12, <1>13, <1>15 DEF StepSound

LEMMA RestartStep ==
  ASSUME ReplicaIInv, NEW n \in Nodes, Restart(n)
  PROVE  StepSound /\ Known' \subseteq Known
<1>1. KVTypeOK /\ RecordsFinite
  BY DEF ReplicaIInv
<1>2. /\ alive' = [alive EXCEPT ![n] = TRUE]
      /\ UNCHANGED <<rec, hints, wr, tasks, rd, acked, contexts, syncing, writes, reads, faults>>
  BY DEF Restart
<1>3. alive' \in [Nodes -> BOOLEAN] /\ \A m \in Nodes : alive[m] => alive'[m]
  BY <1>1, <1>2, Types
<1>4. \A t \in tasks : t.coord \in Nodes
  BY <1>1, Types DEF Task
<1>5. (\A m \in Nodes : wr'[m] # NoWrite => alive'[m]) /\ (\A t \in tasks' : alive'[t.coord])
  BY <1>1, <1>2, <1>3, <1>4, Types
<1>6. KVTypeOK'
  BY <1>1, <1>2, <1>3, <1>5 DEF KVTypeOK
<1>7. RecordsFinite' /\ HintsHeld
  BY <1>1, <1>2 DEF RecordsFinite, HintsHeld
<1>8. RecordsGrow
  BY <1>1, <1>2, RecordsStay
<1>9. Known' \subseteq Known
  BY <1>2, KnownWays, KnownNext
<1> QED
  BY <1>6, <1>7, <1>8, <1>9 DEF StepSound

-----------------------------------------------------------------------------
(***************************************************************************)
(* The parts of the invariant over a step that is sound in this sense.     *)
(***************************************************************************)

LEMMA KnownVersions ==
  ASSUME KVTypeOK
  PROVE  Known \subseteq Version
<1>1. Stored \subseteq Version
  BY Types DEF Stored
<1>2. Sent \subseteq Version
  BY Types DEF Sent, Task
<1>3. Granted \subseteq Version
  BY Types DEF Granted
<1>4. Hinted \subseteq Version
  <2>1. ASSUME NEW n \in Nodes, NEW h \in hints[n] PROVE h.ver \in Version
    <3>1. h \in [target : Nodes, ver : Version]
      BY Types
    <3> QED
      BY <3>1
  <2> QED
    BY <2>1 DEF Hinted
<1>5. Shown \subseteq Version
  BY Types DEF Shown
<1>6. Awaited \subseteq Version
  <2>1. ASSUME NEW n \in Nodes, wr[n].phase = "waiting" PROVE wr[n].ver \in Version
    <3>1. wr[n] \in Writing
      BY Types
    <3> QED
      BY <2>1, <3>1, WritingTypes
  <2> QED
    BY <2>1 DEF Awaited
<1>7. Found \subseteq Version
  <2>1. rd.phase = "open" => rd \in Read
    BY Types, ReadTypes
  <2> QED
    BY <2>1 DEF Found, Read
<1> QED
  BY <1>1, <1>2, <1>3, <1>4, <1>5, <1>6, <1>7 DEF Known

\* A node's record does not count back.
LEMMA CountedStays ==
  ASSUME KVTypeOK, KVTypeOK', RecordsGrow, NEW v \in Version, NEW c \in Nodes, Counted(v, c)
  PROVE  v.clock[c] = 0 \/ \E x \in rec'[c] : v.clock[c] <= x.clock[c]
<1> SUFFICES ASSUME v.clock[c] # 0 PROVE \E x \in rec'[c] : v.clock[c] <= x.clock[c]
  OBVIOUS
<1>1. PICK x \in rec[c] : v.clock[c] <= x.clock[c]
  BY DEF Counted
<1>2. PICK w \in rec'[c] : Geq(w.clock, x.clock)
  BY DEF RecordsGrow
<1>3. rec[c] \in SUBSET Version /\ rec'[c] \in SUBSET Version
  BY DEF KVTypeOK
<1>4. x.clock \in [Nodes -> Nat] /\ w.clock \in [Nodes -> Nat] /\ v.clock \in [Nodes -> Nat]
  BY <1>3 DEF Version
<1>5. w.clock[c] >= x.clock[c]
  BY <1>2, <1>4 DEF Geq
<1>6. w.clock[c] \in Nat /\ x.clock[c] \in Nat /\ v.clock[c] \in Nat
  BY <1>4
<1>7. v.clock[c] <= w.clock[c]
  BY <1>1, <1>5, <1>6
<1> QED
  BY <1>7

\* A version that is derived stays fresh.
DerivedStill(m) ==
  /\ \A c \in Nodes \ {m} :
       wr'[m].ver.clock[c] = 0 \/ \E x \in rec'[c] : wr'[m].ver.clock[c] <= x.clock[c]
  /\ wr'[m].ver.clock[m] > 0
  /\ \A v \in Known' : v.clock[m] < wr'[m].ver.clock[m]

LEMMA DerivedStays ==
  ASSUME ReplicaIInv, StepSound, NEW m \in Nodes, wr'[m] = wr[m], wr[m].phase = "derived",
         \A v \in Known' : v.clock[m] < wr[m].ver.clock[m]
  PROVE  DerivedStill(m)
<1>1. KVTypeOK /\ KVTypeOK' /\ RecordsGrow /\ DerivedFresh
  BY DEF ReplicaIInv, StepSound
<1>2. wr[m].ver \in Version
  <2>1. wr[m] \in Writing
    BY <1>1, Types
  <2> QED
    BY <2>1, WritingTypes
<1>3. (\A c \in Nodes \ {m} : Counted(wr[m].ver, c)) /\ wr[m].ver.clock[m] > 0
  BY <1>1 DEF DerivedFresh
<1>4. \A c \in Nodes \ {m} : wr[m].ver.clock[c] = 0 \/ \E x \in rec'[c] : wr[m].ver.clock[c] <= x.clock[c]
  BY <1>1, <1>2, <1>3, CountedStays
<1> QED
  BY <1>3, <1>4 DEF DerivedStill

\* The counters, over a step that publishes nothing: what is derived is fresh.
LEMMA CountersStay ==
  ASSUME ReplicaIInv, StepSound, Known' \subseteq Known
  PROVE  /\ CountersKept' /\ KnownUnique'
         /\ \A m \in Nodes : wr'[m] = wr[m] /\ wr[m].phase = "derived" => DerivedStill(m)
<1>1. KVTypeOK /\ KVTypeOK' /\ RecordsGrow
  BY DEF ReplicaIInv, StepSound
<1>2. CountersKept /\ DerivedFresh /\ KnownUnique
  BY DEF ReplicaIInv
<1>3. Known \subseteq Version
  BY <1>1, KnownVersions
<1>4. CountersKept'
  <2>1. ASSUME NEW v \in Known', NEW c \in Nodes
        PROVE  v.clock[c] = 0 \/ \E x \in rec'[c] : v.clock[c] <= x.clock[c]
    <3>1. v \in Version /\ Counted(v, c)
      BY <1>2, <1>3 DEF CountersKept
    <3> QED
      BY <1>1, <3>1, CountedStays
  <2> QED
    BY <2>1 DEF CountersKept, Counted
<1>5. ASSUME NEW m \in Nodes, wr'[m] = wr[m], wr[m].phase = "derived" PROVE DerivedStill(m)
  <2>1. \A v \in Known : v.clock[m] < wr[m].ver.clock[m]
    BY <1>2, <1>5 DEF DerivedFresh
  <2> QED
    BY <1>5, <2>1, DerivedStays
<1>6. KnownUnique'
  BY <1>2 DEF KnownUnique
<1> QED
  BY <1>4, <1>5, <1>6

LEMMA DerivedNext ==
  ASSUME \A m \in Nodes : wr'[m].phase = "derived" => DerivedStill(m)
  PROVE  DerivedFresh'
BY DEF DerivedFresh, DerivedStill, Counted

\* An acknowledgement stays sound.
AckStill(v, k, c) ==
  /\ \E w \in rec'[k[1]] : Geq(w.clock, v.clock)
  /\ k[2] = None => k[1] \in Primary
  /\ k[2] # None => \/ \E w \in rec'[k[2]] : Geq(w.clock, v.clock)
                    \/ [target |-> k[2], ver |-> v] \in hints'[c]

LEMMA AckStays ==
  ASSUME KVTypeOK, KVTypeOK', RecordsGrow, HintsHeld, NEW v \in Version, NEW k \in Acks,
         NEW c \in Nodes, AckSound(v, k, c)
  PROVE  AckStill(v, k, c)
<1>1. k[1] \in Nodes /\ k[2] \in Nodes \cup {None}
  BY DEF Acks
<1>2. Covered(v, rec[k[1]]) /\ (k[2] = None => k[1] \in Primary)
  BY DEF AckSound
<1>3. \E w \in rec'[k[1]] : Geq(w.clock, v.clock)
  BY <1>1, <1>2, CoveredStays
<1>4. ASSUME k[2] # None
      PROVE  (\E w \in rec'[k[2]] : Geq(w.clock, v.clock)) \/ [target |-> k[2], ver |-> v] \in hints'[c]
  <2>1. k[2] \in Nodes
    BY <1>1, <1>4
  <2>2. CASE Covered(v, rec[k[2]])
    BY <2>1, <2>2, CoveredStays
  <2>3. CASE [target |-> k[2], ver |-> v] \in hints[c]
    BY <2>3 DEF HintsHeld
  <2> QED
    BY <1>4, <2>2, <2>3 DEF AckSound
<1> QED
  BY <1>2, <1>3, <1>4 DEF AckStill

\* So do those of the acknowledged writes and of the writes that wait.
LEMMA AcksStay ==
  ASSUME ReplicaIInv, StepSound
  PROVE  /\ \A a \in acked : Cardinality(a.acks) >= W /\ \A k \in a.acks : AckStill(a.ver, k, a.coord)
         /\ \A n \in Nodes : wr[n].phase = "waiting" => \A k \in wr[n].acks : AckStill(wr[n].ver, k, n)
<1>1. KVTypeOK /\ KVTypeOK' /\ RecordsGrow /\ HintsHeld /\ AcksSound
  BY DEF ReplicaIInv, StepSound
<1>2. ASSUME NEW a \in acked, NEW k \in a.acks PROVE AckStill(a.ver, k, a.coord)
  <2>1. a \in [ver : Version, acks : SUBSET Acks, coord : Nodes]
    BY <1>1, Types
  <2>2. a.ver \in Version /\ k \in Acks /\ a.coord \in Nodes
    BY <2>1
  <2>3. AckSound(a.ver, k, a.coord)
    BY <1>1 DEF AcksSound
  <2> QED
    BY <1>1, <2>2, <2>3, AckStays
<1>3. ASSUME NEW n \in Nodes, wr[n].phase = "waiting", NEW k \in wr[n].acks
      PROVE  AckStill(wr[n].ver, k, n)
  <2>1. wr[n] \in Writing
    BY <1>1, Types
  <2>2. wr[n].ver \in Version /\ k \in Acks
    BY <1>3, <2>1, WritingTypes
  <2>3. AckSound(wr[n].ver, k, n)
    BY <1>1, <1>3 DEF AcksSound
  <2> QED
    BY <1>1, <2>2, <2>3, AckStays
<1> QED
  BY <1>1, <1>2, <1>3 DEF AcksSound

\* AcksSound over a step that acknowledges nothing and lets no write wait.
LEMMA AcksSame ==
  ASSUME ReplicaIInv, StepSound, acked' = acked,
         \A n \in Nodes : wr'[n].phase = "waiting" => wr'[n] = wr[n]
  PROVE  AcksSound'
<1>1. \A a \in acked' : Cardinality(a.acks) >= W /\ \A k \in a.acks : AckStill(a.ver, k, a.coord)
  BY AcksStay
<1>2. \A n \in Nodes : wr'[n].phase = "waiting" => \A k \in wr'[n].acks : AckStill(wr'[n].ver, k, n)
  BY AcksStay
<1> QED
  BY <1>1, <1>2 DEF AcksSound, AckSound, AckStill, Covered

\* A task stays sound.
TaskStill(t) ==
  /\ t.original = None => t.node \in Primary
  /\ t.original # t.coord /\ (t.phase = "hint" => t.original # None)
  /\ t.phase = "send" /\ t.original # None =>
       \/ \E w \in rec'[t.original] : Geq(w.clock, t.ver.clock)
       \/ [target |-> t.original, ver |-> t.ver] \in hints'[t.coord]

LEMMA TasksStay ==
  ASSUME ReplicaIInv, StepSound, NEW t \in tasks
  PROVE  TaskStill(t)
<1>1. KVTypeOK /\ KVTypeOK' /\ RecordsGrow /\ HintsHeld /\ TasksSound
  BY DEF ReplicaIInv, StepSound
<1>2. t \in Task
  BY <1>1, Types
<1>3. t.coord \in Nodes /\ t.original \in Nodes \cup {None} /\ t.ver \in Version
  BY <1>2 DEF Task
<1>4. ASSUME t.phase = "send", t.original # None
      PROVE  \/ \E w \in rec'[t.original] : Geq(w.clock, t.ver.clock)
             \/ [target |-> t.original, ver |-> t.ver] \in hints'[t.coord]
  <2>1. t.original \in Nodes
    BY <1>3, <1>4
  <2>2. CASE Covered(t.ver, rec[t.original])
    BY <1>1, <1>3, <2>1, <2>2, CoveredStays
  <2>3. CASE [target |-> t.original, ver |-> t.ver] \in hints[t.coord]
    BY <1>1, <1>3, <2>3 DEF HintsHeld
  <2> QED
    BY <1>1, <1>4, <2>2, <2>3 DEF TasksSound
<1> QED
  BY <1>1, <1>4 DEF TasksSound, TaskStill

LEMMA TasksNext ==
  ASSUME \A t \in tasks' : TaskStill(t)
  PROVE  TasksSound'
BY DEF TasksSound, TaskStill, Covered

\* An open read keeps its witnesses while the records grow, also when one of those
\* it asked fails.
LEMMA OpenReadStays ==
  ASSUME ReplicaAssumption, ReplicaIInv, StepSound, rd.phase = "open", rd'.phase = "open",
         rd'.strict = rd.strict, rd'.must = rd.must, rd'.todo \subseteq rd.todo,
         rd'.got = rd.got, rd'.found = rd.found
  PROVE  ReadSound'
<1> SUFFICES ASSUME rd.strict
             PROVE  /\ rd'.todo \subseteq Primary
                    /\ \E A \in SUBSET (Primary \ rd'.todo) :
                         /\ Cardinality(A) = rd.got
                         /\ \A v \in rd.must : \E Q \in SUBSET Primary :
                              /\ Cardinality(Q) >= W
                              /\ \A n \in Q : /\ \E w \in rec'[n] : Geq(w.clock, v.clock)
                                              /\ n \in A => Covered(v, rd.found)
  BY DEF ReadSound, AnsweredBy, Covered
<1>1. KVTypeOK /\ KVTypeOK' /\ RecordsGrow
  BY DEF ReplicaIInv, StepSound
<1>2. rd.todo \subseteq Primary /\ \E A \in SUBSET (Primary \ rd.todo) : AnsweredBy(A)
  BY DEF ReplicaIInv, ReadSound
<1>3. PICK A \in SUBSET (Primary \ rd.todo) : AnsweredBy(A)
  BY <1>2
<1>4. ASSUME NEW v \in rd.must
      PROVE  \E Q \in SUBSET Primary :
               /\ Cardinality(Q) >= W
               /\ \A n \in Q : /\ \E w \in rec'[n] : Geq(w.clock, v.clock)
                               /\ n \in A => Covered(v, rd.found)
  <2>1. v \in Version
    <3>1. rd \in Read
      BY <1>1, Types, ReadTypes
    <3> QED
      BY <3>1 DEF Read
  <2>2. PICK Q \in SUBSET Primary :
          /\ Cardinality(Q) >= W
          /\ \A n \in Q : Covered(v, rec[n]) /\ (n \in A => Covered(v, rd.found))
    BY <1>3 DEF AnsweredBy
  <2>3. ASSUME NEW n \in Q PROVE \E w \in rec'[n] : Geq(w.clock, v.clock)
    <3>1. n \in Nodes
      BY PrimarySize
    <3> QED
      BY <1>1, <2>1, <2>2, <3>1, CoveredStays
  <2> QED
    BY <2>2, <2>3
<1>5. A \in SUBSET (Primary \ rd'.todo) /\ rd'.todo \subseteq Primary
  BY <1>2
<1> QED
  BY <1>3, <1>4, <1>5 DEF AnsweredBy

\* A read that nothing happened to, or that ended without an answer.
LEMMA ReadStays ==
  ASSUME ReplicaAssumption, ReplicaIInv, StepSound, rd' = rd \/ rd'.phase = "failed"
  PROVE  ReadSound' /\ ReadsSeeAcked'
<1>1. CASE rd'.phase = "failed"
  BY <1>1 DEF ReadSound, ReadsSeeAcked
<1>2. CASE rd' = rd
  <2>1. ReadsSeeAcked'
    BY <1>2 DEF ReplicaIInv, ReadsSeeAcked, Covered
  <2>2. CASE rd.phase = "open"
    BY <1>2, <2>1, <2>2, OpenReadStays
  <2>3. CASE rd.phase # "open"
    BY <1>2, <2>1, <2>3 DEF ReadSound
  <2> QED
    BY <2>2, <2>3
<1> QED
  BY <1>1, <1>2

-----------------------------------------------------------------------------
(***************************************************************************)
(* Every action keeps the invariant.                                       *)
(***************************************************************************)

\* A step that derives, publishes, acknowledges and sends nothing new.
LEMMA QuietKeeps ==
  ASSUME ReplicaAssumption, ReplicaIInv, StepSound, Known' \subseteq Known, acked' = acked,
         tasks' \subseteq tasks, \A n \in Nodes : wr'[n] = wr[n] \/ wr'[n] = NoWrite,
         ReadSound', ReadsSeeAcked'
  PROVE  ReplicaIInv'
<1>1. KVTypeOK' /\ RecordsFinite'
  BY DEF StepSound
<1>2. NoWrite.phase = "idle"
  BY DEF NoWrite
<1>3. CountersKept' /\ KnownUnique'
  BY CountersStay
<1>4. DerivedFresh'
  <2>1. \A m \in Nodes : wr'[m].phase = "derived" => wr'[m] = wr[m] /\ wr[m].phase = "derived"
    BY <1>2
  <2> QED
    BY <2>1, CountersStay, DerivedNext
<1>5. AcksSound'
  <2>1. \A n \in Nodes : wr'[n].phase = "waiting" => wr'[n] = wr[n]
    BY <1>2
  <2> QED
    BY <2>1, AcksSame
<1>6. TasksSound'
  BY TasksStay, TasksNext
<1> QED
  BY <1>1, <1>3, <1>4, <1>5, <1>6 DEF ReplicaIInv

LEMMA WriteBeginKeeps ==
  ASSUME ReplicaAssumption, ReplicaIInv, NEW c \in Coordinators, NEW S \in contexts, WriteBegin(c, S)
  PROVE  ReplicaIInv'
<1>1. c \in Nodes
  BY DEF ReplicaAssumption
<1> DEFINE ver == wr'[c].ver
<1>2. /\ StepSound /\ Known' \subseteq Known
      /\ wr'[c].phase = "derived" /\ \A m \in Nodes \ {c} : wr'[m] = wr[m]
      /\ \A v \in S : v \in Version
      /\ ver \in Version
      /\ \A n \in Nodes \ {c} : ver.clock[n] = 0 \/ \E v \in S : ver.clock[n] = v.clock[n]
      /\ ver.clock[c] > 0 /\ \A v \in rec[c] : ver.clock[c] > v.clock[c]
  BY WriteBeginStep
<1>3. UNCHANGED <<rec, acked, tasks, rd>>
  BY DEF WriteBegin
<1>4. KVTypeOK /\ CountersKept
  BY DEF ReplicaIInv
<1>5. Known \subseteq Version /\ S \subseteq Known
  BY <1>4, KnownVersions, KnownWays
<1> HIDE DEF ver
<1>6. DerivedStill(c)
  <2>1. ASSUME NEW n \in Nodes \ {c}
        PROVE  ver.clock[n] = 0 \/ \E x \in rec[n] : ver.clock[n] <= x.clock[n]
    <3>1. SUFFICES ASSUME ver.clock[n] # 0 PROVE \E x \in rec[n] : ver.clock[n] <= x.clock[n]
      OBVIOUS
    <3>2. PICK v \in S : ver.clock[n] = v.clock[n]
      BY <1>2, <3>1
    <3>3. Counted(v, n)
      BY <1>4, <1>5 DEF CountersKept
    <3> QED
      BY <3>1, <3>2, <3>3 DEF Counted
  <2>2. ASSUME NEW v \in Known PROVE v.clock[c] < ver.clock[c]
    <3>1. v \in Version /\ Counted(v, c) /\ rec[c] \in SUBSET Version
      BY <1>1, <1>4, <1>5, Types DEF CountersKept
    <3>2. v.clock[c] \in Nat /\ ver.clock[c] \in Nat
      BY <1>1, <1>2, <3>1 DEF Version
    <3>3. CASE v.clock[c] = 0
      BY <1>2, <3>2, <3>3
    <3>4. CASE \E x \in rec[c] : v.clock[c] <= x.clock[c]
      <4>1. PICK x \in rec[c] : v.clock[c] <= x.clock[c]
        BY <3>4
      <4>2. x.clock[c] \in Nat
        BY <1>1, <3>1 DEF Version
      <4>3. ver.clock[c] > x.clock[c]
        BY <1>2
      <4> QED
        BY <3>2, <4>1, <4>2, <4>3
    <3> QED
      BY <3>1, <3>3, <3>4 DEF Counted
  <2> QED
    BY <1>2, <1>3, <2>1, <2>2 DEF DerivedStill, ver
<1>7. CountersKept' /\ KnownUnique'
  BY <1>2, CountersStay
<1>8. DerivedFresh'
  <2>1. \A m \in Nodes : wr'[m].phase = "derived" => DerivedStill(m)
    BY <1>2, <1>6, CountersStay
  <2> QED
    BY <2>1, DerivedNext
<1>9. AcksSound'
  <2>1. \A n \in Nodes : wr'[n].phase = "waiting" => wr'[n] = wr[n]
    BY <1>2
  <2> QED
    BY <1>2, <1>3, <2>1, AcksSame
<1>10. TasksSound'
  BY <1>2, <1>3, TasksStay, TasksNext
<1>11. ReadSound' /\ ReadsSeeAcked'
  BY <1>2, <1>3, ReadStays
<1> QED
  BY <1>2, <1>7, <1>8, <1>9, <1>10, <1>11 DEF ReplicaIInv, StepSound

LEMMA WriteFanOutKeeps ==
  ASSUME ReplicaAssumption, ReplicaIInv, NEW c \in Coordinators,
         NEW down \in SUBSET (Nodes \ {c}), WriteFanOut(c, down)
  PROVE  ReplicaIInv'
<1>1. c \in Nodes
  BY DEF ReplicaAssumption
<1> DEFINE ver == wr[c].ver
<1>2. /\ StepSound /\ Known' \subseteq Known \cup {ver}
      /\ ver \in Version
      /\ \E w \in rec'[c] : Geq(w.clock, ver.clock)
      /\ wr'[c] = [phase |-> "waiting", ver |-> ver, acks |-> {}]
      /\ \A m \in Nodes \ {c} : wr'[m] = wr[m]
      /\ \A t \in tasks' : t \in tasks \/
           /\ t.coord = c /\ t.original # c /\ t.ver = ver
           /\ t.original = None => t.phase = "send" /\ t.node \in Primary
           /\ t.original # None => t.phase = "hint"
  BY WriteFanOutStep
<1>3. wr[c].phase = "derived" /\ UNCHANGED <<acked, rd>>
  BY DEF WriteFanOut
<1>4. KVTypeOK /\ KVTypeOK' /\ RecordsGrow /\ CountersKept /\ DerivedFresh /\ KnownUnique
  BY <1>2 DEF ReplicaIInv, StepSound
<1>5. Known \subseteq Version
  BY <1>4, KnownVersions
<1>6. /\ \A n \in Nodes \ {c} : Counted(ver, n)
      /\ \A v \in Known : v.clock[c] < ver.clock[c]
  BY <1>1, <1>3, <1>4 DEF DerivedFresh
<1>7. /\ wr'[c].phase = "waiting" /\ wr'[c].acks = {}
  BY <1>2
<1> HIDE DEF ver
<1>8. CountersKept'
  <2>1. ASSUME NEW v \in Known', NEW n \in Nodes
        PROVE  v.clock[n] = 0 \/ \E x \in rec'[n] : v.clock[n] <= x.clock[n]
    <3>1. CASE v \in Known \/ n # c
      <4>1. v \in Version /\ Counted(v, n)
        BY <1>2, <1>4, <1>5, <1>6, <3>1 DEF CountersKept
      <4> QED
        BY <1>4, <4>1, CountedStays
    <3>2. CASE v = ver /\ n = c
      <4>1. PICK w \in rec'[c] : Geq(w.clock, ver.clock)
        BY <1>2
      <4>2. rec'[c] \in SUBSET Version
        BY <1>1, <1>4 DEF KVTypeOK
      <4>3. w.clock \in [Nodes -> Nat] /\ ver.clock \in [Nodes -> Nat]
        BY <1>2, <4>2 DEF Version
      <4>4. w.clock[c] >= ver.clock[c] /\ w.clock[c] \in Nat /\ ver.clock[c] \in Nat
        BY <1>1, <4>1, <4>3 DEF Geq
      <4>5. ver.clock[c] <= w.clock[c]
        BY <4>4
      <4> QED
        BY <3>2, <4>5
    <3> QED
      BY <1>2, <3>1, <3>2
  <2> QED
    BY <2>1 DEF CountersKept, Counted
<1>9. DerivedFresh'
  <2>1. ASSUME NEW m \in Nodes, wr'[m].phase = "derived" PROVE DerivedStill(m)
    <3>1. m # c /\ wr'[m] = wr[m] /\ wr[m].phase = "derived"
      BY <1>2, <1>7, <2>1
    <3>2. wr[m].ver.clock[m] > 0 /\ \A v \in Known : v.clock[m] < wr[m].ver.clock[m]
      BY <1>4, <3>1 DEF DerivedFresh
    <3>3. ver.clock[m] < wr[m].ver.clock[m]
      <4>1. Counted(ver, m)
        BY <1>6, <3>1
      <4>2. CASE ver.clock[m] = 0
        BY <3>2, <4>2
      <4>3. CASE \E x \in rec[m] : ver.clock[m] <= x.clock[m]
        <5>1. PICK x \in rec[m] : ver.clock[m] <= x.clock[m]
          BY <4>3
        <5>2. x \in Known /\ x \in Version
          BY <1>5, KnownWays
        <5>3. x.clock[m] < wr[m].ver.clock[m]
          BY <3>2, <5>2
        <5>4. wr[m].ver \in Version
          <6>1. wr[m] \in Writing
            BY <1>4, Types
          <6> QED
            BY <3>1, <6>1, WritingTypes
        <5>5. x.clock[m] \in Nat /\ ver.clock[m] \in Nat /\ wr[m].ver.clock[m] \in Nat
          BY <1>2, <5>2, <5>4 DEF Version
        <5> QED
          BY <5>1, <5>3, <5>5
      <4> QED
        BY <4>1, <4>2, <4>3 DEF Counted
    <3>4. \A v \in Known' : v.clock[m] < wr[m].ver.clock[m]
      BY <1>2, <3>2, <3>3
    <3> QED
      BY <1>2, <3>1, <3>4, DerivedStays
  <2> QED
    BY <2>1, DerivedNext
<1>10. KnownUnique'
  <2>1. ASSUME NEW v \in Known PROVE v.clock # ver.clock
    <3>1. v.clock[c] \in Nat /\ ver.clock[c] \in Nat /\ v.clock[c] < ver.clock[c]
      BY <1>1, <1>2, <1>5, <1>6 DEF Version
    <3> QED
      BY <3>1
  <2>2. ASSUME NEW v \in Known', NEW w \in Known', v.clock = w.clock PROVE v = w
    BY <1>2, <1>4, <2>1, <2>2 DEF KnownUnique
  <2> QED
    BY <2>2 DEF KnownUnique
<1>11. AcksSound'
  <2>1. \A a \in acked' : Cardinality(a.acks) >= W /\ \A k \in a.acks : AckStill(a.ver, k, a.coord)
    BY <1>2, <1>3, AcksStay
  <2>2. \A n \in Nodes : wr'[n].phase = "waiting" => \A k \in wr'[n].acks : AckStill(wr'[n].ver, k, n)
    BY <1>2, <1>7, AcksStay
  <2> QED
    BY <2>1, <2>2 DEF AcksSound, AckSound, AckStill, Covered
<1>12. TasksSound'
  <2>1. ASSUME NEW t \in tasks' PROVE TaskStill(t)
    <3>1. CASE t \in tasks
      BY <1>2, <3>1, TasksStay
    <3>2. CASE t \notin tasks
      <4>1. /\ t.coord = c /\ t.original # c
            /\ t.original = None => t.phase = "send" /\ t.node \in Primary
            /\ t.original # None => t.phase = "hint"
        BY <1>2, <3>2
      <4> QED
        BY <4>1 DEF TaskStill
    <3> QED
      BY <3>1, <3>2
  <2> QED
    BY <2>1, TasksNext
<1>13. ReadSound' /\ ReadsSeeAcked'
  BY <1>2, <1>3, ReadStays
<1> QED
  BY <1>2, <1>8, <1>9, <1>10, <1>11, <1>12, <1>13 DEF ReplicaIInv, StepSound

LEMMA SaveHintKeeps ==
  ASSUME ReplicaAssumption, ReplicaIInv, NEW t \in tasks, SaveHint(t)
  PROVE  ReplicaIInv'
<1>1. /\ StepSound /\ Known' \subseteq Known
      /\ [target |-> t.original, ver |-> t.ver] \in hints'[t.coord]
      /\ \A s \in tasks' : s \in tasks \/ s = [t EXCEPT !.phase = "send"]
  BY SaveHintStep
<1>2. t.phase = "hint" /\ UNCHANGED <<wr, acked, rd>>
  BY DEF SaveHint
<1>3. CountersKept' /\ KnownUnique'
  BY <1>1, CountersStay
<1>4. DerivedFresh'
  BY <1>1, <1>2, CountersStay, DerivedNext
<1>5. AcksSound'
  BY <1>1, <1>2, AcksSame
<1>6. TasksSound'
  <2> DEFINE s == [t EXCEPT !.phase = "send"]
  <2>1. t \in Task /\ TaskStill(t)
    BY <1>1, Types, TasksStay DEF ReplicaIInv
  <2>2. s.coord = t.coord /\ s.node = t.node /\ s.original = t.original /\ s.ver = t.ver /\ s.phase = "send"
    BY <2>1 DEF Task
  <2>3. TaskStill(s)
    <3> HIDE DEF s
    <3> QED
      BY <1>1, <2>1, <2>2 DEF TaskStill
  <2>4. \A x \in tasks' : TaskStill(x)
    BY <1>1, <2>3, TasksStay
  <2> QED
    BY <2>4, TasksNext
<1>7. ReadSound' /\ ReadsSeeAcked'
  BY <1>1, <1>2, ReadStays
<1> QED
  BY <1>1, <1>3, <1>4, <1>5, <1>6, <1>7 DEF ReplicaIInv, StepSound

\* The end of a task, with the acknowledgements that it brings.
LEMMA TaskEndKeeps ==
  ASSUME ReplicaAssumption, ReplicaIInv, NEW t \in tasks, StepSound, Known' \subseteq Known,
         NEW acks, CollectSound(t, acks), \A k \in acks : AckStill(t.ver, k, t.coord),
         tasks' = tasks \ {t}, UNCHANGED rd
  PROVE  ReplicaIInv'
<1>1. t.coord \in Nodes
  BY Types DEF ReplicaIInv, Task
<1>2. CountersKept' /\ KnownUnique'
  BY CountersStay
<1>3. DerivedFresh'
  <2>1. \A m \in Nodes : wr'[m].phase = "derived" => wr'[m] = wr[m] /\ wr[m].phase = "derived"
    BY DEF CollectSound
  <2> QED
    BY <2>1, CountersStay, DerivedNext
<1>4. AcksSound'
  <2>1. ASSUME NEW a \in acked', NEW k \in a.acks
        PROVE  Cardinality(a.acks) >= W /\ AckStill(a.ver, k, a.coord)
    <3>1. CASE a \in acked
      BY <3>1, AcksStay
    <3>2. CASE a \notin acked
      <4>1. /\ a.coord = t.coord /\ a.ver = t.ver /\ Cardinality(a.acks) >= W
            /\ wr[t.coord].phase = "waiting" /\ wr[t.coord].ver = t.ver
            /\ k \in wr[t.coord].acks \/ k \in acks
        BY <3>2 DEF CollectSound
      <4>2. CASE k \in acks
        BY <4>1, <4>2
      <4>3. CASE k \in wr[t.coord].acks
        BY <1>1, <4>1, <4>3, AcksStay
      <4> QED
        BY <4>1, <4>2, <4>3
    <3> QED
      BY <3>1, <3>2
  <2>2. ASSUME NEW a \in acked' PROVE Cardinality(a.acks) >= W
    BY AcksStay DEF CollectSound
  <2>3. ASSUME NEW n \in Nodes, wr'[n].phase = "waiting", NEW k \in wr'[n].acks
        PROVE  AckStill(wr'[n].ver, k, n)
    <3>1. /\ wr[n].phase = "waiting" /\ wr'[n].ver = wr[n].ver
          /\ k \in wr[n].acks \/ (n = t.coord /\ wr[n].ver = t.ver /\ k \in acks)
      BY <2>3 DEF CollectSound
    <3>2. CASE k \in wr[n].acks
      BY <3>1, <3>2, AcksStay
    <3>3. CASE n = t.coord /\ wr[n].ver = t.ver /\ k \in acks
      BY <3>1, <3>3
    <3> QED
      BY <3>1, <3>2, <3>3
  <2> QED
    BY <2>1, <2>2, <2>3 DEF AcksSound, AckSound, AckStill, Covered
<1>5. TasksSound'
  BY TasksStay, TasksNext
<1>6. ReadSound' /\ ReadsSeeAcked'
  BY ReadStays
<1> QED
  BY <1>2, <1>3, <1>4, <1>5, <1>6 DEF ReplicaIInv, StepSound

LEMMA ReplicateKeeps ==
  ASSUME ReplicaAssumption, ReplicaIInv, NEW t \in tasks, Replicate(t)
  PROVE  ReplicaIInv'
<1> DEFINE acks == {<<t.node, t.original>>}
<1>1. /\ StepSound /\ Known' \subseteq Known
      /\ CollectSound(t, acks)
      /\ \E w \in rec'[t.node] : Geq(w.clock, t.ver.clock)
  BY ReplicateStep
<1>2. t.phase = "send" /\ tasks' = tasks \ {t} /\ UNCHANGED rd
  BY DEF Replicate
<1>3. TaskStill(t)
  BY <1>1, TasksStay
<1>4. \A k \in acks : AckStill(t.ver, k, t.coord)
  BY <1>1, <1>2, <1>3 DEF TaskStill, AckStill
<1> HIDE DEF acks
<1> QED
  BY <1>1, <1>2, <1>4, TaskEndKeeps

LEMMA ReplicateFailsKeeps ==
  ASSUME ReplicaAssumption, ReplicaIInv, NEW t \in tasks, NEW executed \in BOOLEAN,
         ReplicateFails(t, executed)
  PROVE  ReplicaIInv'
<1>1. StepSound /\ Known' \subseteq Known /\ CollectSound(t, {})
  BY ReplicateFailsStep
<1>2. tasks' = tasks \ {t} /\ UNCHANGED rd
  BY DEF ReplicateFails
<1>3. \A k \in {} : AckStill(t.ver, k, t.coord)
  OBVIOUS
<1> QED
  BY <1>1, <1>2, <1>3, TaskEndKeeps

\* A read begins: the writes it must return were acknowledged by W primaries each.
LEMMA ReadBeginKeeps ==
  ASSUME ReplicaAssumption, ReplicaIInv, NEW c \in Coordinators,
         NEW down \in SUBSET (Nodes \ {c}), ReadBegin(c, down)
  PROVE  ReplicaIInv'
<1>1. StepSound /\ Known' \subseteq Known
  BY ReadBeginStep
<1>2. c \in Nodes
  BY DEF ReplicaAssumption
<1>3. KVTypeOK /\ AcksSound
  BY DEF ReplicaIInv
<1> DEFINE todo == {t[1] : t \in Targets(down)}
<1> DEFINE strict == \A t \in Targets(down) : t[2] = None
<1> DEFINE must == {a.ver : a \in {x \in acked : \A k \in x.acks : k[2] = None}}
<1>4. /\ rd' = [phase |-> "open", coord |-> c, todo |-> todo, got |-> 0, found |-> {},
                strict |-> strict, must |-> must]
      /\ UNCHANGED <<rec, acked, tasks, wr>>
  BY DEF ReadBegin
<1>5. strict => todo \subseteq Primary
  BY <1>2, TargetsSound
<1>6. ASSUME NEW v \in must
      PROVE  \E Q \in SUBSET Primary : Cardinality(Q) >= W /\ \A n \in Q : Covered(v, rec[n])
  <2>1. PICK a \in acked : a.ver = v /\ \A k \in a.acks : k[2] = None
    OBVIOUS
  <2>2. a \in [ver : Version, acks : SUBSET Acks, coord : Nodes]
    BY <1>3, Types
  <2> DEFINE A == a.acks
  <2>3. A \in SUBSET Acks /\ Cardinality(A) >= W /\ \A k \in A : AckSound(v, k, a.coord) /\ k[2] = None
    BY <1>3, <2>1, <2>2 DEF AcksSound
  <2> HIDE DEF A
  <2> DEFINE Q == {k[1] : k \in A}
  <2>4. Q \in SUBSET Primary /\ \A n \in Q : Covered(v, rec[n])
    BY <2>3 DEF AckSound
  <2> DEFINE f == [k \in A |-> k[1]]
  <2>5. f \in Injection(A, Q)
    <3>1. f \in [A -> Q]
      OBVIOUS
    <3>2. ASSUME NEW j \in A, NEW k \in A, f[j] = f[k] PROVE j = k
      BY <2>3, <3>2 DEF Acks
    <3> QED
      BY <3>1, <3>2 DEF Injection, IsInjective
  <2>6. IsFiniteSet(Q)
    BY <2>4, PrimarySize, FS_Subset
  <2> HIDE DEF Q, f
  <2>7. IsFiniteSet(A) /\ Cardinality(A) <= Cardinality(Q)
    BY <2>5, <2>6, FS_Injection
  <2>8. Cardinality(A) \in Nat /\ Cardinality(Q) \in Nat /\ W \in Int
    <3>1. Cardinality(Nodes) \in Nat
      BY FS_CardinalityType DEF ReplicaAssumption
    <3> QED
      BY <2>6, <2>7, <3>1, FS_CardinalityType DEF ReplicaAssumption
  <2>9. Cardinality(Q) >= W
    BY <2>3, <2>7, <2>8
  <2> QED
    BY <2>4, <2>9
<1> HIDE DEF todo, strict, must
<1>7. /\ rd'.phase = "open" /\ rd'.strict = strict /\ rd'.todo = todo /\ rd'.must = must /\ rd'.got = 0
  BY <1>4
<1>8. ReadSound'
  <2>1. ASSUME strict
        PROVE  /\ rd'.todo \subseteq Primary
               /\ {} \in SUBSET (Primary \ rd'.todo)
               /\ Cardinality({}) = rd'.got
               /\ \A v \in rd'.must : \E Q \in SUBSET Primary :
                    Cardinality(Q) >= W /\ \A n \in Q : \E w \in rec'[n] : Geq(w.clock, v.clock)
    BY <1>4, <1>5, <1>6, <1>7, <2>1, FS_EmptySet DEF Covered
  <2>2. strict => \E A \in SUBSET (Primary \ rd'.todo) :
                    /\ Cardinality(A) = rd'.got
                    /\ \A v \in rd'.must : \E Q \in SUBSET Primary :
                         /\ Cardinality(Q) >= W
                         /\ \A n \in Q : /\ \E w \in rec'[n] : Geq(w.clock, v.clock)
                                         /\ n \in A => \E w \in rd'.found : Geq(w.clock, v.clock)
    BY <2>1
  <2> QED
    BY <1>7, <2>1, <2>2 DEF ReadSound, AnsweredBy, Covered
<1>9. ReadsSeeAcked'
  BY <1>7 DEF ReadsSeeAcked
<1> QED
  BY <1>1, <1>4, <1>8, <1>9, QuietKeeps

\* An answer: the node joins A, and the R-th makes A meet every write quorum.
LEMMA ReadReplyKeeps ==
  ASSUME ReplicaAssumption, ReplicaIInv, NEW n \in Nodes, ReadReply(n)
  PROVE  ReplicaIInv'
<1>1. /\ StepSound /\ Known' \subseteq Known
      /\ rd \in Read /\ rd' \in Read /\ rd.phase = "open" /\ n \in rd.todo
      /\ rd'.strict = rd.strict /\ rd'.must = rd.must /\ rd'.todo = rd.todo \ {n}
      /\ rd'.got = rd.got + 1
      /\ rd'.phase = "open" \/ (rd'.phase = "done" /\ rd'.got = R)
      /\ \A v \in rd.found \cup rec[n] : Covered(v, rd'.found)
  BY ReadReplyStep
<1>2. UNCHANGED <<rec, acked, tasks, wr>>
  BY DEF ReadReply
<1>3. KVTypeOK
  BY DEF ReplicaIInv
<1>4. ASSUME rd.strict
      PROVE  /\ rd.todo \subseteq Primary
             /\ \E B \in SUBSET (Primary \ (rd.todo \ {n})) :
                  /\ Cardinality(B) = rd.got + 1
                  /\ \A v \in rd.must : \E Q \in SUBSET Primary :
                       /\ Cardinality(Q) >= W
                       /\ \A m \in Q : Covered(v, rec[m]) /\ (m \in B => Covered(v, rd'.found))
  <2>1. rd.todo \subseteq Primary /\ \E A \in SUBSET (Primary \ rd.todo) : AnsweredBy(A)
    BY <1>1, <1>4 DEF ReplicaIInv, ReadSound
  <2>2. PICK A \in SUBSET (Primary \ rd.todo) : AnsweredBy(A)
    BY <2>1
  <2> DEFINE B == A \cup {n}
  <2>3. B \in SUBSET (Primary \ (rd.todo \ {n})) /\ n \notin A
    BY <1>1, <2>1
  <2>4. IsFiniteSet(A)
    <3>1. A \in SUBSET Primary
      OBVIOUS
    <3> QED
      BY <3>1, PrimarySize, FS_Subset
  <2>5. Cardinality(B) = rd.got + 1
    <3>1. Cardinality(A) = rd.got
      BY <2>2 DEF AnsweredBy
    <3> QED
      BY <2>3, <2>4, <3>1, FS_AddElement
  <2>6. \A x \in rd.found \cup rec[n] : x \in Version
    BY <1>1, <1>3, Types DEF Read
  <2>7. \A x \in rd'.found : x \in Version
    BY <1>1 DEF Read
  <2>8. ASSUME NEW v \in rd.must
        PROVE  \E Q \in SUBSET Primary :
                 /\ Cardinality(Q) >= W
                 /\ \A m \in Q : Covered(v, rec[m]) /\ (m \in B => Covered(v, rd'.found))
    <3>1. v \in Version
      BY <1>1 DEF Read
    <3>2. PICK Q \in SUBSET Primary :
            /\ Cardinality(Q) >= W
            /\ \A m \in Q : Covered(v, rec[m]) /\ (m \in A => Covered(v, rd.found))
      BY <2>2 DEF AnsweredBy
    <3>3. ASSUME NEW x \in rd.found \cup rec[n], Geq(x.clock, v.clock) PROVE Covered(v, rd'.found)
      <4>1. PICK w \in rd'.found : Geq(w.clock, x.clock)
        BY <1>1 DEF Covered
      <4>2. w.clock \in [Nodes -> Nat] /\ x.clock \in [Nodes -> Nat] /\ v.clock \in [Nodes -> Nat]
        BY <2>6, <2>7, <3>1 DEF Version
      <4>3. Geq(w.clock, v.clock)
        BY <3>3, <4>1, <4>2, GeqOrder
      <4> QED
        BY <4>3 DEF Covered
    <3>4. ASSUME NEW m \in Q, m \in B PROVE Covered(v, rd'.found)
      <4>1. CASE m \in A
        BY <3>2, <3>3, <4>1 DEF Covered
      <4>2. CASE m = n
        BY <3>2, <3>3, <4>2 DEF Covered
      <4> QED
        BY <3>4, <4>1, <4>2
    <3> QED
      BY <3>2, <3>4
  <2> HIDE DEF B
  <2> QED
    BY <2>1, <2>3, <2>5, <2>8
<1>5. ReadSound'
  <2>1. rd'.strict => rd'.todo \subseteq Primary /\ \E B \in SUBSET (Primary \ rd'.todo) :
          /\ Cardinality(B) = rd'.got
          /\ \A v \in rd'.must : \E Q \in SUBSET Primary :
               /\ Cardinality(Q) >= W
               /\ \A m \in Q : /\ \E w \in rec'[m] : Geq(w.clock, v.clock)
                               /\ m \in B => \E w \in rd'.found : Geq(w.clock, v.clock)
    BY <1>1, <1>2, <1>4 DEF Covered
  <2> QED
    BY <2>1 DEF ReadSound, AnsweredBy, Covered
<1>6. ReadsSeeAcked'
  <2> SUFFICES ASSUME W + R > N, rd'.phase = "done", rd'.strict, NEW v \in rd'.must
               PROVE  Covered(v, rd'.found)
    BY DEF ReadsSeeAcked, Covered
  <2>1. rd.strict /\ v \in rd.must /\ rd.got + 1 = R
    BY <1>1
  <2>2. PICK B \in SUBSET (Primary \ (rd.todo \ {n})) :
          /\ Cardinality(B) = rd.got + 1
          /\ \A x \in rd.must : \E Q \in SUBSET Primary :
               /\ Cardinality(Q) >= W
               /\ \A m \in Q : Covered(x, rec[m]) /\ (m \in B => Covered(x, rd'.found))
    BY <1>4, <2>1
  <2>3. PICK Q \in SUBSET Primary : Cardinality(Q) >= W /\ \A m \in Q : m \in B => Covered(v, rd'.found)
    BY <2>1, <2>2
  <2>4. B \in SUBSET Primary /\ Cardinality(B) = R
    BY <2>1, <2>2
  <2>5. B \cap Q # {}
    BY <2>3, <2>4, QuorumsMeet
  <2> QED
    BY <2>3, <2>5
<1> QED
  BY <1>1, <1>2, <1>5, <1>6, QuietKeeps

LEMMA ReadFailsKeeps ==
  ASSUME ReplicaAssumption, ReplicaIInv, NEW n \in Nodes, ReadFails(n)
  PROVE  ReplicaIInv'
<1>1. /\ StepSound /\ Known' \subseteq Known
      /\ rd.phase = "open" /\ rd'.phase \in {"open", "failed"}
      /\ rd'.strict = rd.strict /\ rd'.must = rd.must /\ rd'.todo \subseteq rd.todo
      /\ rd'.got = rd.got /\ rd'.found = rd.found
  BY ReadFailsStep
<1>2. UNCHANGED <<acked, tasks, wr>>
  BY DEF ReadFails
<1>3. ReadSound' /\ ReadsSeeAcked'
  <2>1. CASE rd'.phase = "open"
    BY <1>1, <2>1, OpenReadStays DEF ReadsSeeAcked
  <2>2. CASE rd'.phase = "failed"
    BY <1>1, <2>2, ReadStays
  <2> QED
    BY <1>1, <2>1, <2>2
<1> QED
  BY <1>1, <1>2, <1>3, QuietKeeps

LEMMA ReplicaInit ==
  ASSUME ReplicaAssumption, KVInit
  PROVE  ReplicaIInv
<1>1. KVTypeOK
  BY DEF KVInit, KVTypeOK, Writing, ReplicaAssumption
<1>2. RecordsFinite
  BY FS_EmptySet DEF KVInit, RecordsFinite
<1>3. \A n \in Nodes : wr[n].phase = "idle"
  BY DEF KVInit, NoWrite
<1>4. Stored = {} /\ Sent = {} /\ Granted = {} /\ Hinted = {} /\ Shown = {}
  BY DEF KVInit, Stored, Sent, Granted, Hinted, Shown
<1>5. Awaited = {} /\ Found = {}
  BY <1>3 DEF KVInit, Awaited, Found
<1>6. Known = {}
  BY <1>4, <1>5 DEF Known
<1>7. CountersKept /\ DerivedFresh /\ KnownUnique
  BY <1>3, <1>6 DEF CountersKept, DerivedFresh, KnownUnique
<1>8. AcksSound /\ TasksSound
  BY <1>3 DEF KVInit, AcksSound, TasksSound
<1>9. ReadSound /\ ReadsSeeAcked
  BY DEF KVInit, ReadSound, ReadsSeeAcked
<1> QED
  BY <1>1, <1>2, <1>7, <1>8, <1>9 DEF ReplicaIInv

LEMMA ReplicaNext ==
  ASSUME ReplicaAssumption, ReplicaIInv, [KVNext]_kvVars
  PROVE  ReplicaIInv'
<1>1. ASSUME NEW c \in Coordinators, NEW S \in contexts, WriteBegin(c, S) PROVE ReplicaIInv'
  BY <1>1, WriteBeginKeeps
<1>2. ASSUME NEW c \in Coordinators, NEW down \in SUBSET (Nodes \ {c}),
             WriteFanOut(c, down) \/ ReadBegin(c, down)
      PROVE  ReplicaIInv'
  BY <1>2, WriteFanOutKeeps, ReadBeginKeeps
<1>3. ASSUME NEW t \in tasks,
             SaveHint(t) \/ Replicate(t) \/ ReplicateFails(t, TRUE) \/ ReplicateFails(t, FALSE)
      PROVE  ReplicaIInv'
  BY <1>3, SaveHintKeeps, ReplicateKeeps, ReplicateFailsKeeps
<1>4. ASSUME NEW n \in Nodes, ReadReply(n) \/ ReadFails(n) PROVE ReplicaIInv'
  BY <1>4, ReadReplyKeeps, ReadFailsKeeps
<1>5. ASSUME NEW n \in Nodes, NEW h \in hints[n], DeliverHint(n, h) PROVE ReplicaIInv'
  <2>1. StepSound /\ Known' \subseteq Known
    BY <1>5, DeliverHintStep
  <2>2. UNCHANGED <<wr, tasks, rd, acked>>
    BY <1>5 DEF DeliverHint
  <2> QED
    BY <2>1, <2>2, ReadStays, QuietKeeps
<1>6. ASSUME NEW n \in Nodes, NEW peer \in Nodes, SyncPull(n, peer) PROVE ReplicaIInv'
  <2>1. StepSound /\ Known' \subseteq Known
    BY <1>6, SyncPullStep
  <2>2. UNCHANGED <<wr, tasks, rd, acked>>
    BY <1>6 DEF SyncPull
  <2> QED
    BY <2>1, <2>2, ReadStays, QuietKeeps
<1>7. ASSUME NEW n \in Nodes, SyncPush(n) PROVE ReplicaIInv'
  <2>1. StepSound /\ Known' \subseteq Known
    BY <1>7, SyncPushStep
  <2>2. UNCHANGED <<wr, tasks, rd, acked>>
    BY <1>7 DEF SyncPush
  <2> QED
    BY <2>1, <2>2, ReadStays, QuietKeeps
<1>8. ASSUME NEW n \in Nodes, NodeCrash(n) PROVE ReplicaIInv'
  <2>1. /\ StepSound /\ Known' \subseteq Known
        /\ tasks' \subseteq tasks
        /\ \A m \in Nodes : wr'[m] = wr[m] \/ wr'[m] = NoWrite
        /\ rd' = rd \/ rd'.phase = "failed"
    BY <1>8, NodeCrashStep
  <2>2. acked' = acked
    BY <1>8 DEF NodeCrash
  <2> QED
    BY <2>1, <2>2, ReadStays, QuietKeeps
<1>9. ASSUME NEW n \in Nodes, Restart(n) PROVE ReplicaIInv'
  <2>1. StepSound /\ Known' \subseteq Known
    BY <1>9, RestartStep
  <2>2. UNCHANGED <<wr, tasks, rd, acked>>
    BY <1>9 DEF Restart
  <2> QED
    BY <2>1, <2>2, ReadStays, QuietKeeps
<1>10. CASE UNCHANGED kvVars
  <2>1. UNCHANGED <<alive, rec, hints, wr, tasks, rd, acked, contexts, syncing, writes, reads, faults>>
    BY <1>10 DEF kvVars
  <2>2. KVTypeOK' /\ RecordsFinite' /\ HintsHeld
    BY <2>1 DEF ReplicaIInv, KVTypeOK, RecordsFinite, HintsHeld
  <2>3. StepSound
    BY <2>1, <2>2, RecordsStay DEF ReplicaIInv, StepSound
  <2>4. Known' \subseteq Known
    BY <2>1, KnownWays, KnownNext
  <2> QED
    BY <2>1, <2>3, <2>4, ReadStays, QuietKeeps
<1> QED
  BY <1>1, <1>2, <1>3, <1>4, <1>5, <1>6, <1>7, <1>8, <1>9, <1>10 DEF KVNext

\* The parts of the invariant hold throughout (replication/service.py, records.py,
\* cluster/repair.py, cluster/anti_entropy.py).
THEOREM ReplicaInvariant ==
  ASSUME ReplicaAssumption
  PROVE  KVSpec => []ReplicaIInv
<1>1. KVInit => ReplicaIInv
  BY ReplicaInit
<1>2. ReplicaIInv /\ [KVNext]_kvVars => ReplicaIInv'
  BY ReplicaNext
<1> QED
  BY <1>1, <1>2, PTL DEF KVSpec

\* No two writes get the same clock, whatever crashes, prunes and stale contexts
\* happen: what is not known yet is derived, and derived clocks are fresh.
LEMMA ClocksApart ==
  ASSUME ReplicaIInv
  PROVE  ClocksUnique
<1>1. KVTypeOK /\ DerivedFresh /\ KnownUnique
  BY DEF ReplicaIInv
<1> DEFINE Derived == {wr[n].ver : n \in {m \in Nodes : wr[m].phase = "derived"}}
<1>2. Everywhere \subseteq Known \cup Derived
  <2>1. DOMAIN rec = Nodes /\ DOMAIN hints = Nodes /\ DOMAIN wr = Nodes
    BY <1>1, Types
  <2>2. {wr[n].ver : n \in {m \in DOMAIN wr : wr[m] # NoWrite}} \subseteq Awaited \cup Derived
    <3>1. ASSUME NEW n \in Nodes, wr[n] # NoWrite PROVE wr[n].phase \in {"derived", "waiting"}
      <4>1. wr[n] \in Writing
        BY <1>1, Types
      <4> QED
        BY <3>1, <4>1, WritingTypes
    <3> QED
      BY <2>1, <3>1 DEF Awaited
  <2> DEFINE Mine == {wr[n].ver : n \in {m \in DOMAIN wr : wr[m] # NoWrite}}
  <2>3. Everywhere = Stored \cup Sent \cup Granted \cup Hinted \cup Mine
    <3> DEFINE Saved == UNION {rec[n] : n \in DOMAIN rec}
    <3> DEFINE Owed == UNION {{h.ver : h \in hints[n]} : n \in DOMAIN hints}
    <3>1. Saved = Stored /\ Owed = Hinted
      BY <2>1, Zenon DEF Stored, Hinted
    <3>2. Everywhere = Saved \cup Sent \cup Granted \cup Owed \cup Mine
      BY DEF Everywhere, Sent, Granted
    <3> QED
      BY <3>1, <3>2, Zenon
  <2> HIDE DEF Mine, Derived
  <2> QED
    BY <2>2, <2>3 DEF Known, Mine
<1>3. ASSUME NEW n \in Nodes, wr[n].phase = "derived" PROVE wr[n].ver \in Version
  <2>1. wr[n] \in Writing
    BY <1>1, Types
  <2> QED
    BY <1>3, <2>1, WritingTypes
<1>4. Known \subseteq Version
  BY <1>1, KnownVersions
<1>5. ASSUME NEW v \in Known, NEW n \in Nodes, wr[n].phase = "derived" PROVE v.clock # wr[n].ver.clock
  <2>1. v.clock[n] < wr[n].ver.clock[n]
    BY <1>1, <1>5 DEF DerivedFresh
  <2>2. v.clock[n] \in Nat
    BY <1>4 DEF Version
  <2> QED
    BY <2>1, <2>2
<1>6. ASSUME NEW n \in Nodes, NEW m \in Nodes, n # m, wr[n].phase = "derived", wr[m].phase = "derived"
      PROVE  wr[n].ver.clock # wr[m].ver.clock
  <2>1. Counted(wr[n].ver, m) /\ wr[m].ver.clock[m] > 0
    BY <1>1, <1>6 DEF DerivedFresh
  <2>2. wr[n].ver.clock[m] \in Nat /\ wr[m].ver.clock[m] \in Nat
    BY <1>3, <1>6 DEF Version
  <2>3. CASE wr[n].ver.clock[m] = 0
    BY <2>1, <2>2, <2>3
  <2>4. CASE \E x \in rec[m] : wr[n].ver.clock[m] <= x.clock[m]
    <3>1. PICK x \in rec[m] : wr[n].ver.clock[m] <= x.clock[m]
      BY <2>4
    <3>2. x \in Known
      BY KnownWays
    <3>3. x.clock[m] \in Nat
      BY <1>4, <3>2 DEF Version
    <3>4. x.clock[m] < wr[m].ver.clock[m]
      BY <1>1, <1>6, <3>2 DEF DerivedFresh
    <3> QED
      BY <2>2, <3>1, <3>3, <3>4
  <2> QED
    BY <2>1, <2>3, <2>4 DEF Counted
<1>7. ASSUME NEW v \in Known \cup Derived, NEW w \in Known \cup Derived, v.clock = w.clock PROVE v = w
  <2>1. CASE v \in Known /\ w \in Known
    BY <1>1, <1>7, <2>1 DEF KnownUnique
  <2>2. CASE v \in Known /\ w \in Derived
    BY <1>5, <1>7, <2>2
  <2>3. CASE v \in Derived /\ w \in Known
    BY <1>5, <1>7, <2>3
  <2>4. CASE v \in Derived /\ w \in Derived
    <3>1. PICK n \in Nodes : wr[n].phase = "derived" /\ v = wr[n].ver
      BY <2>4
    <3>2. PICK m \in Nodes : wr[m].phase = "derived" /\ w = wr[m].ver
      BY <2>4
    <3> QED
      BY <1>6, <1>7, <3>1, <3>2
  <2> QED
    BY <2>1, <2>2, <2>3, <2>4
<1> HIDE DEF Derived
<1> QED
  BY <1>2, <1>7 DEF ClocksUnique

\* No two writes share a clock, no acknowledged write is lost by a replica that
\* acknowledged it, a substitute's write stays owed to its owner, and with W + R > N
\* a read of primaries returns what primaries acknowledged before it: for any nodes,
\* quorums, clock limit and number of writes, reads and outages.
THEOREM WritesAreKept ==
  ASSUME ReplicaAssumption
  PROVE  KVSpec => [](KVTypeOK /\ WritesKept)
<1>1. ASSUME ReplicaIInv PROVE KVTypeOK /\ WritesKept
  <2>1. ClocksUnique
    BY <1>1, ClocksApart
  <2>2. AckedDurable /\ SloppyAckHasHint
    BY <1>1 DEF ReplicaIInv, AcksSound, AckSound, AckedDurable, SloppyAckHasHint
  <2> QED
    BY <1>1, <2>1, <2>2 DEF ReplicaIInv, WritesKept
<1> QED
  BY <1>1, ReplicaInvariant, PTL
=============================================================================
