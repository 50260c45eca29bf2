-------------------------- MODULE StockReplication --------------------------
(***************************************************************************)
(* Sequencing, replication, manual failover and publication of the stock   *)
(* exchange (stock_exchange/storage.py, market.py, http.py, cli.py).       *)
(*                                                                         *)
(* The sequencer appends commands; both engines poll and apply them; the   *)
(* active engine answers gateway queries and the market process, fenced by *)
(* the epoch that a promotion advances.  Every read of the control row is  *)
(* a call of its own, so a promotion may fall between any two of them.     *)
(* Matching is deterministic, so the state of an engine is the length of   *)
(* the prefix it applied, and hashes of the chain are the positions.       *)
(***************************************************************************)
EXTENDS Integers

CONSTANTS
  Engines,      \* matching replicas
  First,        \* the engine that is active initially
  Clients,      \* gateway clients, each with one query at a time
  Retention,    \* batches an engine keeps for its feed
  Window,       \* public deltas the market keeps (8 in the code)
  MaxLog,       \* bound: length of the command log (1001 in the code)
  MaxEpoch,     \* bound: promotions
  MaxCrashes    \* bound: engine and market restarts

ASSUME ReplicationAssumption ==
  /\ First \in Engines /\ "market" \notin Clients
  /\ Retention \in Nat \ {0} /\ Window \in Nat \ {0}
  /\ MaxLog \in Nat \ {0} /\ MaxEpoch \in Nat \ {0} /\ MaxCrashes \in Nat

VARIABLES
  tail,       \* last sequence number of the sequencer's log
  control,    \* control row: epoch and active engine
  applied,    \* applied[e]: last command the engine applied
  fence,      \* fence[e]: highest epoch the engine served
  up,         \* running engines
  candidate,  \* candidate[e]: what a promotion in progress read of e, or 0
  reader,     \* reader[r]: the query of a client, or the poll of the market
  seen,       \* seen[c]: sequence of the client's last answer
  market,     \* projection: epoch, sequence, and the sequences it contains
  changes,    \* public deltas the market keeps
  viewer,     \* a public client: its sequence and the sequences it contains
  crashes

vars == <<tail, control, applied, fence, up, candidate, reader, seen, market, changes, viewer, crashes>>

Readers == Clients \cup {"market"}
Idle    == [phase |-> "idle"]
\* The feed of an engine keeps the last Retention batches.
Oldest(n) == IF n > Retention THEN n - Retention + 1 ELSE 1

-----------------------------------------------------------------------------
(***************************************************************************)
(* Sequencer and engines.                                                  *)
(***************************************************************************)

\* submit: a new request takes the next number; a repeated one answers its own.
Submit_NoLimit ==
  /\ tail' = tail + 1
  /\ UNCHANGED <<control, applied, fence, up, candidate, reader, seen, market, changes, viewer, crashes>>

Submit ==
  /\ tail < MaxLog
  /\ tail' = tail + 1
  /\ UNCHANGED <<control, applied, fence, up, candidate, reader, seen, market, changes, viewer, crashes>>

EngineApply(e) ==
  /\ e \in up
  /\ applied[e] < tail
  /\ applied' = [applied EXCEPT ![e] = @ + 1]
  /\ UNCHANGED <<tail, control, fence, up, candidate, reader, seen, market, changes, viewer, crashes>>

\* An engine stops; its journal, projection and fence are on disk, and the
\* rebuild of a restart recomputes the same batches.
EngineStop(e) ==
  /\ e \in up
  /\ crashes < MaxCrashes
  /\ crashes' = crashes + 1
  /\ up' = up \ {e}
  /\ UNCHANGED <<tail, control, applied, fence, candidate, reader, seen, market, changes, viewer>>

EngineRestart(e) ==
  /\ e \notin up
  /\ up' = up \cup {e}
  /\ UNCHANGED <<tail, control, applied, fence, candidate, reader, seen, market, changes, viewer, crashes>>

\* The gateway fetches the candidate's raw state before its own transaction.
FetchCandidate(e) ==
  /\ e \in up
  /\ applied[e] > 0
  /\ candidate[e] = 0
  /\ control.epoch < MaxEpoch
  /\ candidate' = [candidate EXCEPT ![e] = applied[e]]
  /\ UNCHANGED <<tail, control, applied, fence, up, reader, seen, market, changes, viewer, crashes>>

\* promote: only a complete prefix becomes active.
Complete_Fetched(e) == TRUE
Complete(e) == candidate[e] = tail

Promote(e) ==
  /\ candidate[e] # 0
  /\ control.epoch < MaxEpoch
  /\ candidate' = [candidate EXCEPT ![e] = 0]
  /\ control' = IF Complete(e) /\ e # control.active
                THEN [epoch |-> control.epoch + 1, active |-> e]
                ELSE control
  /\ UNCHANGED <<tail, applied, fence, up, reader, seen, market, changes, viewer, crashes>>

-----------------------------------------------------------------------------
(***************************************************************************)
(* Fenced reads of the active engine.                                      *)
(***************************************************************************)

\* The gateway or the market reads the control row.
Begin(r) ==
  /\ reader[r] = Idle
  /\ reader' = [reader EXCEPT ![r] = [phase |-> "ask", epoch |-> control.epoch, from |-> control.active]]
  /\ UNCHANGED <<tail, control, applied, fence, up, candidate, seen, market, changes, viewer, crashes>>

Unchanged(r) == control = [epoch |-> reader[r].epoch, active |-> reader[r].from]

\* published: the engine checks the control row and raises its fence.
Admit(r) ==
  LET e == reader[r].from IN
  /\ reader[r].phase = "ask"
  /\ e \in up
  /\ Unchanged(r)
  /\ fence[e] <= reader[r].epoch
  /\ fence' = [fence EXCEPT ![e] = reader[r].epoch]
  /\ reader' = [reader EXCEPT ![r].phase = "read"]
  /\ UNCHANGED <<tail, control, applied, up, candidate, seen, market, changes, viewer, crashes>>

\* query, raw and feed: the answer is the prefix up to the engine's tail.  The
\* market asks for a feed unless it has no projection or missed the window.
Feeds(r, e) == r = "market" /\ market.seq > 0 /\ market.seq >= Oldest(applied[e]) - 1

ReadEngine_NoResnapshot(r) ==
  LET e == reader[r].from IN
  /\ reader[r].phase = "read"
  /\ e \in up
  /\ applied[e] > 0
  /\ r = "market" => (market.seq = 0 \/ Feeds(r, e))
  /\ reader' = [reader EXCEPT ![r] =
       [phase |-> "check", epoch |-> @.epoch, from |-> e, upto |-> applied[e], feed |-> Feeds(r, e)]]
  /\ UNCHANGED <<tail, control, applied, fence, up, candidate, seen, market, changes, viewer, crashes>>

ReadEngine(r) ==
  LET e == reader[r].from IN
  /\ reader[r].phase = "read"
  /\ e \in up
  /\ applied[e] > 0
  /\ r = "market" => market.seq <= applied[e]
  /\ reader' = [reader EXCEPT ![r] =
       [phase |-> "check", epoch |-> @.epoch, from |-> e, upto |-> applied[e], feed |-> Feeds(r, e)]]
  /\ UNCHANGED <<tail, control, applied, fence, up, candidate, seen, market, changes, viewer, crashes>>

\* The engine checks the control row again before it answers.
Confirm(r) ==
  /\ reader[r].phase = "check"
  /\ reader[r].from \in up
  /\ Unchanged(r)
  /\ reader' = [reader EXCEPT ![r].phase = "accept"]
  /\ UNCHANGED <<tail, control, applied, fence, up, candidate, seen, market, changes, viewer, crashes>>

\* A call fails, is refused or finds the control row changed; the client asks
\* again and the market polls again.
GiveUp(r) ==
  /\ reader[r].phase \in {"ask", "read", "check", "accept"}
  /\ reader[r].from \notin up \/ ~Unchanged(r)
  /\ reader' = [reader EXCEPT ![r] = Idle]
  /\ UNCHANGED <<tail, control, applied, fence, up, candidate, seen, market, changes, viewer, crashes>>

\* The gateway compares the control row once more and answers its client.
AnswerClient(c) ==
  /\ reader[c].phase = "accept"
  /\ Unchanged(c)
  /\ reader[c].upto <= tail
  /\ seen' = [seen EXCEPT ![c] = reader[c].upto]
  /\ reader' = [reader EXCEPT ![c] = Idle]
  /\ UNCHANGED <<tail, control, applied, fence, up, candidate, market, changes, viewer, crashes>>

-----------------------------------------------------------------------------
(***************************************************************************)
(* The market process and its public clients.                              *)
(***************************************************************************)

\* Market.replace: a snapshot never takes the projection back.
Replace ==
  LET m == reader["market"] IN
  /\ m.phase = "accept"
  /\ Unchanged("market")
  /\ ~m.feed
  /\ m.epoch >= market.epoch /\ m.upto >= market.seq
  /\ LET value == [epoch |-> m.epoch, seq |-> m.upto, has |-> 1..m.upto] IN
     /\ market' = value
     /\ changes' = IF value = market THEN changes ELSE {}
  /\ reader' = [reader EXCEPT !["market"] = Idle]
  /\ UNCHANGED <<tail, control, applied, fence, up, candidate, seen, viewer, crashes>>

\* The verified feed is applied batch by batch, one transaction each.
StartApply ==
  LET m == reader["market"] IN
  /\ m.phase = "accept"
  /\ Unchanged("market")
  /\ m.feed
  /\ reader' = [reader EXCEPT !["market"].phase = IF m.upto > market.seq THEN "apply" ELSE "done"]
  /\ UNCHANGED <<tail, control, applied, fence, up, candidate, seen, market, changes, viewer, crashes>>

ApplyBatch ==
  LET m == reader["market"] IN
  /\ m.phase = "apply"
  /\ m.epoch >= market.epoch
  /\ market' = [epoch |-> m.epoch, seq |-> market.seq + 1, has |-> market.has \cup {market.seq + 1}]
  /\ changes' = {s \in changes \cup {market.seq + 1} : s > market.seq + 1 - Window}
  /\ reader' = [reader EXCEPT !["market"].phase = IF m.upto > market.seq + 1 THEN "apply" ELSE "done"]
  /\ UNCHANGED <<tail, control, applied, fence, up, candidate, seen, viewer, crashes>>

EndPoll ==
  /\ reader["market"].phase = "done"
  /\ reader' = [reader EXCEPT !["market"] = Idle]
  /\ UNCHANGED <<tail, control, applied, fence, up, candidate, seen, market, changes, viewer, crashes>>

\* The market process restarts in the middle of a poll.
MarketRestart ==
  /\ reader["market"] # Idle
  /\ crashes < MaxCrashes
  /\ crashes' = crashes + 1
  /\ reader' = [reader EXCEPT !["market"] = Idle]
  /\ UNCHANGED <<tail, control, applied, fence, up, candidate, seen, market, changes, viewer>>

\* deltas: a public client behind the window is sent to the snapshot.
Gap_OffByOne(after) == \A s \in changes : after < s - 2
Gap(after) == \A s \in changes : after < s - 1

ViewDeltas ==
  /\ market.seq > 0
  /\ viewer.seq < market.seq
  /\ ~Gap(viewer.seq)
  /\ viewer' = [seq |-> market.seq, has |-> viewer.has \cup {s \in changes : s > viewer.seq}]
  /\ UNCHANGED <<tail, control, applied, fence, up, candidate, reader, seen, market, changes, crashes>>

ViewSnapshot ==
  /\ market.seq > 0
  /\ viewer.seq < market.seq
  /\ Gap(viewer.seq)
  /\ viewer' = [seq |-> market.seq, has |-> market.has]
  /\ UNCHANGED <<tail, control, applied, fence, up, candidate, reader, seen, market, changes, crashes>>

-----------------------------------------------------------------------------

\* The genesis entry is number one.
Init ==
  /\ tail = 1
  /\ control = [epoch |-> 1, active |-> First]
  /\ applied = [e \in Engines |-> 0]
  /\ fence = [e \in Engines |-> 0]
  /\ up = Engines
  /\ candidate = [e \in Engines |-> 0]
  /\ reader = [r \in Readers |-> Idle]
  /\ seen = [c \in Clients |-> 0]
  /\ market = [epoch |-> 0, seq |-> 0, has |-> {}]
  /\ changes = {}
  /\ viewer = [seq |-> 0, has |-> {}]
  /\ crashes = 0

ReaderStep(r) == Begin(r) \/ Admit(r) \/ ReadEngine(r) \/ Confirm(r) \/ GiveUp(r)

MarketStep == Replace \/ StartApply \/ ApplyBatch \/ EndPoll

Next ==
  \/ Submit
  \/ \E e \in Engines : EngineApply(e) \/ EngineStop(e) \/ EngineRestart(e) \/ FetchCandidate(e) \/ Promote(e)
  \/ \E r \in Readers : ReaderStep(r)
  \/ \E c \in Clients : AnswerClient(c)
  \/ MarketStep \/ MarketRestart
  \/ ViewDeltas \/ ViewSnapshot

Spec == Init /\ [][Next]_vars

\* Engines and the market poll in a loop, and operators restart a stopped
\* engine.  Promotions, commands and public clients owe nothing.
Fairness ==
  /\ \A e \in Engines : WF_vars(EngineApply(e)) /\ WF_vars(EngineRestart(e))
  /\ WF_vars(ReaderStep("market"))
  /\ WF_vars(MarketStep)

FairSpec == Spec /\ Fairness

-----------------------------------------------------------------------------
(***************************************************************************)
(* Properties.                                                             *)
(***************************************************************************)

Asking   == [phase : {"ask", "read"}, epoch : 1..MaxEpoch, from : Engines]
Answered == [phase : {"check", "accept", "apply", "done"}, epoch : 1..MaxEpoch,
             from : Engines, upto : 1..MaxLog, feed : BOOLEAN]

\* The type invariant of the exchange.
TypeOK ==
  /\ tail \in 1..MaxLog
  /\ control \in [epoch : 1..MaxEpoch, active : Engines]
  /\ applied \in [Engines -> 0..MaxLog]
  /\ fence \in [Engines -> 0..MaxEpoch]
  /\ up \subseteq Engines
  /\ candidate \in [Engines -> 0..MaxLog]
  /\ reader \in [Readers -> {Idle} \cup Asking \cup Answered]
  /\ seen \in [Clients -> 0..MaxLog]
  /\ market \in [epoch : 0..MaxEpoch, seq : 0..MaxLog, has : SUBSET (1..MaxLog)]
  /\ changes \subseteq 1..MaxLog
  /\ viewer \in [seq : 0..MaxLog, has : SUBSET (1..MaxLog)]
  /\ crashes \in 0..MaxCrashes

\* No engine runs ahead of the sequencer, and whatever a client was answered
\* or the market published, the engine that is active now has applied it: a
\* failover loses nothing that was observed.
ActiveCoversObserved ==
  /\ \A e \in Engines : applied[e] <= tail
  /\ \A c \in Clients : seen[c] <= applied[control.active]
  /\ market.seq <= applied[control.active]

\* The projection and a public client that follows its deltas contain every
\* command up to their sequence number, without a gap, across feed windows,
\* resnapshots, failovers and restarts.
NoGaps ==
  /\ market.has = 1..market.seq
  /\ viewer.has = 1..viewer.seq

\* Nothing observed is lost, and no follower has a hole.
ObservedKept == ActiveCoversObserved /\ NoGaps

\* A client's successive answers never go back, also across a failover.
AnswersNeverGoBack == [][\A c \in Clients : seen'[c] >= seen[c]]_vars

\* Everything the sequencer accepted is published, once engines stay up and
\* promotions end.
EventuallyPublished == \A n \in 1..MaxLog : tail >= n ~> market.seq >= n
=============================================================================
