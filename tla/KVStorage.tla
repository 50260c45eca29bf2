------------------------------ MODULE KVStorage ------------------------------
(***************************************************************************)
(* The LSM storage engine of a key-value node (storage/engine.py, wal.py,  *)
(* memtable.py, sstable.py, compaction.py): log, memtable, tables, flush   *)
(* and compaction, with I/O errors and crashes between any two steps.      *)
(*                                                                         *)
(* One mutation runs at a time (write lock); its awaits are the steps of   *)
(* pc.  Readers take no lock.  A value is the number of its write; a       *)
(* tombstone is a value as any other, for compaction keeps tombstones.     *)
(* Entry sizes are abstracted: a memtable may be full after any insert.    *)
(***************************************************************************)
EXTENDS Integers, FiniteSets, Sequences, FiniteSetsExt, SequencesExt

CONSTANTS
  Keys,
  Threshold,   \* compaction_threshold
  Torn,        \* an incomplete frame of the log
  MaxWrites, MaxFaults   \* bounds

\* What the constants may be.
EngineAssumption ==
  /\ Threshold \in Nat \ {0, 1} /\ MaxWrites \in Nat /\ MaxFaults \in Nat
  /\ "stop" \notin Keys /\ Torn \notin [key : Keys, ts : 1..MaxWrites, val : 1..MaxWrites]

VARIABLES
  wal,      \* the log file: entries and torn frames
  files,    \* the published tables of the directory
  started,
  mem,      \* memtable: a set of entries, one per key
  tables,   \* the tables that reads use
  fenced,   \* the log refuses mutations after an I/O error
  pc,       \* the next step of the mutation that holds the write lock
  cur,      \* its entry, the key "stop" when it is a shutdown
  fresh,    \* the table it has published, and the inputs still to be unlinked
  sacked,   \* sacked[k]: timestamp of the last write reported as done
  sseen,    \* sseen[k]: the newest entry a reader can have got
  swrites, sfaults

disk == <<wal, files>>
engineVars == <<disk, started, mem, tables, fenced, pc, cur, fresh, sacked, sseen, swrites, sfaults>>

Nothing == [ts |-> 0, val |-> 0]
NoFresh == [inputs |-> {}]

-----------------------------------------------------------------------------
(***************************************************************************)
(* Reading.                                                                *)
(***************************************************************************)

\* The entry with the greatest timestamp; Nothing when the key is absent.
Newest(E, k) ==
  LET mine == {e \in E : e.key = k}
  IN  IF mine = {} THEN Nothing
      ELSE LET best == CHOOSE e \in mine : \A f \in mine : e.ts >= f.ts
           IN  [ts |-> best.ts, val |-> best.val]

EntriesOf(T) == UNION {t.entries : t \in T}

Get(k) == Newest(mem \cup EntriesOf(tables), k)

\* memtable.put: an older entry is ignored, an equal timestamp overwrites.
Inserted(m, e) ==
  IF \E f \in m : f.key = e.key /\ f.ts > e.ts THEN m ELSE {f \in m : f.key # e.key} \cup {e}

\* replay keeps the complete prefix and cuts an incomplete suffix off.
CompleteLog(log) ==
  IF Contains(log, Torn)
  THEN SubSeq(log, 1, Min({i \in DOMAIN log : log[i] = Torn}) - 1)
  ELSE log

\* Its entries are inserted in the order of the log: after[i] is the memtable after
\* the first i of them.
Replayed(m, log) ==
  LET entries == CompleteLog(log)
      after[i \in 0..Len(entries)] == IF i = 0 THEN m ELSE Inserted(after[i - 1], entries[i])
  IN  after[Len(entries)]

\* Merge of the inputs of a compaction: the newest entry of every key.
MergedEntries_FirstWins(E) == {e \in E : \A f \in E : f.key = e.key => f.ts >= e.ts}
MergedEntries(E) == {e \in E : \A f \in E : f.key = e.key => f.ts <= e.ts}

-----------------------------------------------------------------------------
(***************************************************************************)
(* A put or a delete.                                                      *)
(***************************************************************************)

\* ReplicaRecords gives every write of a key a greater timestamp than it read.
BeginWrite(k) ==
  /\ started /\ pc = "idle"
  /\ swrites < MaxWrites
  /\ swrites' = swrites + 1
  /\ cur' = [key |-> k, ts |-> Get(k).ts + 1, val |-> swrites + 1]
  /\ pc' = "append"
  /\ UNCHANGED <<disk, started, mem, tables, fenced, fresh, sacked, sseen, sfaults>>

LogEntry_Unsynced ==
  /\ pc = "append" /\ ~fenced
  /\ wal' \in {wal, Append(wal, cur)}
  /\ pc' = "insert"
  /\ UNCHANGED <<files, started, mem, tables, fenced, cur, fresh, sacked, sseen, swrites, sfaults>>

LogEntry ==
  /\ pc = "append" /\ ~fenced
  /\ wal' = Append(wal, cur)
  /\ pc' = "insert"
  /\ UNCHANGED <<files, started, mem, tables, fenced, cur, fresh, sacked, sseen, swrites, sfaults>>

\* _require_healthy.
AppendRefused ==
  /\ pc = "append" /\ fenced
  /\ pc' = "idle"
  /\ UNCHANGED <<disk, started, mem, tables, fenced, cur, fresh, sacked, sseen, swrites, sfaults>>

\* An I/O error leaves nothing, a part of the frame or all of it, and sets the fence.
AppendFails_NoFence ==
  /\ pc = "append" /\ ~fenced
  /\ sfaults < MaxFaults /\ sfaults' = sfaults + 1
  /\ wal' \in {wal, Append(wal, Torn), Append(wal, cur)}
  /\ pc' = "idle"
  /\ UNCHANGED <<files, started, mem, tables, fenced, cur, fresh, sacked, sseen, swrites>>

AppendFails ==
  /\ pc = "append" /\ ~fenced
  /\ sfaults < MaxFaults /\ sfaults' = sfaults + 1
  /\ wal' \in {wal, Append(wal, Torn), Append(wal, cur)}
  /\ fenced' = TRUE
  /\ pc' = "idle"
  /\ UNCHANGED <<files, started, mem, tables, cur, fresh, sacked, sseen, swrites>>

\* The result of the mutation reaches its caller.
Acknowledged == IF cur.key # "stop" THEN [sacked EXCEPT ![cur.key] = cur.ts] ELSE sacked

Observed(m, T) ==
  [k \in Keys |-> LET e == Newest(m \cup EntriesOf(T), k) IN IF e.ts > sseen[k].ts THEN e ELSE sseen[k]]

Insert(full) ==
  /\ pc = "insert"
  /\ mem' = Inserted(mem, cur)
  /\ sseen' = Observed(mem', tables)
  /\ pc' = IF full THEN "publish" ELSE "idle"
  /\ sacked' = IF full THEN sacked ELSE Acknowledged
  /\ UNCHANGED <<disk, started, tables, fenced, cur, fresh, swrites, sfaults>>

-----------------------------------------------------------------------------
(***************************************************************************)
(* Flush.                                                                  *)
(***************************************************************************)

Table(level, entries) == [level |-> level, entries |-> entries, born |-> swrites]

PublishTable_Unsynced ==
  /\ pc = "publish"
  /\ fresh' = [inputs |-> {}, table |-> Table(0, mem)]
  /\ files' \in {files, files \cup {fresh'.table}}
  /\ pc' = "install"
  /\ UNCHANGED <<wal, started, mem, tables, fenced, cur, sacked, sseen, swrites, sfaults>>

\* A temporary file is synced, then renamed.
PublishTable ==
  /\ pc = "publish"
  /\ fresh' = [inputs |-> {}, table |-> Table(0, mem)]
  /\ files' = files \cup {fresh'.table}
  /\ pc' = "install"
  /\ UNCHANGED <<wal, started, mem, tables, fenced, cur, sacked, sseen, swrites, sfaults>>

\* The mutation ends with an error; a shutdown closes the log all the same.
Fails ==
  /\ pc' = "idle"
  /\ started' = (cur.key # "stop")
  /\ fresh' = NoFresh

PublishFails ==
  /\ pc = "publish"
  /\ sfaults < MaxFaults /\ sfaults' = sfaults + 1
  /\ files' \in {files, files \cup {Table(0, mem)}}
  /\ Fails
  /\ UNCHANGED <<wal, mem, tables, fenced, cur, sacked, sseen, swrites>>

Install ==
  /\ pc = "install"
  /\ tables' = tables \cup {fresh.table}
  /\ mem' = {}
  /\ pc' = "truncate"
  /\ UNCHANGED <<disk, started, fenced, cur, fresh, sacked, sseen, swrites, sfaults>>

Truncate ==
  /\ pc = "truncate" /\ ~fenced
  /\ wal' = <<>>
  /\ pc' = "compact"
  /\ UNCHANGED <<files, started, mem, tables, fenced, cur, fresh, sacked, sseen, swrites, sfaults>>

TruncateFails ==
  /\ pc = "truncate"
  /\ \/ fenced /\ UNCHANGED <<wal, fenced, sfaults>>
     \/ /\ ~fenced /\ sfaults < MaxFaults /\ sfaults' = sfaults + 1
        /\ wal' \in {wal, <<>>} /\ fenced' = TRUE
  /\ Fails
  /\ UNCHANGED <<files, mem, tables, cur, sacked, sseen, swrites>>

-----------------------------------------------------------------------------
(***************************************************************************)
(* Compaction of the lowest level that has reached the threshold.          *)
(***************************************************************************)

Level(T, l) == {t \in T : t.level = l}
FullLevels  == {l \in {t.level : t \in tables} : Cardinality(Level(tables, l)) >= Threshold}

Compacted(l) == Table(l + 1, MergedEntries(EntriesOf(Level(tables, l))))

Compact ==
  /\ pc = "compact"
  /\ FullLevels # {}
  /\ LET l == Min(FullLevels)
     IN  /\ fresh' = [inputs |-> Level(tables, l), table |-> Compacted(l)]
         /\ files' = files \cup {Compacted(l)}
  /\ pc' = "replace"
  /\ UNCHANGED <<wal, started, mem, tables, fenced, cur, sacked, sseen, swrites, sfaults>>

CompactFails ==
  /\ pc = "compact"
  /\ FullLevels # {}
  /\ sfaults < MaxFaults /\ sfaults' = sfaults + 1
  /\ files' \in {files, files \cup {Compacted(Min(FullLevels))}}
  /\ Fails
  /\ UNCHANGED <<wal, mem, tables, fenced, cur, sacked, sseen, swrites>>

\* _replace_compacted_sstables: by level.
ReplaceTables ==
  /\ pc = "replace"
  /\ tables' = (tables \ fresh.inputs) \cup {fresh.table}
  /\ pc' = "unlink"
  /\ UNCHANGED <<disk, started, mem, fenced, cur, fresh, sacked, sseen, swrites, sfaults>>

\* The inputs go one by one; one that cannot be removed stays.
Unlink(t, removed) ==
  /\ pc = "unlink" /\ t \in fresh.inputs
  /\ removed \/ sfaults < MaxFaults
  /\ sfaults' = IF removed THEN sfaults ELSE sfaults + 1
  /\ files' = IF removed THEN files \ {t} ELSE files
  /\ fresh' = [fresh EXCEPT !.inputs = @ \ {t}]
  /\ UNCHANGED <<wal, started, mem, tables, fenced, pc, cur, sacked, sseen, swrites>>

\* The mutation returns.
Finish ==
  /\ \/ pc = "compact" /\ FullLevels = {}
     \/ pc = "unlink" /\ fresh.inputs = {}
  /\ pc' = "idle"
  /\ sacked' = Acknowledged
  /\ started' = (cur.key # "stop")
  /\ fresh' = NoFresh
  /\ UNCHANGED <<disk, mem, tables, fenced, cur, sseen, swrites, sfaults>>

-----------------------------------------------------------------------------
(***************************************************************************)
(* Lifecycle.                                                              *)
(***************************************************************************)

Stop_FlushesEmpty ==
  /\ started /\ pc = "idle"
  /\ cur' = [key |-> "stop", ts |-> 0, val |-> 0]
  /\ pc' = "publish"
  /\ UNCHANGED <<disk, started, mem, tables, fenced, fresh, sacked, sseen, swrites, sfaults>>

Stop ==
  /\ started /\ pc = "idle"
  /\ cur' = [key |-> "stop", ts |-> 0, val |-> 0]
  /\ IF mem = {} THEN pc' = "idle" /\ started' = FALSE
                 ELSE pc' = "publish" /\ UNCHANGED started
  /\ UNCHANGED <<disk, mem, tables, fenced, fresh, sacked, sseen, swrites, sfaults>>

\* A crash loses the memory; a log write may be cut.
Crash ==
  /\ started
  /\ sfaults < MaxFaults /\ sfaults' = sfaults + 1
  /\ started' = FALSE
  /\ mem' = {} /\ tables' = {} /\ fenced' = FALSE
  /\ wal' \in IF pc = "append" /\ ~fenced THEN {wal, Append(wal, Torn)} ELSE {wal}
  /\ pc' = "idle" /\ fresh' = NoFresh
  /\ UNCHANGED <<files, cur, sacked, sseen, swrites>>

Start ==
  /\ ~started
  /\ tables' = files
  /\ mem' = Replayed(mem, wal)
  /\ wal' = CompleteLog(wal)
  /\ fenced' = FALSE
  /\ started' = TRUE
  /\ sseen' = Observed(mem', tables')
  /\ UNCHANGED <<files, pc, cur, fresh, sacked, swrites, sfaults>>

EngineInit ==
  /\ wal = <<>> /\ files = {}
  /\ started = FALSE
  /\ mem = {} /\ tables = {} /\ fenced = FALSE
  /\ pc = "idle" /\ cur = [key |-> "stop", ts |-> 0, val |-> 0] /\ fresh = NoFresh
  /\ sacked = [k \in Keys |-> 0]
  /\ sseen = [k \in Keys |-> Nothing]
  /\ swrites = 0 /\ sfaults = 0

EngineNext ==
  \/ \E k \in Keys : BeginWrite(k)
  \/ LogEntry \/ AppendRefused \/ AppendFails
  \/ Insert(TRUE) \/ Insert(FALSE)
  \/ PublishTable \/ PublishFails \/ Install \/ Truncate \/ TruncateFails
  \/ Compact \/ CompactFails \/ ReplaceTables \/ Finish
  \/ \E t \in fresh.inputs : Unlink(t, TRUE) \/ Unlink(t, FALSE)
  \/ Stop \/ Crash \/ Start

EngineSpec == EngineInit /\ [][EngineNext]_engineVars

-----------------------------------------------------------------------------
(***************************************************************************)
(* Properties.                                                             *)
(***************************************************************************)

Entry == [key : Keys, ts : 1..MaxWrites, val : 1..MaxWrites]

EngineTypeOK ==
  /\ \A i \in DOMAIN wal : wal[i] \in Entry \cup {Torn}
  /\ \A t \in files \cup tables : t.entries \subseteq Entry /\ t.entries # {} /\ t.level \in Nat
  /\ mem \subseteq Entry /\ \A e, f \in mem : e.key = f.key => e = f
  /\ started \in BOOLEAN /\ fenced \in BOOLEAN
  /\ pc \in {"idle", "append", "insert", "publish", "install", "truncate", "compact", "replace", "unlink"}
  /\ pc # "idle" => started
  /\ swrites \in 0..MaxWrites /\ sfaults \in 0..MaxFaults

Recovered(k) == Newest(Replayed({}, wal) \cup EntriesOf(files), k)

\* Whatever a reader can get now would be recovered by a crash now: the order of
\* log, publication, truncation, replacement and unlinking never leaves a gap.
ReadableIsOnDisk == started => \A k \in Keys : Recovered(k).ts >= Get(k).ts

\* A write that was reported as done is never lost, whatever fails or crashes.
AckedSurvives == started => \A k \in Keys : Get(k).ts >= sacked[k]

\* Reads never go back: after a restart a reader gets the entry it got before, or
\* a newer one, and never another value of the same timestamp.
ReadsNeverGoBack ==
  started => \A k \in Keys : Get(k).ts > sseen[k].ts \/ Get(k) = sseen[k]

\* A timestamp is never reused for another value, also after a log write that
\* failed although it reached the disk.
OneValuePerTimestamp ==
  \A e, f \in mem \cup EntriesOf(files \cup tables) \cup {wal[i] : i \in {j \in DOMAIN wal : wal[j] # Torn}} :
    e.key = f.key /\ e.ts = f.ts => e.val = f.val

\* All of it: what a reader gets is on disk, a write reported as done is never lost,
\* reads never go back and a timestamp is never reused, through crashes, I/O
\* errors and compactions (storage/engine.py, wal.py, compaction.py).
EngineDurable ==
  EngineTypeOK /\ ReadableIsOnDisk /\ AckedSurvives /\ ReadsNeverGoBack /\ OneValuePerTimestamp
=============================================================================
