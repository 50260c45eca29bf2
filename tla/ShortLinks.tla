----------------------------- MODULE ShortLinks -----------------------------
(***************************************************************************)
(* The URL shortener: instances with a cache and click records             *)
(* (shortener.py), the strategies that choose codes (strategies.py) and    *)
(* the in-memory and SQLite storages they share (storage.py,               *)
(* sqlite_storage.py).                                                     *)
(*                                                                         *)
(* A code is a sequence of digits below Base.  CrcOf[u][k] is the checksum *)
(* of u with k - 1 collision suffixes.  A mapping made for a URL carries   *)
(* its creation time, so that no two made mappings are equal.              *)
(***************************************************************************)
EXTENDS Integers, Sequences, FiniteSets, SequencesExt, FiniteSetsExt

CONSTANTS Urls,              \* valid URLs
          Base, Length,      \* BASE62_CHARS, SHORT_CODE_LENGTH
          CrcOf,             \* external: zlib.crc32, per URL one for each attempt
          Sqlite,            \* SQLiteStorage, otherwise InMemoryStorage
          Shorteners,        \* instances that share the storage
          Strategy,          \* "hash", "counter" or "sequence" of each instance
          Threads, Home,     \* callers and the instance each one calls
          Redirects, CacheCapacity,
          MaxCalls, MaxFaults

VARIABLES rows,      \* committed mappings [code, url, redirect]
          sequence,  \* id_sequence of the database
          writer,    \* {} or the thread in a transaction
          counter,   \* instance -> _counter of its AutoIncrementIDGenerator
          cache,     \* instance -> mappings, least recently used first
          clicks,    \* instance -> codes resolved
          task,      \* thread -> its call
          answered,  \* history: [url, code] that shorten returned
          followed,  \* history: mappings that resolve returned
          lost,      \* history: codes not found although answered before the call
          refused,   \* history: <<instance, error>> of failed calls
          calls, faults

local == <<cache, clicks>>
history == <<answered, followed, lost, refused>>
vars == <<rows, sequence, writer, counter, local, task, history, calls, faults>>

Encode[n \in Nat] == IF n < Base THEN <<n>> ELSE Append(Encode[n \div Base], n % Base)
Decode(code) == FoldLeft(LAMBDA a, d : a * Base + d, 0, code)
Zeros(n) == [i \in 1..(IF n > 0 THEN n ELSE 0) |-> 0]
IdCode(id) == Zeros(Length - Len(Encode[id])) \o Encode[id]
HashCode(crc) ==
    LET kept == SubSeq(Encode[crc], 1, IF Len(Encode[crc]) < Length THEN Len(Encode[crc]) ELSE Length)
    IN  kept \o Zeros(Length - Len(kept))

Assumption ==
    /\ Base > 1 /\ Length > 0 /\ CacheCapacity >= 0
    /\ \A u \in Urls : Len(CrcOf[u]) > 0
    /\ \A s \in Shorteners : Strategy[s] \in {"hash", "counter"} \cup (IF Sqlite THEN {"sequence"} ELSE {})

Idle == [op |-> "idle", url |-> {}, redirect |-> 0, code |-> <<>>, row |-> {}, known |-> FALSE]
Row(c, u, r) == [code |-> c, url |-> u, redirect |-> r]
ByUrl(u) == {row \in rows : row.url = u}
ByCode(c) == {row \in rows : row.code = c}

Init ==
    /\ rows = {} /\ sequence = 0 /\ writer = {} /\ calls = 0 /\ faults = 0
    /\ counter = [s \in Shorteners |-> 1]
    /\ cache = [s \in Shorteners |-> <<>>] /\ clicks = [s \in Shorteners |-> <<>>]
    /\ task = [t \in Threads |-> Idle]
    /\ answered = {} /\ followed = {} /\ lost = {} /\ refused = {}

-----------------------------------------------------------------------------
(* Choosing a code: strategy.generate. *)

\* Attempts of the hash strategy whose code is free or already this URL's.
Usable(u) == {k \in DOMAIN CrcOf[u] : \A row \in ByCode(HashCode(CrcOf[u][k])) : row.url = u}

\* {} when the retries are exceeded.
Generated(s, u) ==
    CASE Strategy[s] = "hash" -> IF Usable(u) = {} THEN {} ELSE {HashCode(CrcOf[u][Min(Usable(u))])}
      [] Strategy[s] = "counter" -> {IdCode(counter[s])}
      [] Strategy[s] = "sequence" -> {IdCode(sequence + 1)}

CounterAfter(s) == [counter EXCEPT ![s] = IF Strategy[s] = "counter" THEN @ + 1 ELSE @]
\* next_id runs in the transaction of the mapping.
SequenceAfter(s) == IF Strategy[s] = "sequence" THEN sequence + 1 ELSE sequence

\* save refuses a mapping that would replace another one.
Conflicts(row) == \E other \in rows : other.code = row.code \/ other.url = row.url

-----------------------------------------------------------------------------
(* shorten. *)

Answer(t, row) ==
    /\ answered' = answered \cup {[url |-> row.url, code |-> row.code]}
    /\ task' = [task EXCEPT ![t] = Idle]
    /\ UNCHANGED <<followed, lost, refused>>

Refuse(t, error) ==
    /\ refused' = refused \cup {<<Home[t], error>>}
    /\ task' = [task EXCEPT ![t] = Idle]
    /\ UNCHANGED <<answered, followed, lost>>

\* InMemoryStorage.get_or_create: read, generate and save under one lock.
ShortenInMemory(t, u, r) ==
    /\ ~Sqlite /\ task[t] = Idle /\ calls < MaxCalls
    /\ calls' = calls + 1
    /\ \/ \E row \in ByUrl(u) : Answer(t, row) /\ UNCHANGED <<rows, counter>>
       \/ /\ ByUrl(u) = {} /\ counter' = CounterAfter(Home[t])
          /\ \/ Generated(Home[t], u) = {} /\ Refuse(t, "limit") /\ UNCHANGED rows
             \/ \E c \in Generated(Home[t], u) :
                  IF Conflicts(Row(c, u, r)) THEN Refuse(t, "conflict") /\ UNCHANGED rows
                  ELSE Answer(t, Row(c, u, r)) /\ rows' = rows \cup {Row(c, u, r)}
    /\ UNCHANGED <<sequence, writer, local, faults>>

\* SQLiteStorage.get_or_create: the read outside the transaction.
Shorten(t, u, r) ==
    /\ Sqlite /\ task[t] = Idle /\ calls < MaxCalls
    /\ calls' = calls + 1
    /\ \/ \E row \in ByUrl(u) : Answer(t, row)
       \/ /\ ByUrl(u) = {}
          /\ task' = [task EXCEPT ![t] = [Idle EXCEPT !.op = "begin", !.url = {u}, !.redirect = r]]
          /\ UNCHANGED history
    /\ UNCHANGED <<rows, sequence, writer, counter, local, faults>>

\* BEGIN IMMEDIATE and the second read.
Reread_Skipped(u) == {}
Reread(u) == ByUrl(u)

Begin(t) == \E u \in task[t].url :
    /\ task[t].op = "begin" /\ writer = {}
    /\ \/ \E row \in Reread(u) : Answer(t, row) /\ UNCHANGED writer
       \/ /\ Reread(u) = {} /\ writer' = {t}
          /\ task' = [task EXCEPT ![t].op = "inside"]
          /\ UNCHANGED history
    /\ UNCHANGED <<rows, sequence, counter, local, calls, faults>>

\* The lock was not free within the timeout of the connection.
Busy(t) ==
    /\ task[t].op = "begin" /\ writer # {}
    /\ Refuse(t, "busy")
    /\ UNCHANGED <<rows, sequence, writer, counter, local, calls, faults>>

\* The factory and save; an exception rolls the transaction back.
Create(t) == \E u \in task[t].url :
    /\ task[t].op = "inside"
    /\ counter' = CounterAfter(Home[t])
    /\ LET made == {Row(c, u, task[t].redirect) : c \in Generated(Home[t], u)}
       IN  IF \E row \in made : ~Conflicts(row)
           THEN /\ task' = [task EXCEPT ![t].op = "commit", ![t].row = made]
                /\ UNCHANGED <<writer, history>>
           ELSE Refuse(t, IF made = {} THEN "limit" ELSE "conflict") /\ writer' = {}
    /\ UNCHANGED <<rows, sequence, local, calls, faults>>

Commit(t) ==
    /\ task[t].op = "commit"
    /\ rows' = rows \cup task[t].row /\ sequence' = SequenceAfter(Home[t]) /\ writer' = {}
    /\ task' = [task EXCEPT ![t].op = "reply"]
    /\ UNCHANGED <<counter, local, history, calls, faults>>

Reply(t) ==
    /\ task[t].op = "reply"
    /\ \E row \in task[t].row : Answer(t, row)
    /\ UNCHANGED <<rows, sequence, writer, counter, local, calls, faults>>

\* A statement fails: ROLLBACK.
Rollback(t) ==
    /\ task[t].op \in {"inside", "commit"} /\ faults < MaxFaults
    /\ faults' = faults + 1
    /\ writer' = {} /\ Refuse(t, "failed")
    /\ UNCHANGED <<rows, sequence, counter, local, calls>>

-----------------------------------------------------------------------------
(* resolve. *)

Return(t, row) ==
    /\ clicks' = [clicks EXCEPT ![Home[t]] = Append(@, row.code)]
    /\ followed' = followed \cup {row}
    /\ task' = [task EXCEPT ![t] = Idle]
    /\ UNCHANGED <<answered, lost, refused>>

Cached(s, c) == {row \in ToSet(cache[s]) : row.code = c}
Touched(s, row) == Append(SelectSeq(cache[s], LAMBDA x : x.code # row.code), row)
Evicted(entries) == SubSeq(entries, Max({1, Len(entries) - CacheCapacity + 1}), Len(entries))

Resolve(t, c) ==
    /\ task[t] = Idle /\ calls < MaxCalls
    /\ calls' = calls + 1
    /\ \/ \E row \in Cached(Home[t], c) :
            /\ cache' = [cache EXCEPT ![Home[t]] = Touched(Home[t], row)]
            /\ Return(t, row)
       \/ /\ Cached(Home[t], c) = {}
          /\ task' = [task EXCEPT ![t] = [Idle EXCEPT !.op = "lookup", !.code = c,
                                            !.known = \E a \in answered : a.code = c]]
          /\ UNCHANGED <<local, history>>
    /\ UNCHANGED <<rows, sequence, writer, counter, faults>>

Lookup(t) ==
    /\ task[t].op = "lookup"
    /\ LET found == ByCode(task[t].code)
       IN  \/ /\ found = {}
              /\ lost' = lost \cup (IF task[t].known THEN {task[t].code} ELSE {})
              /\ task' = [task EXCEPT ![t] = Idle]
              /\ UNCHANGED <<local, answered, followed, refused>>
           \/ /\ found # {} /\ CacheCapacity = 0
              /\ \E row \in found : Return(t, row)
              /\ UNCHANGED cache
           \/ /\ found # {} /\ CacheCapacity > 0
              /\ task' = [task EXCEPT ![t].op = "fill", ![t].row = found]
              /\ UNCHANGED <<local, history>>
    /\ UNCHANGED <<rows, sequence, writer, counter, calls, faults>>

Fill(t) == \E row \in task[t].row :
    /\ task[t].op = "fill"
    /\ cache' = [cache EXCEPT ![Home[t]] = Evicted(Touched(Home[t], row))]
    /\ Return(t, row)
    /\ UNCHANGED <<rows, sequence, writer, counter, calls, faults>>

-----------------------------------------------------------------------------

\* A process dies: its transaction is rolled back, its memory is gone.
Crash(s) ==
    /\ Sqlite /\ faults < MaxFaults
    /\ faults' = faults + 1
    /\ writer' = {t \in writer : Home[t] # s}
    /\ task' = [t \in Threads |-> IF Home[t] = s THEN Idle ELSE task[t]]
    /\ counter' = [counter EXCEPT ![s] = 1]
    /\ cache' = [cache EXCEPT ![s] = <<>>] /\ clicks' = [clicks EXCEPT ![s] = <<>>]
    /\ UNCHANGED <<rows, sequence, history, calls>>

Codes == {HashCode(CrcOf[u][1]) : u \in Urls} \cup {IdCode(1)}

Next ==
    \/ \E t \in Threads :
         \/ \E u \in Urls, r \in Redirects : ShortenInMemory(t, u, r) \/ Shorten(t, u, r)
         \/ Begin(t) \/ Busy(t) \/ Create(t) \/ Commit(t) \/ Reply(t) \/ Rollback(t)
         \/ \E c \in Codes \cup {row.code : row \in rows} : Resolve(t, c)
         \/ Lookup(t) \/ Fill(t)
    \/ \E s \in Shorteners : Crash(s)

Spec == Init /\ [][Next]_vars

-----------------------------------------------------------------------------

TypeOK ==
    /\ \A row \in rows : row.url \in Urls /\ row.redirect \in Redirects /\ Len(row.code) >= Length
    /\ sequence \in Nat /\ Cardinality(writer) <= 1
    /\ \A s \in Shorteners : Len(cache[s]) <= CacheCapacity /\ counter[s] > 0

\* Callers of all instances got one code for a URL and one URL for a code, through
\* collisions, retries, rollbacks and crashes, and what they got is stored
\* (get_or_create, save).
OneCodePerUrl ==
    /\ \A a, b \in answered : a.url = b.url <=> a.code = b.code
    /\ \A a \in answered : \E row \in rows : row.url = a.url /\ row.code = a.code
    /\ \A row, other \in rows : row # other => row.code # other.code /\ row.url # other.url

\* A code that was handed out is found by every later call, and every cache and
\* every call gives the stored mapping (resolve).
LinksFollow ==
    /\ lost = {}
    /\ followed \subseteq rows
    /\ \A s \in Shorteners : ToSet(cache[s]) \subseteq rows

\* Instances that take their ids from the database never meet a conflict, and a hash
\* code is refused only when other URLs hold every code it tries (next_id, generate).
NoFalseRefusal == \A f \in refused :
    /\ f[2] = "conflict" => Strategy[f[1]] = "counter"
    /\ f[2] = "limit" => \E u \in Urls : Usable(u) = {}

\* Codes of ids decode to the id, so that no two ids share one, whatever their
\* length (encode_base62, Base62Strategy.generate).
CodesDecode == \A n \in 0..(Base^Length + 1) : Decode(IdCode(n)) = n

ShortLinksSound == TypeOK /\ OneCodePerUrl /\ LinksFollow /\ NoFalseRefusal /\ CodesDecode
=============================================================================
