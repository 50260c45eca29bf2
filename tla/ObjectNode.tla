----------------------------- MODULE ObjectNode -----------------------------
(***************************************************************************)
(* One data node of object-storage-system (node.py).  Small chunks are     *)
(* records of an append-only pack file, large ones are files; the index is *)
(* rebuilt from both when the node starts.  The node lock serializes the   *)
(* operations, so what can go wrong is a failure or a crash between two    *)
(* steps of one of them.                                                   *)
(***************************************************************************)
EXTENDS Integers, FiniteSets, Sequences, SequencesExt

CONSTANTS
    Hashes,     \* the chunks it may be asked for, named by their content
    Small,      \* those of at most 64 KiB: they go to the pack
    Packs,      \* names of pack files: numbers, an opaque uuid is the least unused one
    MaxRecords, \* bound: records of one pack
    MaxFaults   \* bound: crashes, failed calls and damaged records

\* What the constants may be.
NodeAssumption == IsFiniteSet(Hashes) /\ Small \subseteq Hashes /\ Packs \subseteq Nat /\ 1 \in Packs

VARIABLES
    packs,          \* pack name -> sequence of records; absent files are not in the domain
    current,        \* the CURRENT file
    large,          \* large/*.dat files whose content matches their name
    pack,           \* self.pack
    index,          \* table chunks: hash -> 0, or the position of its record (1 for a file)
    needsRecovery,  \* self._needs_recovery
    op,             \* the operation holding the node lock
    up,
    acked,          \* PUTs answered and not collected or damaged since
    faults

nodeVars == <<packs, current, large, pack, index, needsRecovery, op, up, acked, faults>>
disk == <<packs, current, large>>

NoOp == [kind |-> "idle"]
Rec(kind, h) == [kind |-> kind, hash |-> h]

-----------------------------------------------------------------------------
(* _recover: an incomplete record ends the pack; of the others the last    *)
(* one of a hash decides.  A put record whose checksum fails is "bad".     *)

Complete(records) ==
    LET torn == {i \in 1..Len(records) : records[i].kind = "torn"} IN
    IF torn = {} THEN records
    ELSE SubSeq(records, 1, (CHOOSE i \in torn : \A j \in torn : i <= j) - 1)

LastOf(records, h) == {i \in 1..Len(records) :
    records[i].hash = h /\ \A j \in (i + 1)..Len(records) : records[j].hash # h}

\* A delete record is ignored while rebuilding.
Rebuild_NoTombstones(records, files) ==
    [h \in Hashes |->
        IF h \in Small
        THEN IF \E i \in 1..Len(records) : records[i] = Rec("put", h)
             THEN CHOOSE i \in 1..Len(records) : records[i] = Rec("put", h) ELSE 0
        ELSE IF h \in files THEN 1 ELSE 0]

Rebuild(records, files) ==
    [h \in Hashes |->
        IF h \in Small
        THEN IF \E i \in LastOf(records, h) : records[i].kind = "put"
             THEN CHOOSE i \in LastOf(records, h) : TRUE ELSE 0
        ELSE IF h \in files THEN 1 ELSE 0]

\* get(): the indexed bytes exist and hash to their name.
Served(h) ==
    /\ index[h] # 0
    /\ IF h \in Small
       THEN index[h] <= Len(packs[pack]) /\ packs[pack][index[h]] = Rec("put", h)
       ELSE h \in large

\* What the files hold for the next start.
OnDisk == {h \in Hashes : Rebuild(Complete(packs[current]), large)[h] # 0}

NodeInit ==
    /\ packs = [q \in {1} |-> <<>>] /\ current = 1 /\ pack = 1
    /\ large = {}
    /\ index = [h \in Hashes |-> 0]
    /\ needsRecovery = FALSE
    /\ op = NoOp
    /\ up = TRUE
    /\ acked = {}
    /\ faults = 0

Free == up /\ ~needsRecovery /\ op = NoOp
At(kind, step) == up /\ op.kind = kind /\ op.step = step
Faulty == faults < MaxFaults /\ faults' = faults + 1
Room == Len(packs[pack]) < MaxRecords
AppendRecord(r) == packs' = [packs EXCEPT ![pack] = Append(@, r)]

-----------------------------------------------------------------------------
(* PUT *)

\* The answer leaves before the record is written.
Put_AnswersFirst(h) ==
    /\ Free
    /\ acked' = acked \cup {h}
    /\ op' = IF Served(h) THEN NoOp ELSE [kind |-> "put", step |-> "write", hash |-> h]
    /\ UNCHANGED <<disk, pack, index, needsRecovery, up, faults>>

Put(h) ==
    /\ Free
    /\ IF Served(h)
       THEN acked' = acked \cup {h} /\ UNCHANGED op
       ELSE op' = [kind |-> "put", step |-> "write", hash |-> h] /\ UNCHANGED acked
    /\ UNCHANGED <<disk, pack, index, needsRecovery, up, faults>>

PutWrites ==
    /\ At("put", "write")
    /\ IF op.hash \in Small
       THEN Room /\ AppendRecord(Rec("put", op.hash)) /\ UNCHANGED large
       ELSE large' = large \cup {op.hash} /\ UNCHANGED packs
    /\ op' = [op EXCEPT !.step = "index"]
    /\ UNCHANGED <<current, pack, index, needsRecovery, up, acked, faults>>

PutIndexes ==
    /\ At("put", "index")
    /\ index' = [index EXCEPT ![op.hash] = IF op.hash \in Small THEN Len(packs[pack]) ELSE 1]
    /\ acked' = acked \cup {op.hash}
    /\ op' = NoOp
    /\ UNCHANGED <<disk, pack, needsRecovery, up, faults>>

-----------------------------------------------------------------------------
(* POST /collect: for each old unreferenced chunk the tombstone (or the    *)
(* unlink), then the index row.                                            *)

Collect(S) ==
    /\ Free
    /\ S \subseteq {h \in Hashes : index[h] # 0} /\ S # {}
    /\ op' = [kind |-> "collect", step |-> "write", todo |-> S]
    /\ UNCHANGED <<disk, pack, index, needsRecovery, up, acked, faults>>

\* The index row is deleted without a tombstone.
CollectWrites_Nothing(h) ==
    /\ At("collect", "write") /\ h \in op.todo
    /\ acked' = acked \ {h}
    /\ op' = [kind |-> "collect", step |-> "index", todo |-> op.todo \ {h}, hash |-> h]
    /\ UNCHANGED <<disk, pack, index, needsRecovery, up, faults>>

CollectWrites(h) ==
    /\ At("collect", "write") /\ h \in op.todo
    /\ IF h \in Small
       THEN Room /\ AppendRecord(Rec("del", h)) /\ UNCHANGED large
       ELSE large' = large \ {h} /\ UNCHANGED packs
    /\ acked' = acked \ {h}
    /\ op' = [kind |-> "collect", step |-> "index", todo |-> op.todo \ {h}, hash |-> h]
    /\ UNCHANGED <<current, pack, index, needsRecovery, up, faults>>

CollectUnindexes ==
    /\ At("collect", "index")
    /\ index' = [index EXCEPT ![op.hash] = 0]
    /\ op' = IF op.todo = {} THEN NoOp
             ELSE [kind |-> "collect", step |-> "write", todo |-> op.todo]
    /\ UNCHANGED <<disk, pack, needsRecovery, up, acked, faults>>

-----------------------------------------------------------------------------
(* Failures inside PUT and collect. *)

\* _append raises and its truncation succeeds; a large file is not replaced.
WriteFails ==
    /\ Faulty
    /\ up /\ op.kind \in {"put", "collect"} /\ op.step = "write"
    /\ op' = NoOp
    /\ UNCHANGED <<disk, pack, index, needsRecovery, up, acked>>

\* The node keeps serving after a failed truncation.
TruncateFails_Unnoticed ==
    /\ Faulty
    /\ up /\ op.kind \in {"put", "collect"} /\ op.step = "write"
    /\ Room
    /\ \E h \in Small : /\ IF op.kind = "put" THEN h = op.hash ELSE h \in op.todo
                        /\ AppendRecord(Rec("torn", h))
    /\ op' = NoOp
    /\ UNCHANGED <<current, large, pack, index, needsRecovery, up, acked>>

\* _append raises and the truncation raises too.
TruncateFails ==
    /\ Faulty
    /\ up /\ op.kind \in {"put", "collect"} /\ op.step = "write"
    /\ Room
    /\ \E h \in Small : /\ IF op.kind = "put" THEN h = op.hash ELSE h \in op.todo
                        /\ AppendRecord(Rec("torn", h))
    /\ needsRecovery' = TRUE
    /\ op' = NoOp
    /\ UNCHANGED <<current, large, pack, index, up, acked>>

IndexFails_Unnoticed ==
    /\ Faulty
    /\ up /\ op.kind \in {"put", "collect"} /\ op.step = "index"
    /\ op' = NoOp
    /\ UNCHANGED <<disk, pack, index, needsRecovery, up, acked>>

IndexFails ==
    /\ Faulty
    /\ up /\ op.kind \in {"put", "collect"} /\ op.step = "index"
    /\ needsRecovery' = TRUE
    /\ op' = NoOp
    /\ UNCHANGED <<disk, pack, index, up, acked>>

-----------------------------------------------------------------------------
(* POST /compact: copy the indexed records to a new pack, switch CURRENT,  *)
(* recover from it, delete every other pack.                               *)

FreshName == LET unused == Packs \ DOMAIN packs IN {p \in unused : \A q \in unused : p <= q}
Indexed == {h \in Small : index[h] # 0}

\* Copies what an older reading of the index listed: one chunk is missed.
Compact_MissesOne ==
    /\ Free
    /\ \E p \in FreshName : \E missed \in Indexed :
         /\ packs' = [q \in DOMAIN packs \cup {p} |->
                        IF q = p THEN SetToSeq({Rec("put", h) : h \in Indexed \ {missed}}) ELSE packs[q]]
         /\ op' = [kind |-> "compact", step |-> "switch", new |-> p]
    /\ needsRecovery' = TRUE
    /\ UNCHANGED <<current, large, pack, index, up, acked, faults>>

\* A chunk that fails its hash check makes get(), and so compact(), raise.
Compact ==
    /\ Free
    /\ \A h \in Indexed : Served(h)
    /\ \E p \in FreshName :
         /\ packs' = [q \in DOMAIN packs \cup {p} |->
                        IF q = p THEN SetToSeq({Rec("put", h) : h \in Indexed}) ELSE packs[q]]
         /\ op' = [kind |-> "compact", step |-> "switch", new |-> p]
    /\ needsRecovery' = TRUE
    /\ UNCHANGED <<current, large, pack, index, up, acked, faults>>

CompactSwitches ==
    /\ At("compact", "switch")
    /\ current' = op.new
    /\ pack' = op.new
    /\ op' = [op EXCEPT !.step = "recover"]
    /\ UNCHANGED <<packs, large, index, needsRecovery, up, acked, faults>>

\* The handler trusts the old generation whatever CURRENT says.
CompactSwitchRaises_TrustsOld ==
    /\ Faulty
    /\ At("compact", "switch")
    /\ needsRecovery' = FALSE
    /\ \/ UNCHANGED current
       \/ current' = op.new
    /\ op' = NoOp
    /\ UNCHANGED <<packs, large, pack, index, up, acked>>

\* switch() raises before or after os.replace.
CompactSwitchRaises ==
    /\ Faulty
    /\ At("compact", "switch")
    /\ \/ needsRecovery' = FALSE /\ UNCHANGED <<current, pack>>
       \/ current' = op.new /\ pack' = op.new /\ UNCHANGED needsRecovery
    /\ op' = NoOp
    /\ UNCHANGED <<packs, large, index, up, acked>>

CompactRecovers ==
    /\ At("compact", "recover")
    /\ packs' = [packs EXCEPT ![pack] = Complete(@)]
    /\ index' = Rebuild(Complete(packs[pack]), large)
    /\ needsRecovery' = FALSE
    /\ op' = [op EXCEPT !.step = "unlink"]
    /\ UNCHANGED <<current, large, pack, up, acked, faults>>

\* Unlinks the new pack and keeps the old one.
CompactUnlinks_KeepsOld ==
    /\ At("compact", "unlink")
    /\ packs' = [q \in DOMAIN packs \ {op.new} |-> packs[q]]
    /\ op' = NoOp
    /\ UNCHANGED <<current, large, pack, index, needsRecovery, up, acked, faults>>

CompactUnlinks ==
    /\ At("compact", "unlink")
    /\ packs' = [q \in {op.new} |-> packs[q]]
    /\ op' = NoOp
    /\ UNCHANGED <<current, large, pack, index, needsRecovery, up, acked, faults>>

-----------------------------------------------------------------------------
(* Crashes, restarts, damage. *)

\* A crash inside the write leaves nothing, part of the record or all of it.
NodeCrash ==
    /\ Faulty
    /\ up
    /\ up' = FALSE
    /\ op' = NoOp
    /\ \/ UNCHANGED packs
       \/ /\ op.kind = "put" /\ op.step = "write" /\ op.hash \in Small /\ Room
          /\ \E kind \in {"put", "torn"} : AppendRecord(Rec(kind, op.hash))
    /\ UNCHANGED <<current, large, pack, index, needsRecovery, acked>>

Start ==
    /\ ~up
    /\ up' = TRUE
    /\ pack' = current
    /\ packs' = [packs EXCEPT ![current] = Complete(@)]
    /\ index' = Rebuild(Complete(packs[current]), large)
    /\ needsRecovery' = FALSE
    /\ UNCHANGED <<current, large, op, acked, faults>>

\* One stored copy stops matching its hash.
NodeDamage(h) ==
    /\ Faulty /\ up /\ op = NoOp
    /\ h \in OnDisk
    /\ IF h \in Small
       THEN /\ \E i \in LastOf(Complete(packs[current]), h) :
                 packs' = [packs EXCEPT ![current][i].kind = "bad"]
            /\ UNCHANGED large
       ELSE large' = large \ {h} /\ UNCHANGED packs
    /\ acked' = acked \ {h}
    /\ UNCHANGED <<current, pack, index, needsRecovery, op, up>>

NodeNext ==
    \/ \E h \in Hashes : Put(h) \/ CollectWrites(h) \/ NodeDamage(h)
    \/ PutWrites \/ PutIndexes
    \/ \E S \in SUBSET Hashes : Collect(S)
    \/ CollectUnindexes
    \/ WriteFails \/ TruncateFails \/ IndexFails
    \/ Compact \/ CompactSwitches \/ CompactSwitchRaises \/ CompactRecovers \/ CompactUnlinks
    \/ NodeCrash \/ Start

NodeSpec == NodeInit /\ [][NodeNext]_nodeVars

-----------------------------------------------------------------------------
NodeTypeOK ==
    /\ DOMAIN packs \subseteq Packs /\ current \in DOMAIN packs /\ pack \in DOMAIN packs
    /\ \A p \in DOMAIN packs :
         packs[p] \in Seq([kind : {"put", "del", "bad", "torn"}, hash : Small])
    /\ large \subseteq Hashes \ Small
    /\ index \in [Hashes -> Nat]
    /\ needsRecovery \in BOOLEAN /\ up \in BOOLEAN
    /\ op.kind \in {"idle", "put", "collect", "compact"}
    /\ acked \subseteq Hashes

(* A node that answers serves exactly what a restart would rebuild from    *)
(* its files: no failed append, failed index write, interrupted compaction *)
(* or damage makes the two differ unnoticed (node.py _append, put,         *)
(* collect, compact, _recover).                                            *)
ServesWhatItKeeps == Free => {h \in Hashes : Served(h)} = OnDisk

(* The node implements ChunkStore: an acknowledged chunk stays durable     *)
(* until it is collected or damaged, and a collected one never returns,    *)
(* across compactions, failures and restarts.                              *)
Promise == INSTANCE ChunkStore WITH Chunks <- Hashes, durable <- OnDisk
ImplementsChunkStore == Promise!Spec

(* A chunk whose PUT was answered is on disk, whether the node runs or     *)
(* not, until it is collected or damaged (node.py put).                    *)
AckedDurable == acked \subseteq OnDisk

(* A node serves exactly what a restart would rebuild, what it has         *)
(* answered is on disk, and it implements ChunkStore, through failed and   *)
(* torn writes (node.py).                                                  *)
NodeRefines == [](NodeTypeOK /\ ServesWhatItKeeps /\ AckedDurable) /\ ImplementsChunkStore
=============================================================================
