---------------------------- MODULE ObjectProofs ----------------------------
(***************************************************************************)
(* Proofs about the object store.  First part: a data node implements      *)
(* ChunkStore and serves what it keeps; the invariant compares the index   *)
(* with the last record of every chunk.  Second part: the coordinator, the *)
(* catalog and the metadata shard.  PublicationIInv relates intents,       *)
(* versions, uploads and requests; NeededIsSafe says that whatever is      *)
(* needed is on a quorum of nodes where no collection that is under way,   *)
(* or late, can remove it.                                                 *)
(***************************************************************************)
EXTENDS ObjectNode, ObjectStorage, SumTheorems, SequenceTheorems

Record == [kind : {"put", "del", "bad", "torn"}, hash : Small]

\* The record that decides about chunk h is a put.
Keeps(records, h) == \E i \in LastOf(records, h) : records[i].kind = "put"
NoTorn(records) == \A i \in 1..Len(records) : records[i].kind # "torn"

\* The chunks that a start would find in a pack and among the files.
Kept(records, files) == {h \in Hashes : IF h \in Small THEN Keeps(records, h) ELSE h \in files}

OpOK ==
  \/ op = NoOp
  \/ op \in [kind : {"put"}, step : {"write", "index"}, hash : Hashes]
  \/ op \in [kind : {"collect"}, step : {"write"}, todo : SUBSET Hashes]
  \/ op \in [kind : {"collect"}, step : {"index"}, todo : SUBSET Hashes, hash : Hashes]
  \/ op \in [kind : {"compact"}, step : {"switch", "recover", "unlink"}, new : Packs]

Types ==
  /\ DOMAIN packs \subseteq Packs /\ current \in DOMAIN packs
  /\ packs \in [DOMAIN packs -> Seq(Record)]
  /\ large \subseteq Hashes \ Small
  /\ index \in [Hashes -> Nat]
  /\ needsRecovery \in BOOLEAN /\ up \in BOOLEAN
  /\ acked \subseteq Hashes
  /\ OpOK

\* What the index says about chunk h, when no operation is about to change it.
IndexOK(h) ==
  IF h \in Small
  THEN IF index[h] = 0 THEN ~Keeps(packs[current], h)
       ELSE /\ index[h] \in LastOf(packs[current], h)
            /\ packs[current][index[h]].kind \in {"put", "bad"}
  ELSE index[h] = 0 => h \notin large

\* The pack of a node that works ends with a complete record.
CleanPack == up /\ (~needsRecovery \/ op.kind = "compact") => NoTorn(packs[current])

Trusted == up /\ (~needsRecovery \/ (op.kind = "compact" /\ op.step = "switch"))
Touched(h) == op.kind \in {"put", "collect"} /\ op.step = "index" /\ h = op.hash
IndexFollows == Trusted => \A h \in Hashes : Touched(h) \/ IndexOK(h)

OpFollows ==
  /\ op.kind # "idle" => up
  /\ op.kind \in {"put", "collect"} => ~needsRecovery
  /\ op.kind = "put" /\ op.step = "index" =>
       IF op.hash \in Small
       THEN Len(packs[current]) > 0 /\ packs[current][Len(packs[current])] = Rec("put", op.hash)
       ELSE op.hash \in large
  /\ op.kind = "collect" /\ op.step = "index" => op.hash \notin Kept(packs[current], large)
  /\ op.kind = "compact" => op.new \in DOMAIN packs
  /\ op.kind = "compact" /\ op.step = "switch" =>
       /\ needsRecovery
       /\ op.new # current /\ NoTorn(packs[op.new])
       /\ Kept(packs[op.new], large) = Kept(packs[current], large)
  /\ op.kind = "compact" /\ op.step # "switch" => op.new = current
  /\ op.kind = "compact" /\ op.step = "unlink" => ~needsRecovery

NodeIInv == Types /\ pack = current /\ CleanPack /\ IndexFollows /\ OpFollows

-----------------------------------------------------------------------------

(***************************************************************************)
(* Packs of records.                                                       *)
(***************************************************************************)

\* The last record of a chunk is the only one.
LEMMA LastUnique ==
  ASSUME NEW r \in Seq(Record), NEW h, NEW i \in LastOf(r, h), NEW j \in LastOf(r, h)
  PROVE  i = j /\ i \in 1..Len(r) /\ r[i].hash = h
<1>1. /\ i \in 1..Len(r) /\ r[i].hash = h /\ \A k \in (i + 1)..Len(r) : r[k].hash # h
      /\ j \in 1..Len(r) /\ r[j].hash = h /\ \A k \in (j + 1)..Len(r) : r[k].hash # h
  BY DEF LastOf
<1>2. ~(i < j) /\ ~(j < i)
  BY <1>1
<1> QED
  BY <1>1, <1>2

\* An appended record is the last one of its chunk.
LEMMA LastOfAppend ==
  ASSUME NEW r \in Seq(Record), NEW x \in Record, NEW h
  PROVE  /\ h = x.hash => LastOf(Append(r, x), h) = {Len(r) + 1}
         /\ h # x.hash => LastOf(Append(r, x), h) = LastOf(r, h)
<1> DEFINE s == Append(r, x)
<1>1. /\ Len(s) = Len(r) + 1 /\ Len(r) \in Nat /\ s[Len(r) + 1] = x
      /\ \A i \in 1..Len(r) : s[i] = r[i]
  OBVIOUS
<1> HIDE DEF s
<1>2. CASE h = x.hash
  <2>1. Len(r) + 1 \in LastOf(s, h)
    BY <1>1, <1>2 DEF LastOf
  <2>2. ASSUME NEW i \in LastOf(s, h) PROVE i = Len(r) + 1
    <3>1. i \in 1..(Len(r) + 1) /\ \A k \in (i + 1)..(Len(r) + 1) : s[k].hash # h
      BY <1>1 DEF LastOf
    <3>2. ~(i < Len(r) + 1)
      BY <1>1, <1>2, <3>1
    <3> QED
      BY <1>1, <3>1, <3>2
  <2> QED
    BY <1>2, <2>1, <2>2 DEF s
<1>3. CASE h # x.hash
  <2>1. ASSUME NEW i \in LastOf(s, h) PROVE i \in LastOf(r, h)
    BY <1>1, <1>3 DEF LastOf
  <2>2. ASSUME NEW i \in LastOf(r, h) PROVE i \in LastOf(s, h)
    BY <1>1, <1>3 DEF LastOf
  <2> QED
    BY <1>3, <2>1, <2>2 DEF s
<1> QED
  BY <1>2, <1>3

\* A pack without an incomplete record is complete.
LEMMA CompleteClean ==
  ASSUME NEW r \in Seq(Record), NoTorn(r)
  PROVE  Complete(r) = r
BY DEF Complete, NoTorn

\* Recovery cuts the incomplete record off.
LEMMA CompleteTorn ==
  ASSUME NEW r \in Seq(Record), NoTorn(r), NEW x \in Record, x.kind = "torn"
  PROVE  Complete(Append(r, x)) = r
<1> DEFINE s == Append(r, x)
           torn == {i \in 1..Len(s) : s[i].kind = "torn"}
           first == CHOOSE i \in torn : \A j \in torn : i <= j
<1>1. /\ s \in Seq(Record) /\ Len(s) = Len(r) + 1 /\ Len(r) \in Nat /\ s[Len(r) + 1] = x
      /\ \A i \in 1..Len(r) : s[i] = r[i]
  OBVIOUS
<1>2. torn = {Len(r) + 1}
  BY <1>1 DEF NoTorn
<1>3. Complete(s) = SubSeq(s, 1, first - 1)
  BY <1>2 DEF Complete
<1> HIDE DEF torn, s
<1>4. first = Len(r) + 1
  BY <1>1, <1>2
<1> HIDE DEF first
<1>5. Complete(s) = SubSeq(s, 1, Len(r))
  BY <1>1, <1>3, <1>4
<1>6. SubSeq(s, 1, Len(r)) = r
  <2>1. /\ SubSeq(s, 1, Len(r)) \in Seq(Record) /\ Len(SubSeq(s, 1, Len(r))) = Len(r)
        /\ \A i \in 1..Len(r) : SubSeq(s, 1, Len(r))[i] = s[i]
    BY <1>1
  <2> QED
    BY <1>1, <2>1, SeqEqual
<1> QED
  BY <1>5, <1>6 DEF s

\* What recovery leaves is complete.
LEMMA CompleteNoTorn ==
  ASSUME NEW r \in Seq(Record)
  PROVE  /\ Complete(r) \in Seq(Record) /\ NoTorn(Complete(r))
         /\ Len(Complete(r)) <= Len(r) /\ \A i \in 1..Len(Complete(r)) : Complete(r)[i] = r[i]
<1> DEFINE torn == {i \in 1..Len(r) : r[i].kind = "torn"}
<1>1. CASE torn = {}
  BY <1>1 DEF Complete, NoTorn
<1>2. CASE torn # {}
  <2> DEFINE m == CHOOSE i \in torn : \A j \in torn : i <= j
  <2>1. \E i \in torn : \A j \in torn : i <= j
    <3>1. torn \subseteq Nat /\ torn # {}
      BY <1>2
    <3> HIDE DEF torn
    <3> QED
      BY <3>1, MinNat
  <2>2. m \in torn /\ \A j \in torn : m <= j
    BY <2>1
  <2>3. Complete(r) = SubSeq(r, 1, m - 1)
    BY <1>2 DEF Complete
  <2> HIDE DEF m
  <2>4. m \in 1..Len(r) /\ \A j \in 1..Len(r) : r[j].kind = "torn" => m <= j
    BY <2>2
  <2>5. /\ SubSeq(r, 1, m - 1) \in Seq(Record) /\ Len(SubSeq(r, 1, m - 1)) = m - 1
        /\ \A i \in 1..(m - 1) : SubSeq(r, 1, m - 1)[i] = r[i]
    BY <2>4
  <2>6. NoTorn(SubSeq(r, 1, m - 1))
    BY <2>4, <2>5 DEF NoTorn
  <2> QED
    BY <2>3, <2>4, <2>5, <2>6
<1> QED
  BY <1>1, <1>2

\* What the index of a rebuilt node lists.
LEMMA Rebuilt ==
  ASSUME NodeAssumption, NEW r \in Seq(Record), NEW files, NEW h \in Hashes
  PROVE  /\ Rebuild(r, files) \in [Hashes -> Nat]
         /\ Rebuild(r, files)[h] # 0 <=> h \in Kept(r, files)
         /\ h \in Small /\ Keeps(r, h) => Rebuild(r, files)[h] \in LastOf(r, h)
<1>1. ASSUME NEW g \in Hashes, g \in Small, Keeps(r, g)
      PROVE  /\ (CHOOSE i \in LastOf(r, g) : TRUE) \in LastOf(r, g)
             /\ (CHOOSE i \in LastOf(r, g) : TRUE) \in Nat \ {0}
  BY <1>1 DEF Keeps, LastOf
<1>2. ASSUME NEW g \in Hashes
      PROVE  Rebuild(r, files)[g] =
               IF g \in Small THEN IF Keeps(r, g) THEN CHOOSE i \in LastOf(r, g) : TRUE ELSE 0
               ELSE IF g \in files THEN 1 ELSE 0
  BY DEF Rebuild, Keeps
<1>3. ASSUME NEW g \in Hashes PROVE Rebuild(r, files)[g] \in Nat
  <2>1. CASE g \in Small /\ Keeps(r, g)
    BY <1>1, <1>2, <2>1
  <2>2. CASE ~(g \in Small /\ Keeps(r, g))
    BY <1>2, <2>2
  <2> QED
    BY <2>1, <2>2
<1>4. Rebuild(r, files) \in [Hashes -> Nat]
  BY <1>3 DEF Rebuild
<1> QED
  BY <1>1, <1>2, <1>4 DEF Kept

\* A put is kept, a tombstone removes, other chunks are not touched.
LEMMA KeptAppend ==
  ASSUME NodeAssumption, NEW r \in Seq(Record), NEW x \in Record, NEW files
  PROVE  /\ x.kind = "put" => Kept(Append(r, x), files) = Kept(r, files) \cup {x.hash}
         /\ x.kind = "del" => Kept(Append(r, x), files) = Kept(r, files) \ {x.hash}
         /\ \A h : h # x.hash => (Keeps(Append(r, x), h) <=> Keeps(r, h))
         /\ Keeps(Append(r, x), x.hash) <=> x.kind = "put"
<1>1. Len(r) \in Nat /\ Append(r, x)[Len(r) + 1] = x /\ x.hash \in Small /\ x.hash \in Hashes
  BY DEF Record, NodeAssumption
<1>2. \A i \in 1..Len(r) : Append(r, x)[i] = r[i]
  OBVIOUS
<1>3. Keeps(Append(r, x), x.hash) <=> x.kind = "put"
  <2>1. LastOf(Append(r, x), x.hash) = {Len(r) + 1}
    BY LastOfAppend
  <2> QED
    BY <1>1, <2>1, Zenon DEF Keeps
<1>4. ASSUME NEW h, h # x.hash PROVE Keeps(Append(r, x), h) <=> Keeps(r, h)
  <2>1. LastOf(Append(r, x), h) = LastOf(r, h)
    BY <1>4, LastOfAppend
  <2>2. LastOf(r, h) \subseteq 1..Len(r)
    BY DEF LastOf
  <2> QED
    BY <1>2, <2>1, <2>2 DEF Keeps
<1> QED
  BY <1>1, <1>3, <1>4 DEF Kept

\* Pack s is pack r after the record i of chunk h stopped matching its hash.
DamagedAt(r, i, h, files, s) ==
  /\ s \in Seq(Record) /\ Len(s) = Len(r) /\ \A g : LastOf(s, g) = LastOf(r, g)
  /\ \A j \in 1..Len(r) : s[j] = IF j = i THEN Rec("bad", h) ELSE r[j]
  /\ NoTorn(r) => NoTorn(s)
  /\ Kept(Complete(s), files) = Kept(Complete(r), files) \ {h}

\* A record whose checksum fails takes its chunk from the pack, and nothing else.
LEMMA KeptDamaged ==
  ASSUME NodeAssumption, NEW r \in Seq(Record), NEW h \in Small, NEW i \in LastOf(Complete(r), h), NEW files
  PROVE  DamagedAt(r, i, h, files, [r EXCEPT ![i] = [r[i] EXCEPT !.kind = "bad"]])
<1> DEFINE t == [r EXCEPT ![i] = [@ EXCEPT !.kind = "bad"]]
           c == Complete(r)
           d == [c EXCEPT ![i] = [@ EXCEPT !.kind = "bad"]]
<1>1. /\ c \in Seq(Record) /\ NoTorn(c) /\ Len(c) <= Len(r) /\ Len(c) \in Nat /\ Len(r) \in Nat
      /\ \A j \in 1..Len(c) : c[j] = r[j]
  BY CompleteNoTorn
<1> HIDE DEF c
<1>2. i \in 1..Len(c) /\ c[i].hash = h /\ i \in 1..Len(r) /\ r[i] = c[i] /\ r[i] \in Record /\ c[i] \in Record
  BY <1>1 DEF LastOf, c
<1>3. [r[i] EXCEPT !.kind = "bad"] = Rec("bad", h) /\ [c[i] EXCEPT !.kind = "bad"] = Rec("bad", h)
      /\ Rec("bad", h) \in Record
  BY <1>2 DEF Record, Rec
<1>4. /\ t \in Seq(Record) /\ Len(t) = Len(r)
      /\ \A j \in 1..Len(r) : t[j] = IF j = i THEN Rec("bad", h) ELSE r[j]
  <2>1. t = [r EXCEPT ![i] = Rec("bad", h)]
    BY <1>3
  <2> QED
    BY <1>2, <1>3, <2>1, ExceptSeq
<1>5. /\ d \in Seq(Record) /\ Len(d) = Len(c)
      /\ \A j \in 1..Len(c) : d[j] = IF j = i THEN Rec("bad", h) ELSE c[j]
  <2>1. d = [c EXCEPT ![i] = Rec("bad", h)]
    BY <1>3
  <2> HIDE DEF d
  <2>2. c \in Seq(Record) /\ i \in 1..Len(c) /\ Rec("bad", h) \in Record
    BY <1>1, <1>2, <1>3
  <2>3. /\ [c EXCEPT ![i] = Rec("bad", h)] \in Seq(Record) /\ Len([c EXCEPT ![i] = Rec("bad", h)]) = Len(c)
        /\ \A j \in 1..Len(c) : [c EXCEPT ![i] = Rec("bad", h)][j] = IF j = i THEN Rec("bad", h) ELSE c[j]
    BY <2>2, ExceptSeq
  <2> QED
    BY <2>1, <2>3
<1> HIDE DEF t, d
<1>6. /\ \A j \in 1..Len(r) : t[j].hash = r[j].hash /\ (t[j].kind = "torn" <=> r[j].kind = "torn")
      /\ \A j \in 1..Len(c) : d[j].hash = c[j].hash
  <2>1. Rec("bad", h).hash = h /\ Rec("bad", h).kind = "bad" /\ r[i].hash = h /\ c[i].hash = h
    BY <1>2 DEF Rec
  <2>2. r[i].kind # "torn"
    BY <1>1, <1>2 DEF NoTorn
  <2>3. ASSUME NEW j \in 1..Len(r) PROVE t[j].hash = r[j].hash /\ (t[j].kind = "torn" <=> r[j].kind = "torn")
    BY <1>4, <2>1, <2>2
  <2>4. ASSUME NEW j \in 1..Len(c) PROVE d[j].hash = c[j].hash
    BY <1>5, <2>1
  <2> QED
    BY <2>3, <2>4
<1>7. \A g : LastOf(t, g) = LastOf(r, g) /\ LastOf(d, g) = LastOf(c, g)
  <2>1. ASSUME NEW g PROVE LastOf(t, g) = LastOf(r, g)
    <3>1. \A j \in 1..Len(r) : \A k \in (j + 1)..Len(r) : k \in 1..Len(r)
      BY <1>1
    <3> QED
      BY SMTT(60), <1>4, <1>6, <3>1 DEF LastOf
  <2>2. ASSUME NEW g PROVE LastOf(d, g) = LastOf(c, g)
    <3>1. \A j \in 1..Len(c) : \A k \in (j + 1)..Len(c) : k \in 1..Len(c)
      BY <1>1
    <3> QED
      BY SMTT(60), <1>5, <1>6, <3>1 DEF LastOf
  <2> QED
    BY <2>1, <2>2
<1>8. NoTorn(r) => NoTorn(t)
  BY <1>4, <1>6 DEF NoTorn
<1>9. Complete(t) = d
  <2> DEFINE torn == {j \in 1..Len(r) : r[j].kind = "torn"}
             first == CHOOSE j \in torn : \A k \in torn : j <= k
  <2>1. {j \in 1..Len(t) : t[j].kind = "torn"} = torn
    BY <1>4, <1>6
  <2>2. CASE torn = {}
    <3>1. Complete(t) = t /\ c = r
      BY <2>1, <2>2 DEF Complete, c
    <3> QED
      BY <3>1 DEF t, d
  <2>3. CASE torn # {}
    <3>1. Complete(t) = SubSeq(t, 1, first - 1) /\ c = SubSeq(r, 1, first - 1)
      BY <2>1, <2>3 DEF Complete, c
    <3>2. first \in 1..Len(r)
      <4>1. \E x \in torn : \A y \in torn : x <= y
        <5>1. torn \subseteq Nat /\ torn # {}
          BY <2>3
        <5> HIDE DEF torn
        <5> QED
          BY <5>1, MinNat
      <4>2. first \in torn
        BY <4>1
      <4> QED
        BY <4>2
    <3> HIDE DEF first, torn
    <3>3. Len(c) = first - 1
      BY <1>1, <3>1, <3>2
    <3>4. /\ Complete(t) \in Seq(Record) /\ Len(Complete(t)) = Len(c)
          /\ \A j \in 1..Len(c) : Complete(t)[j] = t[j]
      BY <1>1, <1>4, <3>1, <3>2, <3>3
    <3>5. ASSUME NEW j \in 1..Len(c) PROVE t[j] = d[j]
      BY <1>1, <1>4, <1>5
    <3> QED
      BY <1>5, <3>4, <3>5, SeqEqual
  <2> QED
    BY <2>2, <2>3
<1>10. Kept(d, files) = Kept(c, files) \ {h}
  <2>1. ~Keeps(d, h)
    <3>1. ASSUME NEW j \in LastOf(d, h) PROVE d[j].kind # "put"
      <4>1. j = i
        BY <1>1, <1>7, LastUnique DEF c
      <4> QED
        BY <1>2, <1>5, <4>1 DEF Rec
    <3> QED
      BY <3>1 DEF Keeps
  <2>2. ASSUME NEW g, g # h PROVE Keeps(d, g) <=> Keeps(c, g)
    <3>1. ASSUME NEW j \in LastOf(c, g) PROVE d[j] = c[j]
      <4>1. j \in 1..Len(c) /\ c[j].hash = g
        BY DEF LastOf
      <4>2. j # i
        BY <1>2, <2>2, <4>1
      <4> QED
        BY <1>5, <4>1, <4>2
    <3> QED
      BY <1>7, <3>1 DEF Keeps
  <2> QED
    BY <2>1, <2>2 DEF Kept, NodeAssumption
<1> QED
  BY <1>4, <1>7, <1>8, <1>9, <1>10 DEF t, c, DamagedAt

-----------------------------------------------------------------------------
(***************************************************************************)
(* The pack a compaction writes.                                           *)
(***************************************************************************)

\* SetToSeq lists every element of a finite set once.
LEMMA SetToSeqLists ==
  ASSUME NEW S, IsFiniteSet(S)
  PROVE  /\ SetToSeq(S) \in Seq(S)
         /\ \A x \in S : \E i \in 1..Len(SetToSeq(S)) : SetToSeq(S)[i] = x
         /\ \A i, j \in 1..Len(SetToSeq(S)) : SetToSeq(S)[i] = SetToSeq(S)[j] => i = j
<1> DEFINE n == Cardinality(S)
           f == SetToSeq(S)
<1>1. n \in Nat /\ ExistsBijection(1..n, S)
  BY FS_CardinalityType
<1>2. \E g \in [1..n -> S] : IsInjective(g)
  BY <1>1 DEF ExistsBijection, Bijection, Injection
<1>3. f \in [1..n -> S] /\ IsInjective(f)
  BY <1>2 DEF SetToSeq
<1> HIDE DEF f
<1>4. IsFiniteSet(1..n) /\ Cardinality(1..n) = n
  BY <1>1, FS_Interval
<1> HIDE DEF n
<1>5. f \in Injection(1..n, S)
  BY <1>3 DEF Injection
<1>6. f \in Surjection(1..n, S)
  BY <1>4, <1>5, FS_Injection DEF n
<1>7. f \in Seq(S) /\ Len(f) = n
  BY <1>1, <1>3
<1>8. \A x \in S : \E i \in 1..n : f[i] = x
  BY <1>6 DEF Surjection
<1>9. \A i, j \in 1..n : f[i] = f[j] => i = j
  BY <1>3 DEF IsInjective
<1> QED
  BY <1>7, <1>8, <1>9 DEF f

\* The new pack keeps exactly the chunks it was written for.
LEMMA CompactedPack ==
  ASSUME NodeAssumption, NEW S \in SUBSET Small
  PROVE  LET s == SetToSeq({Rec("put", h) : h \in S}) IN
         s \in Seq(Record) /\ NoTorn(s) /\ \A h \in Small : Keeps(s, h) <=> h \in S
<1> DEFINE R == {Rec("put", h) : h \in S}
           s == SetToSeq(R)
<1>1. IsFiniteSet(R)
  <2>1. IsFiniteSet(S)
    BY FS_Subset DEF NodeAssumption
  <2> DEFINE f == [h \in S |-> Rec("put", h)]
  <2>2. f \in Surjection(S, R)
    BY DEF Surjection
  <2> QED
    BY <2>1, <2>2, FS_Surjection
<1>2. R \subseteq Record /\ \A x \in R : x.kind = "put" /\ x.hash \in S /\ x = Rec("put", x.hash)
  BY DEF Record, Rec
<1>3. \A h \in S : Rec("put", h) \in R
  OBVIOUS
<1> HIDE DEF R
<1>4. /\ s \in Seq(R) /\ \A x \in R : \E i \in 1..Len(s) : s[i] = x
      /\ \A i, j \in 1..Len(s) : s[i] = s[j] => i = j
  BY <1>1, SetToSeqLists
<1> HIDE DEF s
<1>5. s \in Seq(Record) /\ Len(s) \in Nat /\ \A i \in 1..Len(s) : s[i] \in R
  BY <1>2, <1>4
<1>6. NoTorn(s)
  BY <1>2, <1>5 DEF NoTorn
<1>7. ASSUME NEW h \in S PROVE Keeps(s, h)
  <2>1. PICK i \in 1..Len(s) : s[i] = Rec("put", h)
    BY <1>3, <1>4
  <2>2. ASSUME NEW j \in (i + 1)..Len(s) PROVE s[j].hash # h
    <3>1. j \in 1..Len(s) /\ j # i
      BY <1>5
    <3>2. s[j] # Rec("put", h)
      BY <1>4, <2>1, <3>1
    <3> QED
      BY <1>2, <1>5, <3>1, <3>2
  <2>3. s[i].hash = h /\ s[i].kind = "put"
    BY <2>1 DEF Rec
  <2>4. i \in LastOf(s, h)
    BY <2>2, <2>3 DEF LastOf
  <2> QED
    BY <2>3, <2>4 DEF Keeps
<1>8. ASSUME NEW h, Keeps(s, h) PROVE h \in S
  BY <1>2, <1>5, <1>8 DEF Keeps, LastOf
<1> QED
  BY <1>5, <1>6, <1>7, <1>8 DEF s, R

-----------------------------------------------------------------------------
(***************************************************************************)
(* What the invariant says of a node that answers.                         *)
(***************************************************************************)

StoreStep == [Promise!Next]_<<OnDisk, acked>>

\* The files hold what the complete records of the pack keep, after a step too.
LEMMA DurableIsKept ==
  ASSUME NodeAssumption
  PROVE  /\ Types => OnDisk = Kept(Complete(packs[current]), large)
         /\ Types' => OnDisk' = Kept(Complete(packs'[current']), large')
<1>1. ASSUME NEW r \in Seq(Record), NEW files
      PROVE  {h \in Hashes : Rebuild(Complete(r), files)[h] # 0} = Kept(Complete(r), files)
  <2>1. Complete(r) \in Seq(Record)
    BY CompleteNoTorn
  <2> QED
    BY <2>1, Rebuilt DEF Kept
<1>2. Types => packs[current] \in Seq(Record)
  BY DEF Types
<1>3. Types' => packs'[current'] \in Seq(Record)
  BY DEF Types
<1> QED
  BY <1>1, <1>2, <1>3 DEF OnDisk

\* A pack that ends with a complete record is what the next start reads.
LEMMA CleanDurable ==
  ASSUME NodeAssumption
  PROVE  /\ Types /\ NoTorn(packs[current]) => OnDisk = Kept(packs[current], large)
         /\ Types' /\ NoTorn(packs'[current']) => OnDisk' = Kept(packs'[current'], large')
<1>1. Types => packs[current] \in Seq(Record)
  BY DEF Types
<1>2. Types' => packs'[current'] \in Seq(Record)
  BY DEF Types
<1> QED
  BY <1>1, <1>2, CompleteClean, DurableIsKept

\* What the index says decides what a GET answers.
LEMMA ServedIsKept ==
  ASSUME NodeAssumption, NodeIInv, Free, NEW h \in Hashes
  PROVE  Served(h) <=> h \in Kept(packs[current], large)
<1>1. /\ IndexOK(h) /\ pack = current /\ packs[current] \in Seq(Record) /\ index[h] \in Nat
      /\ Len(packs[current]) \in Nat
  BY DEF NodeIInv, IndexFollows, Trusted, Touched, Free, NoOp, Types
<1> DEFINE r == packs[current]
<1>2. CASE h \in Small
  <2>1. CASE index[h] = 0
    BY <1>1, <1>2, <2>1 DEF IndexOK, Served, Kept
  <2>2. CASE index[h] # 0
    <3>1. index[h] \in LastOf(r, h) /\ r[index[h]].kind \in {"put", "bad"}
      BY <1>1, <1>2, <2>2 DEF IndexOK
    <3>2. index[h] \in 1..Len(r) /\ r[index[h]].hash = h /\ r[index[h]] \in Record
      BY <1>1, <3>1, LastUnique
    <3>3. r[index[h]] = Rec("put", h) <=> r[index[h]].kind = "put"
      BY <3>2 DEF Record, Rec
    <3>4. Keeps(r, h) <=> r[index[h]].kind = "put"
      <4>1. \A i \in LastOf(r, h) : i = index[h]
        BY <1>1, <3>1, LastUnique
      <4> QED
        BY <3>1, <4>1 DEF Keeps
    <3>5. Served(h) <=> r[index[h]] = Rec("put", h)
      BY <1>1, <1>2, <2>2, <3>2 DEF Served
    <3> QED
      BY <1>2, <3>3, <3>4, <3>5 DEF Kept
  <2> QED
    BY <2>1, <2>2
<1>3. CASE h \notin Small
  BY <1>1, <1>3 DEF IndexOK, Served, Kept
<1> QED
  BY <1>2, <1>3

\* An appended record leaves the index entries of the other chunks right.
LEMMA IndexAppend ==
  ASSUME NodeAssumption, Types, NEW x \in Record, NEW h \in Hashes, h # x.hash, IndexOK(h),
         packs' = [packs EXCEPT ![current] = Append(@, x)], current' = current,
         index'[h] = index[h], h \in large' => h \in large
  PROVE  IndexOK(h)'
<1> DEFINE r == packs[current]
<1>1. r \in Seq(Record) /\ packs'[current'] = Append(r, x)
  BY DEF Types
<1>2. LastOf(Append(r, x), h) = LastOf(r, h) /\ (Keeps(Append(r, x), h) <=> Keeps(r, h))
  BY <1>1, LastOfAppend, KeptAppend
<1>3. \A i \in LastOf(r, h) : Append(r, x)[i] = r[i]
  BY <1>1 DEF LastOf
<1> QED
  BY <1>1, <1>2, <1>3 DEF IndexOK

\* A step that leaves the files alone leaves the durable chunks alone.
LEMMA SameDisk ==
  ASSUME UNCHANGED disk
  PROVE  OnDisk' = OnDisk
BY DEF disk, OnDisk

-----------------------------------------------------------------------------
(***************************************************************************)
(* The steps: each keeps the invariant and is a step of ChunkStore.        *)
(***************************************************************************)

\* The node starts empty.
LEMMA InitNodeIInv ==
  ASSUME NodeAssumption, NodeInit
  PROVE  NodeIInv /\ Promise!Init
<1>2. packs[current] = <<>> /\ Len(<<>>) = 0 /\ <<>> \in Seq(Record) /\ DOMAIN packs = {1}
  BY DEF NodeInit
<1>1. Types
  <2>1. packs \in [DOMAIN packs -> Seq(Record)]
    BY <1>2 DEF NodeInit
  <2>2. index \in [Hashes -> Nat]
    BY DEF NodeInit
  <2> QED
    BY <1>2, <2>1, <2>2 DEF NodeAssumption, NodeInit, Types, OpOK
<1>3. NoTorn(packs[current]) /\ \A h : LastOf(packs[current], h) = {} /\ ~Keeps(packs[current], h)
  BY <1>2 DEF NoTorn, LastOf, Keeps
<1>4. \A h \in Hashes : IndexOK(h)
  BY <1>3 DEF NodeInit, IndexOK
<1>5. OpFollows
  BY DEF NodeInit, OpFollows, NoOp
<1>6. Kept(packs[current], large) = {}
  BY <1>3 DEF NodeInit, Kept
<1>7. OnDisk = {}
  BY <1>1, <1>3, <1>6, CleanDurable
<1> QED
  BY <1>1, <1>3, <1>4, <1>5, <1>7 DEF NodeInit, NodeIInv, CleanPack, IndexFollows, Promise!Init

\* PUT answers at once for a chunk it serves.
LEMMA PutStep ==
  ASSUME NodeAssumption, NodeIInv, NEW h \in Hashes, Put(h)
  PROVE  NodeIInv' /\ StoreStep
<1>1. /\ Types /\ pack = current /\ CleanPack /\ IndexFollows /\ OpFollows /\ Free
      /\ UNCHANGED <<packs, current, large, pack, index, needsRecovery, up, faults>>
  BY DEF NodeIInv, Put, disk
<1>2. OnDisk' = OnDisk
  BY <1>1, SameDisk DEF disk
<1>3. up /\ ~needsRecovery /\ op = NoOp /\ \A g \in Hashes : IndexOK(g)
  BY <1>1 DEF Free, IndexFollows, Trusted, Touched, NoOp
<1>4. \A g \in Hashes : IndexOK(g)'
  BY <1>1, <1>3 DEF IndexOK
<1>5. CASE Served(h)
  <2>1. op' = op /\ acked' = acked \cup {h}
    BY <1>5 DEF Put
  <2>2. NodeIInv'
    BY <1>1, <1>3, <1>4, <2>1 DEF NodeIInv, Types, CleanPack, IndexFollows, OpFollows, OpOK, NoOp
  <2>3. h \in OnDisk
    <3>1. NoTorn(packs[current])
      BY <1>1, <1>3 DEF CleanPack
    <3> QED
      BY <1>1, <1>5, <3>1, ServedIsKept, CleanDurable
  <2> QED
    BY <1>2, <2>1, <2>2, <2>3 DEF StoreStep, Promise!Next, Promise!Acknowledge
<1>6. CASE ~Served(h)
  <2>1. op' = [kind |-> "put", step |-> "write", hash |-> h] /\ acked' = acked
    BY <1>6 DEF Put
  <2>2. NodeIInv'
    BY <1>1, <1>3, <1>4, <2>1 DEF NodeIInv, Types, CleanPack, IndexFollows, OpFollows, OpOK
  <2> QED
    BY <1>2, <2>1, <2>2 DEF StoreStep
<1> QED
  BY <1>5, <1>6

\* The record of a PUT reaches the pack, or its file the directory.
LEMMA PutWritesStep ==
  ASSUME NodeAssumption, NodeIInv, PutWrites
  PROVE  NodeIInv' /\ StoreStep
<1> DEFINE h == op.hash
           r == packs[current]
<1>1. /\ Types /\ pack = current /\ CleanPack /\ IndexFollows /\ OpFollows /\ up
      /\ op.kind = "put" /\ op.step = "write" /\ op' = [op EXCEPT !.step = "index"]
      /\ UNCHANGED <<current, pack, index, needsRecovery, up, acked, faults>>
  BY DEF NodeIInv, PutWrites, At
<1>2. op \in [kind : {"put"}, step : {"write", "index"}, hash : Hashes] /\ h \in Hashes
  BY <1>1 DEF Types, OpOK, NoOp
<1>3. op' = [kind |-> "put", step |-> "index", hash |-> h]
  BY <1>1, <1>2
<1> HIDE DEF h
<1>4. ~needsRecovery /\ r \in Seq(Record) /\ NoTorn(r) /\ Len(r) \in Nat
  BY <1>1 DEF OpFollows, CleanPack, Types
<1>5. \A g \in Hashes : IndexOK(g)
  BY <1>1, <1>4 DEF IndexFollows, Trusted, Touched
<1>6. OnDisk = Kept(r, large)
  BY <1>1, <1>4, CleanDurable
<1>7. CASE h \in Small
  <2> DEFINE x == Rec("put", h)
  <2>1. packs' = [packs EXCEPT ![current] = Append(r, x)] /\ large' = large
    BY <1>1, <1>7 DEF PutWrites, AppendRecord, h
  <2>2. x \in Record /\ x.hash = h /\ x.kind = "put"
    BY <1>7 DEF Record, Rec
  <2> HIDE DEF x
  <2>3. /\ Append(r, x) \in Seq(Record) /\ Len(Append(r, x)) = Len(r) + 1
        /\ Append(r, x)[Len(r) + 1] = x /\ \A i \in 1..Len(r) : Append(r, x)[i] = r[i]
    BY <1>4, <2>2
  <2>4. NoTorn(Append(r, x))
    BY <1>4, <2>2, <2>3 DEF NoTorn
  <2>5. packs'[current'] = Append(r, x) /\ DOMAIN packs' = DOMAIN packs /\ packs' \in [DOMAIN packs -> Seq(Record)]
    BY <1>1, <2>1, <2>3 DEF Types
  <2>6. Types'
    BY <1>1, <1>2, <1>3, <2>1, <2>5 DEF Types, OpOK
  <2>7. \A g \in Hashes : g # h => IndexOK(g)'
    BY <1>1, <1>5, <2>1, <2>2, IndexAppend
  <2>8. CleanPack' /\ IndexFollows' /\ pack' = current'
    BY <1>1, <1>3, <2>4, <2>5, <2>7 DEF CleanPack, IndexFollows, Touched
  <2>9. OpFollows'
    BY <1>1, <1>3, <1>4, <2>3, <2>5, <1>7 DEF OpFollows, x
  <2>10. OnDisk' = OnDisk \cup {h}
    <3>1. OnDisk' = Kept(packs'[current'], large')
      BY <2>4, <2>5, <2>6, CleanDurable
    <3>2. OnDisk' = Kept(Append(r, x), large)
      BY <2>1, <2>5, <3>1
    <3>3. Kept(Append(r, x), large) = Kept(r, large) \cup {h}
      BY <1>4, <2>2, KeptAppend
    <3> QED
      BY <1>6, <3>2, <3>3
  <2> QED
    BY <1>1, <1>2, <2>6, <2>8, <2>9, <2>10 DEF NodeIInv, StoreStep, Promise!Next, Promise!Write
<1>8. CASE h \notin Small
  <2>1. packs' = packs /\ large' = large \cup {h}
    BY <1>1, <1>8 DEF PutWrites, h
  <2>2. Types'
    BY <1>1, <1>2, <1>3, <1>8, <2>1 DEF Types, OpOK
  <2>3. \A g \in Hashes : g # h => IndexOK(g)'
    BY <1>1, <1>5, <2>1 DEF IndexOK
  <2>4. CleanPack' /\ IndexFollows' /\ pack' = current'
    BY <1>1, <1>3, <1>4, <2>1, <2>3 DEF CleanPack, IndexFollows, Touched
  <2>5. OpFollows'
    BY <1>1, <1>3, <1>4, <1>8, <2>1 DEF OpFollows
  <2>6. OnDisk' = OnDisk \cup {h}
    <3>1. OnDisk' = Kept(r, large')
      BY <1>1, <1>4, <2>1, <2>2, CleanDurable
    <3> QED
      BY <1>2, <1>6, <1>8, <2>1, <3>1 DEF Kept
  <2> QED
    BY <1>1, <1>2, <2>2, <2>4, <2>5, <2>6 DEF NodeIInv, StoreStep, Promise!Next, Promise!Write
<1> QED
  BY <1>7, <1>8

\* The index row of a PUT, then its answer.
LEMMA PutIndexesStep ==
  ASSUME NodeAssumption, NodeIInv, PutIndexes
  PROVE  NodeIInv' /\ StoreStep
<1> DEFINE h == op.hash
           r == packs[current]
           j == IF h \in Small THEN Len(r) ELSE 1
<1>1. /\ Types /\ pack = current /\ CleanPack /\ IndexFollows /\ OpFollows /\ up
      /\ op.kind = "put" /\ op.step = "index" /\ op' = NoOp
      /\ UNCHANGED <<packs, current, large, pack, needsRecovery, up, faults>>
      /\ acked' = acked \cup {h} /\ index' = [index EXCEPT ![h] = j]
  BY DEF NodeIInv, PutIndexes, At, disk
<1>2. h \in Hashes
  BY <1>1 DEF Types, OpOK, NoOp
<1>3. ~needsRecovery /\ r \in Seq(Record) /\ NoTorn(r) /\ Len(r) \in Nat
  BY <1>1 DEF OpFollows, CleanPack, Types
<1>4. IF h \in Small THEN Len(r) > 0 /\ r[Len(r)] = Rec("put", h) ELSE h \in large
  BY <1>1 DEF OpFollows
<1>5. h \in Small => Len(r) \in LastOf(r, h) /\ r[Len(r)].kind = "put"
  BY <1>3, <1>4 DEF LastOf, Rec
<1>6. \A g \in Hashes : g # h => IndexOK(g)
  BY <1>1, <1>3 DEF IndexFollows, Trusted, Touched
<1>7. OnDisk = Kept(r, large) /\ OnDisk' = OnDisk
  BY <1>1, <1>3, CleanDurable, SameDisk DEF disk
<1>8. h \in OnDisk
  BY <1>2, <1>4, <1>5, <1>7 DEF Kept, Keeps
<1> HIDE DEF h
<1>9. j \in Nat \ {0}
  BY <1>3, <1>4
<1>10. index'[h] = j /\ index' \in [Hashes -> Nat] /\ \A g \in Hashes : g # h => index'[g] = index[g]
  BY <1>1, <1>2, <1>9 DEF Types
<1>11. ASSUME NEW g \in Hashes, g = h PROVE IndexOK(g)'
  BY <1>1, <1>4, <1>5, <1>9, <1>10, <1>11 DEF IndexOK
<1>12. \A g \in Hashes : g # h => IndexOK(g)'
  BY <1>1, <1>6, <1>10 DEF IndexOK
<1>13. Types'
  BY <1>1, <1>2, <1>10 DEF Types, OpOK
<1>14. CleanPack' /\ IndexFollows' /\ OpFollows' /\ pack' = current'
  BY <1>1, <1>3, <1>11, <1>12 DEF CleanPack, IndexFollows, OpFollows, NoOp
<1> QED
  BY <1>1, <1>2, <1>7, <1>8, <1>13, <1>14 DEF NodeIInv, StoreStep, Promise!Next, Promise!Acknowledge

\* POST /collect starts.
LEMMA CollectStep ==
  ASSUME NodeAssumption, NodeIInv, NEW S \in SUBSET Hashes, Collect(S)
  PROVE  NodeIInv' /\ StoreStep
<1>1. /\ Types /\ pack = current /\ CleanPack /\ IndexFollows /\ OpFollows /\ Free
      /\ UNCHANGED <<packs, current, large, pack, index, needsRecovery, up, acked, faults>>
      /\ op' = [kind |-> "collect", step |-> "write", todo |-> S]
  BY DEF NodeIInv, Collect, disk
<1>2. OnDisk' = OnDisk
  BY <1>1, SameDisk DEF disk
<1>3. up /\ ~needsRecovery /\ op = NoOp /\ \A g \in Hashes : IndexOK(g)
  BY <1>1 DEF Free, IndexFollows, Trusted, Touched, NoOp
<1>4. \A g \in Hashes : IndexOK(g)'
  BY <1>1, <1>3 DEF IndexOK
<1>5. NodeIInv'
  BY <1>1, <1>3, <1>4 DEF NodeIInv, Types, CleanPack, IndexFollows, OpFollows, OpOK
<1> QED
  BY <1>1, <1>2, <1>5 DEF StoreStep

\* A tombstone reaches the pack, or a file leaves the directory.
LEMMA CollectWritesStep ==
  ASSUME NodeAssumption, NodeIInv, NEW h \in Hashes, CollectWrites(h)
  PROVE  NodeIInv' /\ StoreStep
<1> DEFINE r == packs[current]
           next == [kind |-> "collect", step |-> "index", todo |-> op.todo \ {h}, hash |-> h]
<1>1. /\ Types /\ pack = current /\ CleanPack /\ IndexFollows /\ OpFollows /\ up
      /\ op.kind = "collect" /\ op.step = "write" /\ op' = next
      /\ UNCHANGED <<current, pack, index, needsRecovery, up, faults>>
      /\ acked' = acked \ {h}
  BY DEF NodeIInv, CollectWrites, At
<1>2. op.todo \in SUBSET Hashes
  BY <1>1 DEF Types, OpOK, NoOp
<1>3. next \in [kind : {"collect"}, step : {"index"}, todo : SUBSET Hashes, hash : Hashes]
      /\ next.kind = "collect" /\ next.step = "index" /\ next.hash = h
  BY <1>2
<1> HIDE DEF next
<1>4. ~needsRecovery /\ r \in Seq(Record) /\ NoTorn(r) /\ Len(r) \in Nat
  BY <1>1 DEF OpFollows, CleanPack, Types
<1>5. \A g \in Hashes : IndexOK(g)
  BY <1>1, <1>4 DEF IndexFollows, Trusted, Touched
<1>6. OnDisk = Kept(r, large)
  BY <1>1, <1>4, CleanDurable
<1>7. CASE h \in Small
  <2> DEFINE x == Rec("del", h)
  <2>1. packs' = [packs EXCEPT ![current] = Append(r, x)] /\ large' = large
    BY <1>1, <1>7 DEF CollectWrites, AppendRecord
  <2>2. x \in Record /\ x.hash = h /\ x.kind = "del"
    BY <1>7 DEF Record, Rec
  <2> HIDE DEF x
  <2>3. /\ Append(r, x) \in Seq(Record) /\ Len(Append(r, x)) = Len(r) + 1
        /\ Append(r, x)[Len(r) + 1] = x /\ \A i \in 1..Len(r) : Append(r, x)[i] = r[i]
    BY <1>4, <2>2
  <2>4. NoTorn(Append(r, x))
    BY <1>4, <2>2, <2>3 DEF NoTorn
  <2>5. packs'[current'] = Append(r, x) /\ DOMAIN packs' = DOMAIN packs /\ packs' \in [DOMAIN packs -> Seq(Record)]
    BY <1>1, <2>1, <2>3 DEF Types
  <2>6. Types'
    BY <1>1, <1>3, <2>1, <2>5 DEF Types, OpOK
  <2>7. \A g \in Hashes : g # h => IndexOK(g)'
    BY <1>1, <1>5, <2>1, <2>2, IndexAppend
  <2>8. CleanPack' /\ IndexFollows' /\ pack' = current'
    BY <1>1, <1>3, <2>4, <2>5, <2>7 DEF CleanPack, IndexFollows, Touched
  <2>9. Kept(packs'[current'], large') = Kept(r, large) \ {h}
    BY <1>4, <2>1, <2>2, <2>5, KeptAppend
  <2>10. OpFollows'
    BY <1>1, <1>3, <1>4, <2>9 DEF OpFollows
  <2>11. OnDisk' = OnDisk \ {h}
    BY <1>6, <2>4, <2>5, <2>6, <2>9, CleanDurable
  <2> QED
    BY <1>1, <2>6, <2>8, <2>10, <2>11 DEF NodeIInv, StoreStep, Promise!Next, Promise!Erase
<1>8. CASE h \notin Small
  <2>1. packs' = packs /\ large' = large \ {h}
    BY <1>1, <1>8 DEF CollectWrites
  <2>2. Types'
    BY <1>1, <1>3, <1>8, <2>1 DEF Types, OpOK
  <2>3. \A g \in Hashes : g # h => IndexOK(g)'
    BY <1>1, <1>5, <2>1 DEF IndexOK
  <2>4. CleanPack' /\ IndexFollows' /\ pack' = current'
    BY <1>1, <1>3, <1>4, <2>1, <2>3 DEF CleanPack, IndexFollows, Touched
  <2>5. Kept(packs'[current'], large') = Kept(r, large) \ {h}
    BY <1>1, <1>8, <2>1 DEF Kept
  <2>6. OpFollows'
    BY <1>1, <1>3, <1>4, <2>5 DEF OpFollows
  <2>7. OnDisk' = OnDisk \ {h}
    BY <1>1, <1>4, <1>6, <2>1, <2>2, <2>5, CleanDurable
  <2> QED
    BY <1>1, <2>2, <2>4, <2>6, <2>7 DEF NodeIInv, StoreStep, Promise!Next, Promise!Erase
<1> QED
  BY <1>7, <1>8

\* The index row of a collected chunk goes.
LEMMA CollectUnindexesStep ==
  ASSUME NodeAssumption, NodeIInv, CollectUnindexes
  PROVE  NodeIInv' /\ StoreStep
<1> DEFINE h == op.hash
           r == packs[current]
<1>1. /\ Types /\ pack = current /\ CleanPack /\ IndexFollows /\ OpFollows /\ up
      /\ op.kind = "collect" /\ op.step = "index"
      /\ op' = IF op.todo = {} THEN NoOp ELSE [kind |-> "collect", step |-> "write", todo |-> op.todo]
      /\ UNCHANGED <<packs, current, large, pack, needsRecovery, up, acked, faults>>
      /\ index' = [index EXCEPT ![h] = 0]
  BY DEF NodeIInv, CollectUnindexes, At, disk
<1>2. h \in Hashes /\ op.todo \in SUBSET Hashes
  BY <1>1 DEF Types, OpOK, NoOp
<1>3. ~needsRecovery /\ h \notin Kept(r, large) /\ NoTorn(r)
  BY <1>1 DEF OpFollows, CleanPack
<1>4. \A g \in Hashes : g # h => IndexOK(g)
  BY <1>1, <1>3 DEF IndexFollows, Trusted, Touched
<1>5. op'.kind \in {"idle", "collect"} /\ (op'.kind = "collect" => op'.step = "write") /\ OpOK'
  BY <1>1, <1>2 DEF OpOK, NoOp
<1> HIDE DEF h
<1>6. index'[h] = 0 /\ index' \in [Hashes -> Nat] /\ \A g \in Hashes : g # h => index'[g] = index[g]
  BY <1>1, <1>2 DEF Types
<1>7. ASSUME NEW g \in Hashes, g = h PROVE IndexOK(g)'
  BY <1>1, <1>3, <1>6, <1>7 DEF IndexOK, Kept
<1>8. \A g \in Hashes : g # h => IndexOK(g)'
  BY <1>1, <1>4, <1>6 DEF IndexOK
<1>9. Types'
  BY <1>1, <1>5, <1>6 DEF Types
<1>10. CleanPack' /\ IndexFollows' /\ pack' = current'
  BY <1>1, <1>3, <1>7, <1>8 DEF CleanPack, IndexFollows
<1>11. OpFollows'
  BY <1>1, <1>3, <1>5 DEF OpFollows
<1>12. OnDisk' = OnDisk
  BY <1>1, SameDisk DEF disk
<1> QED
  BY <1>1, <1>9, <1>10, <1>11, <1>12 DEF NodeIInv, StoreStep

\* A failed write that was cut back changes nothing.
LEMMA WriteFailsStep ==
  ASSUME NodeAssumption, NodeIInv, WriteFails
  PROVE  NodeIInv' /\ StoreStep
<1>1. /\ Types /\ pack = current /\ CleanPack /\ IndexFollows /\ OpFollows /\ up
      /\ op.kind \in {"put", "collect"} /\ op.step = "write" /\ op' = NoOp
      /\ UNCHANGED <<packs, current, large, pack, index, needsRecovery, up, acked>>
  BY DEF NodeIInv, WriteFails, disk
<1>2. OnDisk' = OnDisk
  BY <1>1, SameDisk DEF disk
<1>3. ~needsRecovery /\ NoTorn(packs[current])
  BY <1>1 DEF OpFollows, CleanPack
<1>4. \A g \in Hashes : IndexOK(g)
  BY <1>1, <1>3 DEF IndexFollows, Trusted, Touched
<1>5. \A g \in Hashes : IndexOK(g)'
  BY <1>1, <1>4 DEF IndexOK
<1>6. NodeIInv'
  BY <1>1, <1>3, <1>5 DEF NodeIInv, Types, CleanPack, IndexFollows, OpFollows, OpOK, NoOp
<1> QED
  BY <1>1, <1>2, <1>6 DEF StoreStep

\* A failed write that could not be cut back stops the node from answering.
LEMMA TruncateFailsStep ==
  ASSUME NodeAssumption, NodeIInv, TruncateFails
  PROVE  NodeIInv' /\ StoreStep
<1> DEFINE r == packs[current]
<1>1. /\ Types /\ pack = current /\ CleanPack /\ OpFollows /\ up
      /\ op.kind \in {"put", "collect"} /\ op' = NoOp /\ needsRecovery' = TRUE
      /\ UNCHANGED <<current, large, pack, index, up, acked>>
  BY DEF NodeIInv, TruncateFails
<1>2. PICK h \in Small : packs' = [packs EXCEPT ![current] = Append(r, Rec("torn", h))]
  BY <1>1 DEF TruncateFails, AppendRecord
<1> DEFINE x == Rec("torn", h)
<1>3. x \in Record /\ x.kind = "torn"
  BY DEF Record, Rec
<1> HIDE DEF x
<1>4. r \in Seq(Record) /\ NoTorn(r) /\ Append(r, x) \in Seq(Record)
  BY <1>1, <1>3 DEF OpFollows, CleanPack, Types
<1>5. packs'[current'] = Append(r, x) /\ DOMAIN packs' = DOMAIN packs /\ packs' \in [DOMAIN packs -> Seq(Record)]
  BY <1>1, <1>2, <1>4 DEF Types, x
<1>6. Types'
  BY <1>1, <1>5 DEF Types, OpOK
<1>7. CleanPack' /\ IndexFollows' /\ OpFollows' /\ pack' = current'
  BY <1>1 DEF CleanPack, IndexFollows, Trusted, OpFollows, NoOp
<1>8. OnDisk' = OnDisk
  <2>1. Complete(packs'[current']) = r /\ Complete(r) = r
    BY <1>3, <1>4, <1>5, CompleteTorn, CompleteClean
  <2> QED
    BY <1>1, <1>6, <2>1, DurableIsKept
<1> QED
  BY <1>1, <1>6, <1>7, <1>8 DEF NodeIInv, StoreStep

\* A failed index write stops the node from answering.
LEMMA IndexFailsStep ==
  ASSUME NodeAssumption, NodeIInv, IndexFails
  PROVE  NodeIInv' /\ StoreStep
<1>1. /\ Types /\ pack = current /\ op' = NoOp /\ needsRecovery' = TRUE
      /\ UNCHANGED <<packs, current, large, pack, index, up, acked>>
  BY DEF NodeIInv, IndexFails, disk
<1>2. Types'
  BY <1>1 DEF Types, OpOK
<1>3. CleanPack' /\ IndexFollows' /\ OpFollows' /\ pack' = current'
  BY <1>1 DEF CleanPack, IndexFollows, Trusted, OpFollows, NoOp
<1>4. OnDisk' = OnDisk
  BY <1>1, SameDisk DEF disk
<1> QED
  BY <1>1, <1>2, <1>3, <1>4 DEF NodeIInv, StoreStep

\* The records of the indexed chunks reach a new pack, which CURRENT does not name yet.
LEMMA CompactStep ==
  ASSUME NodeAssumption, NodeIInv, Compact
  PROVE  NodeIInv' /\ StoreStep
<1> DEFINE r == packs[current]
           s == SetToSeq({Rec("put", h) : h \in Indexed})
<1>1. /\ Types /\ pack = current /\ CleanPack /\ IndexFollows /\ OpFollows /\ Free
      /\ \A h \in Indexed : Served(h)
      /\ needsRecovery' = TRUE /\ UNCHANGED <<current, large, pack, index, up, acked, faults>>
  BY DEF NodeIInv, Compact
<1>2. PICK p \in FreshName :
        /\ packs' = [q \in DOMAIN packs \cup {p} |-> IF q = p THEN s ELSE packs[q]]
        /\ op' = [kind |-> "compact", step |-> "switch", new |-> p]
  BY DEF Compact
<1>3. p \in Packs /\ p \notin DOMAIN packs /\ p # current
  BY <1>1 DEF FreshName, Types
<1>4. up /\ ~needsRecovery /\ op = NoOp /\ \A g \in Hashes : IndexOK(g)
  BY <1>1 DEF Free, IndexFollows, Trusted, Touched, NoOp
<1>5. NoTorn(r) /\ r \in Seq(Record)
  BY <1>1, <1>4 DEF CleanPack, Types
<1>6. Indexed \in SUBSET Small
  BY DEF Indexed
<1>7. s \in Seq(Record) /\ NoTorn(s) /\ \A h \in Small : Keeps(s, h) <=> h \in Indexed
  BY <1>6, CompactedPack
<1> HIDE DEF s
<1>8. packs'[current'] = r /\ packs'[p] = s /\ DOMAIN packs' = DOMAIN packs \cup {p}
  BY <1>1, <1>2, <1>3 DEF Types
<1>9. packs' \in [DOMAIN packs' -> Seq(Record)]
  BY <1>1, <1>2, <1>7, <1>8 DEF Types
<1>10. OpOK' /\ op'.kind = "compact" /\ op'.step = "switch" /\ op'.new = p
  BY <1>2, <1>3 DEF OpOK
<1>11. Types'
  BY <1>1, <1>3, <1>8, <1>9, <1>10 DEF Types
<1>12. ASSUME NEW h \in Small PROVE Keeps(s, h) <=> Keeps(r, h)
  <2>1. h \in Hashes
    BY DEF NodeAssumption
  <2>2. CASE h \in Indexed
    <3>1. h \in Kept(r, large)
      BY <1>1, <2>1, <2>2, ServedIsKept
    <3> QED
      BY <1>7, <2>2, <3>1 DEF Kept
  <2>3. CASE h \notin Indexed
    BY <1>4, <1>7, <2>1, <2>3 DEF Indexed, IndexOK
  <2> QED
    BY <2>2, <2>3
<1>13. Kept(s, large) = Kept(r, large)
  BY <1>12 DEF Kept
<1>14. \A g \in Hashes : IndexOK(g)'
  BY <1>1, <1>4, <1>8 DEF IndexOK
<1>15. CleanPack' /\ IndexFollows' /\ pack' = current'
  BY <1>1, <1>5, <1>8, <1>14 DEF CleanPack, IndexFollows
<1>16. OpFollows'
  BY <1>1, <1>3, <1>4, <1>7, <1>8, <1>10, <1>13 DEF OpFollows
<1>17. OnDisk' = OnDisk
  BY <1>1, <1>5, <1>8, <1>11, CleanDurable
<1> QED
  BY <1>1, <1>11, <1>15, <1>16, <1>17 DEF NodeIInv, StoreStep

\* CURRENT names the new pack, which keeps what the old one kept.
LEMMA CompactSwitchesStep ==
  ASSUME NodeAssumption, NodeIInv, CompactSwitches
  PROVE  NodeIInv' /\ StoreStep
<1>1. /\ Types /\ pack = current /\ CleanPack /\ OpFollows /\ up /\ op.kind = "compact" /\ op.step = "switch"
      /\ current' = op.new /\ pack' = op.new /\ op' = [op EXCEPT !.step = "recover"]
      /\ UNCHANGED <<packs, large, index, needsRecovery, up, acked, faults>>
  BY DEF NodeIInv, CompactSwitches, At
<1>2. op \in [kind : {"compact"}, step : {"switch", "recover", "unlink"}, new : Packs]
  BY <1>1 DEF Types, OpOK, NoOp
<1>3. op'.kind = "compact" /\ op'.step = "recover" /\ op'.new = op.new /\ OpOK'
  BY <1>1, <1>2 DEF OpOK
<1>4. /\ needsRecovery /\ op.new \in DOMAIN packs /\ NoTorn(packs[op.new]) /\ NoTorn(packs[current])
      /\ Kept(packs[op.new], large) = Kept(packs[current], large)
  BY <1>1 DEF OpFollows, CleanPack
<1>5. Types'
  BY <1>1, <1>3, <1>4 DEF Types
<1>6. CleanPack' /\ IndexFollows' /\ OpFollows' /\ pack' = current'
  BY <1>1, <1>3, <1>4 DEF CleanPack, IndexFollows, Trusted, OpFollows
<1>7. OnDisk' = OnDisk
  BY <1>1, <1>4, <1>5, CleanDurable
<1> QED
  BY <1>1, <1>5, <1>6, <1>7 DEF NodeIInv, StoreStep

\* A switch that raises leaves the old pack trusted or waits for recovery of the new one.
LEMMA CompactSwitchRaisesStep ==
  ASSUME NodeAssumption, NodeIInv, CompactSwitchRaises
  PROVE  NodeIInv' /\ StoreStep
<1>1. /\ Types /\ pack = current /\ CleanPack /\ IndexFollows /\ OpFollows
      /\ up /\ op.kind = "compact" /\ op.step = "switch" /\ op' = NoOp
      /\ UNCHANGED <<packs, large, index, up, acked>>
  BY DEF NodeIInv, CompactSwitchRaises, At
<1>2. /\ needsRecovery /\ op.new \in DOMAIN packs /\ NoTorn(packs[op.new]) /\ NoTorn(packs[current])
      /\ Kept(packs[op.new], large) = Kept(packs[current], large)
  BY <1>1 DEF OpFollows, CleanPack
<1>3. OpOK' /\ op'.kind = "idle"
  BY <1>1 DEF OpOK, NoOp
<1>4. CASE needsRecovery' = FALSE /\ UNCHANGED <<current, pack>>
  <2>1. \A g \in Hashes : IndexOK(g)
    BY <1>1 DEF IndexFollows, Trusted, Touched
  <2>2. \A g \in Hashes : IndexOK(g)'
    BY <1>1, <1>4, <2>1 DEF IndexOK
  <2>3. NodeIInv'
    BY <1>1, <1>2, <1>3, <1>4, <2>2 DEF NodeIInv, Types, CleanPack, IndexFollows, OpFollows
  <2>4. OnDisk' = OnDisk
    BY <1>1, <1>4, SameDisk DEF disk
  <2> QED
    BY <1>1, <2>3, <2>4 DEF StoreStep
<1>5. CASE current' = op.new /\ pack' = op.new /\ UNCHANGED needsRecovery
  <2>1. Types'
    BY <1>1, <1>2, <1>3, <1>5 DEF Types
  <2>2. NodeIInv'
    BY <1>1, <1>2, <1>3, <1>5, <2>1 DEF NodeIInv, CleanPack, IndexFollows, Trusted, OpFollows
  <2>3. OnDisk' = OnDisk
    BY <1>1, <1>2, <1>5, <2>1, CleanDurable
  <2> QED
    BY <1>1, <2>2, <2>3 DEF StoreStep
<1> QED
  BY <1>4, <1>5 DEF CompactSwitchRaises

\* An index rebuilt from the complete records of the pack is right for every chunk.
LEMMA RecoveredIndex ==
  ASSUME NodeAssumption, Types,
         packs' = [packs EXCEPT ![current] = Complete(@)], current' = current, large' = large,
         index' = Rebuild(Complete(packs[current]), large)
  PROVE  /\ packs' \in [DOMAIN packs' -> Seq(Record)] /\ DOMAIN packs' = DOMAIN packs
         /\ NoTorn(packs'[current']) /\ index' \in [Hashes -> Nat]
         /\ \A g \in Hashes : IndexOK(g)'
         /\ OnDisk' = OnDisk
<1> DEFINE c == Complete(packs[current])
<1>1. c \in Seq(Record) /\ NoTorn(c)
  BY CompleteNoTorn DEF Types
<1>2. /\ packs'[current'] = c /\ DOMAIN packs' = DOMAIN packs
      /\ packs' \in [DOMAIN packs -> Seq(Record)]
  BY <1>1 DEF Types
<1>3. Complete(c) = c
  BY <1>1, CompleteClean
<1> HIDE DEF c
<1>4. index' = Rebuild(c, large)
  BY DEF c
<1>5. index' \in [Hashes -> Nat]
  <2>1. CASE Hashes = {}
    BY <1>4, <2>1 DEF Rebuild
  <2>2. CASE Hashes # {}
    BY <1>1, <1>4, <2>2, Rebuilt
  <2> QED
    BY <2>1, <2>2
<1>6. ASSUME NEW g \in Hashes PROVE IndexOK(g)'
  <2>1. /\ index'[g] # 0 <=> g \in Kept(c, large)
        /\ g \in Small /\ Keeps(c, g) => index'[g] \in LastOf(c, g)
    BY <1>1, <1>4, Rebuilt
  <2>2. CASE g \in Small
    <3>1. CASE Keeps(c, g)
      <4>1. PICK i \in LastOf(c, g) : c[i].kind = "put"
        BY <3>1 DEF Keeps
      <4>2. i = index'[g]
        BY <1>1, <2>1, <2>2, <3>1, LastUnique
      <4> QED
        BY <1>2, <2>1, <2>2, <3>1, <4>1, <4>2 DEF IndexOK, Kept
    <3>2. CASE ~Keeps(c, g)
      BY <1>2, <2>1, <2>2, <3>2 DEF IndexOK, Kept
    <3> QED
      BY <3>1, <3>2
  <2>3. CASE g \notin Small
    BY <2>1, <2>3 DEF IndexOK, Kept
  <2> QED
    BY <2>2, <2>3
<1>7. OnDisk' = OnDisk
  BY <1>2, <1>3 DEF OnDisk, c
<1> QED
  BY <1>1, <1>2, <1>5, <1>6, <1>7

\* The node reads the pack CURRENT names, after a compaction.
LEMMA CompactRecoversStep ==
  ASSUME NodeAssumption, NodeIInv, CompactRecovers
  PROVE  NodeIInv' /\ StoreStep
<1>1. /\ Types /\ pack = current /\ OpFollows /\ up /\ op.kind = "compact" /\ op.step = "recover"
      /\ packs' = [packs EXCEPT ![current] = Complete(@)]
      /\ index' = Rebuild(Complete(packs[current]), large)
      /\ needsRecovery' = FALSE /\ op' = [op EXCEPT !.step = "unlink"]
      /\ UNCHANGED <<current, large, pack, up, acked, faults>>
  BY DEF NodeIInv, CompactRecovers, At
<1>2. /\ packs' \in [DOMAIN packs' -> Seq(Record)] /\ DOMAIN packs' = DOMAIN packs
      /\ NoTorn(packs'[current']) /\ index' \in [Hashes -> Nat]
      /\ \A g \in Hashes : IndexOK(g)'
      /\ OnDisk' = OnDisk
  BY <1>1, RecoveredIndex
<1>3. op \in [kind : {"compact"}, step : {"switch", "recover", "unlink"}, new : Packs]
  BY <1>1 DEF Types, OpOK, NoOp
<1>4. op'.kind = "compact" /\ op'.step = "unlink" /\ op'.new = op.new /\ OpOK'
  BY <1>1, <1>3 DEF OpOK
<1>5. Types'
  BY <1>1, <1>2, <1>4 DEF Types
<1>6. OpFollows'
  BY <1>1, <1>2, <1>4 DEF OpFollows
<1> QED
  BY <1>1, <1>2, <1>5, <1>6 DEF NodeIInv, CleanPack, IndexFollows, StoreStep

\* The other packs go.
LEMMA CompactUnlinksStep ==
  ASSUME NodeAssumption, NodeIInv, CompactUnlinks
  PROVE  NodeIInv' /\ StoreStep
<1>1. /\ Types /\ pack = current /\ CleanPack /\ IndexFollows /\ OpFollows
      /\ up /\ op.kind = "compact" /\ op.step = "unlink" /\ op' = NoOp
      /\ packs' = [q \in {op.new} |-> packs[q]]
      /\ UNCHANGED <<current, large, pack, index, needsRecovery, up, acked, faults>>
  BY DEF NodeIInv, CompactUnlinks, At
<1>2. op.new = current /\ ~needsRecovery /\ NoTorn(packs[current])
  BY <1>1 DEF OpFollows, CleanPack
<1>3. packs'[current'] = packs[current] /\ DOMAIN packs' = {current}
  BY <1>1, <1>2
<1>4. packs' \in [DOMAIN packs' -> Seq(Record)]
  BY <1>1, <1>2, <1>3 DEF Types
<1>5. Types'
  BY <1>1, <1>3, <1>4 DEF Types, OpOK
<1>6. \A g \in Hashes : IndexOK(g)
  BY <1>1, <1>2 DEF IndexFollows, Trusted, Touched
<1>7. \A g \in Hashes : IndexOK(g)'
  BY <1>1, <1>3, <1>6 DEF IndexOK
<1>8. CleanPack' /\ IndexFollows' /\ OpFollows' /\ pack' = current'
  BY <1>1, <1>2, <1>3, <1>7 DEF CleanPack, IndexFollows, OpFollows, NoOp
<1>9. OnDisk' = OnDisk
  BY <1>1, <1>3 DEF OnDisk
<1> QED
  BY <1>1, <1>5, <1>8, <1>9 DEF NodeIInv, StoreStep

\* A crash leaves at most one record more, complete or not.
LEMMA CrashStep ==
  ASSUME NodeAssumption, NodeIInv, NodeCrash
  PROVE  NodeIInv' /\ StoreStep
<1> DEFINE r == packs[current]
<1>1. /\ Types /\ pack = current /\ CleanPack /\ OpFollows /\ up /\ up' = FALSE /\ op' = NoOp
      /\ UNCHANGED <<current, large, pack, index, needsRecovery, acked>>
  BY DEF NodeIInv, NodeCrash
<1>2. CleanPack' /\ IndexFollows' /\ OpFollows' /\ pack' = current' /\ OpOK'
  BY <1>1 DEF CleanPack, IndexFollows, Trusted, OpFollows, NoOp, OpOK
<1>3. CASE UNCHANGED packs
  <2>1. Types' /\ OnDisk' = OnDisk
    BY <1>1, <1>2, <1>3, SameDisk DEF Types, disk
  <2> QED
    BY <1>1, <1>2, <2>1 DEF NodeIInv, StoreStep
<1>4. CASE /\ op.kind = "put" /\ op.hash \in Small
           /\ \E kind \in {"put", "torn"} : AppendRecord(Rec(kind, op.hash))
  <2>1. PICK kind \in {"put", "torn"} : packs' = [packs EXCEPT ![current] = Append(r, Rec(kind, op.hash))]
    BY <1>1, <1>4 DEF AppendRecord
  <2> DEFINE x == Rec(kind, op.hash)
  <2>2. x \in Record /\ x.kind = kind /\ x.hash = op.hash /\ op.hash \in Hashes
    BY <1>4 DEF Record, Rec, NodeAssumption
  <2> HIDE DEF x
  <2>3. r \in Seq(Record) /\ NoTorn(r) /\ Append(r, x) \in Seq(Record)
    BY <1>1, <1>4, <2>2 DEF OpFollows, CleanPack, Types
  <2>4. packs'[current'] = Append(r, x) /\ DOMAIN packs' = DOMAIN packs /\ packs' \in [DOMAIN packs -> Seq(Record)]
    BY <1>1, <2>1, <2>3 DEF Types, x
  <2>5. Types'
    BY <1>1, <1>2, <2>4 DEF Types
  <2>6. OnDisk = Kept(r, large)
    BY <1>1, <2>3, CleanDurable
  <2>7. CASE kind = "put"
    <3>1. NoTorn(Append(r, x))
      <4>1. Len(Append(r, x)) = Len(r) + 1 /\ Append(r, x)[Len(r) + 1] = x
            /\ \A i \in 1..Len(r) : Append(r, x)[i] = r[i]
        BY <2>2, <2>3
      <4> QED
        BY <2>2, <2>3, <2>7, <4>1 DEF NoTorn
    <3>2. OnDisk' = OnDisk \cup {op.hash}
      BY <1>1, <2>2, <2>3, <2>4, <2>5, <2>6, <2>7, <3>1, KeptAppend, CleanDurable
    <3> QED
      BY <1>1, <1>2, <2>2, <2>5, <3>2 DEF NodeIInv, StoreStep, Promise!Next, Promise!Write
  <2>8. CASE kind = "torn"
    <3>1. Complete(packs'[current']) = r
      BY <2>2, <2>3, <2>4, <2>8, CompleteTorn
    <3>2. OnDisk' = OnDisk
      BY <1>1, <2>5, <2>6, <3>1, DurableIsKept
    <3> QED
      BY <1>1, <1>2, <2>5, <3>2 DEF NodeIInv, StoreStep
  <2> QED
    BY <2>7, <2>8
<1> QED
  BY <1>3, <1>4 DEF NodeCrash

\* The node starts and reads the pack CURRENT names.
LEMMA StartStep ==
  ASSUME NodeAssumption, NodeIInv, Start
  PROVE  NodeIInv' /\ StoreStep
<1>1. /\ Types /\ OpFollows /\ ~up /\ up' = TRUE /\ pack' = current
      /\ packs' = [packs EXCEPT ![current] = Complete(@)]
      /\ index' = Rebuild(Complete(packs[current]), large)
      /\ needsRecovery' = FALSE /\ UNCHANGED <<current, large, op, acked, faults>>
  BY DEF NodeIInv, Start
<1>2. /\ packs' \in [DOMAIN packs' -> Seq(Record)] /\ DOMAIN packs' = DOMAIN packs
      /\ NoTorn(packs'[current']) /\ index' \in [Hashes -> Nat]
      /\ \A g \in Hashes : IndexOK(g)'
      /\ OnDisk' = OnDisk
  BY <1>1, RecoveredIndex
<1>3. op.kind = "idle"
  BY <1>1 DEF OpFollows
<1>4. Types'
  BY <1>1, <1>2 DEF Types, OpOK
<1>5. OpFollows'
  BY <1>1, <1>3 DEF OpFollows
<1> QED
  BY <1>1, <1>2, <1>4, <1>5 DEF NodeIInv, CleanPack, IndexFollows, StoreStep

\* A stored copy that stops matching its hash is lost, and no other.
LEMMA DamageStep ==
  ASSUME NodeAssumption, NodeIInv, NEW h \in Hashes, NodeDamage(h)
  PROVE  NodeIInv' /\ StoreStep
<1> DEFINE r == packs[current]
<1>1. /\ Types /\ pack = current /\ CleanPack /\ IndexFollows /\ OpFollows /\ up /\ op = NoOp
      /\ UNCHANGED <<current, pack, index, needsRecovery, op, up>> /\ acked' = acked \ {h}
  BY DEF NodeIInv, NodeDamage
<1>2. ~needsRecovery => NoTorn(r) /\ \A g \in Hashes : IndexOK(g)
  BY <1>1 DEF CleanPack, IndexFollows, Trusted, Touched, NoOp
<1>3. r \in Seq(Record) /\ OnDisk = Kept(Complete(r), large)
  BY <1>1, DurableIsKept DEF Types
<1>4. OpFollows'
  BY <1>1 DEF OpFollows, NoOp
<1>5. CASE h \in Small
  <2>1. PICK i \in LastOf(Complete(r), h) : packs' = [packs EXCEPT ![current][i].kind = "bad"]
    BY <1>5 DEF NodeDamage
  <2>2. large' = large
    BY <1>5 DEF NodeDamage
  <2> HIDE DEF r
  <2>3. PICK s : s = [r EXCEPT ![i] = [r[i] EXCEPT !.kind = "bad"]]
    OBVIOUS
  <2>10. packs' = [packs EXCEPT ![current] = s]
    BY <2>1, <2>3 DEF r
  <2>11. DamagedAt(r, i, h, large, s)
    BY <1>3, <1>5, <2>3, KeptDamaged
  <2>4. /\ s \in Seq(Record) /\ Len(s) = Len(r) /\ \A g : LastOf(s, g) = LastOf(r, g)
        /\ \A j \in 1..Len(r) : s[j] = IF j = i THEN Rec("bad", h) ELSE r[j]
        /\ NoTorn(r) => NoTorn(s)
        /\ Kept(Complete(s), large) = Kept(Complete(r), large) \ {h}
    BY <2>11 DEF DamagedAt
  <2>5. packs'[current'] = s /\ DOMAIN packs' = DOMAIN packs /\ packs' \in [DOMAIN packs -> Seq(Record)]
    BY <1>1, <2>10, <2>4 DEF Types
  <2> USE DEF r
  <2>6. Types'
    BY <1>1, <2>2, <2>5 DEF Types, OpOK
  <2>7. OnDisk' = OnDisk \ {h}
    BY <1>3, <2>2, <2>4, <2>5, <2>6, DurableIsKept
  <2>8. ASSUME ~needsRecovery, NEW g \in Hashes PROVE IndexOK(g)'
    <3>1. IndexOK(g) /\ NoTorn(r) /\ index'[g] = index[g]
      BY <1>1, <1>2, <2>8
    <3>2. CASE g \notin Small
      BY <2>2, <3>1, <3>2 DEF IndexOK
    <3>3. CASE g \in Small /\ index[g] = 0
      <4>1. Complete(r) = r /\ Complete(s) = s
        BY <1>3, <2>4, <3>1, CompleteClean
      <4>2. ~Keeps(r, g)
        BY <3>1, <3>3 DEF IndexOK
      <4>3. ~Keeps(s, g)
        BY <2>4, <3>3, <4>1, <4>2 DEF Kept
      <4> QED
        BY <2>5, <3>1, <3>3, <4>3 DEF IndexOK
    <3>4. CASE g \in Small /\ index[g] # 0
      <4>1. index[g] \in LastOf(r, g) /\ r[index[g]].kind \in {"put", "bad"}
        BY <3>1, <3>4 DEF IndexOK
      <4>2. index[g] \in 1..Len(r)
        BY <4>1 DEF LastOf
      <4>3. s[index[g]].kind \in {"put", "bad"}
        BY <2>4, <4>1, <4>2 DEF Rec
      <4> QED
        BY <2>4, <2>5, <3>1, <3>4, <4>1, <4>3 DEF IndexOK
    <3> QED
      BY <3>2, <3>3, <3>4
  <2>9. CleanPack' /\ IndexFollows'
    BY <1>1, <1>2, <2>4, <2>5, <2>8 DEF CleanPack, IndexFollows, Trusted, NoOp
  <2> QED
    BY <1>1, <1>4, <2>6, <2>7, <2>9 DEF NodeIInv, StoreStep, Promise!Next, Promise!Erase
<1>6. CASE h \notin Small
  <2>1. packs' = packs /\ large' = large \ {h}
    BY <1>6 DEF NodeDamage
  <2>2. Types'
    BY <1>1, <2>1 DEF Types, OpOK
  <2>3. OnDisk' = OnDisk \ {h}
    BY <1>1, <1>3, <1>6, <2>1, <2>2, DurableIsKept DEF Kept
  <2>4. ~needsRecovery => \A g \in Hashes : IndexOK(g)'
    BY <1>1, <1>2, <2>1 DEF IndexOK
  <2>5. CleanPack' /\ IndexFollows'
    BY <1>1, <1>2, <2>1, <2>4 DEF CleanPack, IndexFollows, Trusted, NoOp
  <2> QED
    BY <1>1, <1>4, <2>2, <2>3, <2>5 DEF NodeIInv, StoreStep, Promise!Next, Promise!Erase
<1> QED
  BY <1>5, <1>6

-----------------------------------------------------------------------------
(***************************************************************************)
(* The theorems.                                                           *)
(***************************************************************************)

\* Every step keeps the invariant and is a step of ChunkStore or leaves it alone.
LEMMA NodeSteps ==
  ASSUME NodeAssumption, NodeIInv, [NodeNext]_nodeVars
  PROVE  NodeIInv' /\ StoreStep
<1>1. CASE UNCHANGED nodeVars
  <2>1. OnDisk' = OnDisk /\ acked' = acked
    BY <1>1, SameDisk DEF nodeVars, disk
  <2>2. \A h \in Hashes : (IndexOK(h)' <=> IndexOK(h)) /\ (Touched(h)' <=> Touched(h))
    BY <1>1 DEF nodeVars, IndexOK, Touched
  <2>3. NodeIInv'
    BY <1>1, <2>2 DEF NodeIInv, nodeVars, Types, OpOK, CleanPack, IndexFollows, Trusted, OpFollows
  <2> QED
    BY <2>1, <2>3 DEF StoreStep
<1>2. CASE \E h \in Hashes : Put(h) \/ CollectWrites(h) \/ NodeDamage(h)
  BY <1>2, PutStep, CollectWritesStep, DamageStep
<1>3. CASE \E S \in SUBSET Hashes : Collect(S)
  BY <1>3, CollectStep
<1>4. CASE PutWrites \/ PutIndexes \/ CollectUnindexes
  BY <1>4, PutWritesStep, PutIndexesStep, CollectUnindexesStep
<1>5. CASE WriteFails \/ TruncateFails \/ IndexFails
  BY <1>5, WriteFailsStep, TruncateFailsStep, IndexFailsStep
<1>6. CASE Compact \/ CompactSwitches \/ CompactSwitchRaises \/ CompactRecovers \/ CompactUnlinks
  BY <1>6, CompactStep, CompactSwitchesStep, CompactSwitchRaisesStep, CompactRecoversStep, CompactUnlinksStep
<1>7. CASE NodeCrash \/ Start
  BY <1>7, CrashStep, StartStep
<1> QED
  BY <1>1, <1>2, <1>3, <1>4, <1>5, <1>6, <1>7 DEF NodeNext

\* The index, the pack and the operation under way stay related (node.py).
THEOREM NodeInvariant == ASSUME NodeAssumption PROVE NodeSpec => []NodeIInv
<1>1. NodeInit => NodeIInv
  BY InitNodeIInv
<1>2. NodeIInv /\ [NodeNext]_nodeVars => NodeIInv'
  BY NodeSteps
<1> QED
  BY <1>1, <1>2, PTL DEF NodeSpec

\* What a PUT acknowledged survives every crash, failed write and compaction
\* until it is collected or damaged (node.py put, Service.put relies on it).
THEOREM AcknowledgedIsDurable == ASSUME NodeAssumption PROVE NodeSpec => []AckedDurable
<1>1. NodeInit => AckedDurable
  BY InitNodeIInv DEF AckedDurable, NodeInit
<1>2. AckedDurable /\ NodeIInv /\ [NodeNext]_nodeVars => AckedDurable'
  <2> SUFFICES ASSUME AckedDurable, StoreStep PROVE AckedDurable'
    BY NodeSteps
  <2> QED
    BY DEF AckedDurable, StoreStep, Promise!Next, Promise!Write, Promise!Acknowledge, Promise!Withdraw, Promise!Erase
<1> QED
  BY <1>1, <1>2, NodeInvariant, PTL DEF NodeSpec

\* A node serves exactly what a restart would rebuild from its files, has
\* what it acknowledged on disk, and implements ChunkStore (node.py put, collect,
\* compact, _append, _recover).
THEOREM NodeImplements == ASSUME NodeAssumption PROVE NodeSpec => NodeRefines
<1>1. NodeIInv => ServesWhatItKeeps
  <2> SUFFICES ASSUME NodeIInv, Free PROVE {h \in Hashes : Served(h)} = OnDisk
    BY DEF ServesWhatItKeeps
  <2>1. Types /\ NoTorn(packs[current])
    BY DEF NodeIInv, CleanPack, Free
  <2>2. OnDisk = Kept(packs[current], large)
    BY <2>1, CleanDurable
  <2>3. \A h \in Hashes : Served(h) <=> h \in Kept(packs[current], large)
    BY ServedIsKept
  <2>4. Kept(packs[current], large) \subseteq Hashes
    BY DEF Kept
  <2> QED
    BY <2>2, <2>3, <2>4
<1>2. NodeIInv => NodeTypeOK
  <2> SUFFICES ASSUME NodeIInv PROVE NodeTypeOK
    OBVIOUS
  <2>1. Types /\ pack = current
    BY DEF NodeIInv
  <2>2. op.kind \in {"idle", "put", "collect", "compact"}
    BY <2>1 DEF Types, OpOK, NoOp
  <2>3. \A p \in DOMAIN packs : packs[p] \in Seq(Record)
    BY <2>1 DEF Types
  <2> QED
    BY <2>1, <2>2, <2>3 DEF Types, Record, NodeTypeOK
<1>3. NodeInit => Promise!Init
  BY InitNodeIInv
<1>4. NodeIInv /\ [NodeNext]_nodeVars => [Promise!Next]_(Promise!storeVars)
  BY NodeSteps DEF StoreStep, Promise!storeVars
<1> QED
  BY <1>1, <1>2, <1>3, <1>4, NodeInvariant, AcknowledgedIsDurable, PTL DEF NodeSpec, NodeRefines, ImplementsChunkStore, Promise!Spec

-----------------------------------------------------------------------------
(***************************************************************************)
(* The coordinator, the catalog and the metadata shard.                    *)
(***************************************************************************)
Intents == [manifest : Seq(Chunks), marker : BOOLEAN, done : BOOLEAN]
VersionRecords == [key : Keys, chunks : SUBSET Chunks, marker : BOOLEAN, removed : BOOLEAN]
PartLists == UNION {[D -> Chunks] : D \in SUBSET Nat}
UploadRecords ==
  [state : {"none", "active", "completing", "complete", "aborted"}, expired : BOOLEAN, parts : PartLists]

\* The requests a thread of the coordinator serves.
PutOps == [phase : {"store", "prepare", "send"}, chunk : Chunks, key : Keys, upload : {None},
           manifest : Seq(Chunks), marker : {FALSE}]
DeleteOps == [phase : {"prepare", "send"}, key : Keys, upload : {None}, manifest : Seq(Chunks), marker : {TRUE}]
PartOps == [phase : {"store", "add"}, chunk : Chunks, key : Keys, upload : Uploads, number : Nat]
CompleteOps == [phase : {"freeze", "prepare", "send", "complete"}, key : Keys, upload : Uploads,
                manifest : Seq(Chunks), marker : {FALSE}]
ReadOps == [phase : {"reading"}, chunks : SUBSET Chunks]
OpRecords == {Idle} \cup PutOps \cup DeleteOps \cup PartOps \cup CompleteOps \cup ReadOps

AdminRecords ==
  {Idle} \cup [phase : {"waiting"}, task : {"replay", "drop"}]
         \cup [phase : {"replay", "resume", "drop", "dropping"}]
         \cup [phase : {"mark"}, gens : [Nodes -> Nat]]
         \cup [phase : {"repair", "sweep"}, gens : [Nodes -> Nat], live : SUBSET Chunks]

LatePuts == [kind : {"put"}, node : Nodes, chunk : Chunks]
LateCollects == [kind : {"collect"}, node : Nodes, live : SUBSET Chunks, gen : Nat]
LatePublishes == [kind : {"publish"}, key : Keys]

StorageTypes ==
  /\ bucket \in {"open", "deleted"}
  /\ pubs \in [Keys -> Intents \cup {None}]
  /\ versions \in Seq(VersionRecords)
  /\ uploads \in [Uploads -> UploadRecords]
  /\ stored \in [Nodes -> SUBSET Chunks] /\ gen \in [Nodes -> Nat]
  /\ IsFiniteSet(late) /\ late \subseteq LatePuts \cup LateCollects \cup LatePublishes
  /\ ops \in [Clients -> OpRecords]
  /\ admin \in AdminRecords
  /\ lost \in Nat

\* The exclusive guard.
Exclusive == admin.phase \notin {"idle", "waiting"} => \A c \in Clients : ops[c] = Idle

\* A version is that of the intent of its key, and a key has one.
VersionsFollow ==
  /\ \A i \in 1..Len(versions) :
       LET k == versions[i].key IN pubs[k] # None /\ versions[i].chunks = RangeOf(pubs[k].manifest)
  /\ PublishedOnce
  /\ \A k \in Keys : pubs[k] # None /\ pubs[k].done => Published(k)
  /\ \A m \in late : m.kind = "publish" => pubs[m.key] # None

\* A thread that publishes has made its intent.
OpFollowsIntent(c) ==
  /\ ops[c].phase \in {"send", "complete"} =>
       pubs[ops[c].key] # None /\ SameContent(pubs[ops[c].key], ops[c].manifest, ops[c].marker)
  /\ ops[c].phase = "complete" => pubs[ops[c].key].done
  /\ ops[c].phase \in {"freeze", "prepare", "send", "complete"} /\ ops[c].upload # None =>
       ops[c].key = UploadKey[ops[c].upload] /\ ops[c].manifest = Declared[ops[c].upload]
  /\ ops[c].phase = "freeze" => uploads[ops[c].upload].parts = Declared[ops[c].upload]
  /\ ops[c].phase = "store" /\ ops[c].upload = None => ops[c].manifest = <<ops[c].chunk>>

\* The intent of an upload is closed.
Closed(u) ==
  LET p == pubs[UploadKey[u]] IN p # None /\ p.done /\ p.manifest = Declared[u]

\* An upload gets parts after it is started; a frozen one has all of them.
UploadFollows(u) ==
  /\ uploads[u].state = "none" => DOMAIN uploads[u].parts = {}
  /\ uploads[u].state = "completing" => uploads[u].parts = Declared[u]
  /\ uploads[u].state = "complete" => Closed(u)

Settled == \A u \in Uploads : uploads[u].state \notin {"active", "completing"}

BucketFollows ==
  /\ admin.phase = "dropping" /\ Pending = {} => LiveVersions = {}
  /\ bucket = "deleted" =>
       Pending = {} /\ Settled /\ LiveVersions = {} /\ \A c \in Clients : ops[c] = Idle

\* What maintenance has replayed before it marks.
ReplayFollows ==
  /\ admin.phase = "resume" => \A k \in Pending : \E u \in Completing : UploadKey[u] = k
  /\ admin.phase \in {"mark", "repair", "sweep"} => Pending = {}

PublicationIInv ==
  /\ StorageTypes /\ Exclusive /\ VersionsFollow
  /\ \A c \in Clients : OpFollowsIntent(c)
  /\ \A u \in Uploads : UploadFollows(u)
  /\ BucketFollows /\ ReplayFollows

\* Why a chunk is needed: a version that is not removed, an intent that is not
\* closed, a part of an upload that can complete, a request under way.
NeededByVersion(x, vs) == \E i \in 1..Len(vs) : ~vs[i].removed /\ x \in vs[i].chunks
NeededByIntent(x, ps) == \E k \in Keys : ps[k] # None /\ ~ps[k].done /\ x \in RangeOf(ps[k].manifest)
NeededByUpload(x, us) ==
  \E u \in Uploads : /\ us[u].state \in {"active", "completing"}
                     /\ \E n \in DOMAIN us[u].parts : us[u].parts[n] = x
NeededByOp(x, o) ==
  \/ o.phase = "prepare" /\ x \in RangeOf(o.manifest)
  \/ o.phase = "add" /\ x = o.chunk
  \/ o.phase = "reading" /\ x \in o.chunks
Needed(x, ps, vs, us, os) ==
  \/ NeededByVersion(x, vs) \/ NeededByIntent(x, ps) \/ NeededByUpload(x, us)
  \/ \E c \in Clients : NeededByOp(x, os[c])

\* The nodes on which no collection that may still run can remove a chunk.
Threatens(m, n, x, g) == m.kind = "collect" /\ m.node = n /\ m.gen = g /\ x \notin m.live
SweepThreatens(ad, n, x, g) == ad.phase \in {"repair", "sweep"} /\ ad.gens[n] = g /\ x \notin ad.live
SafeOn(x, st, gs, ms, ad) ==
  {n \in Nodes : /\ x \in st[n]
                 /\ \A m \in ms : ~Threatens(m, n, x, gs[n])
                 /\ ~SweepThreatens(ad, n, x, gs[n])}
Enough(S, damage) == Cardinality(S) + damage >= Quorum

NeededIsSafe ==
  \A x \in Chunks : Needed(x, pubs, versions, uploads, ops) => Enough(SafeOn(x, stored, gen, late, admin), lost)

\* The image of a finite set is finite.
LEMMA FiniteImage ==
  ASSUME NEW S, IsFiniteSet(S), NEW f, f = [x \in S |-> f[x]]
  PROVE  IsFiniteSet({f[x] : x \in S})
<1> DEFINE T == {f[x] : x \in S}
<1>1. f \in Surjection(S, T)
  BY DEF Surjection
<1> QED
  BY <1>1, FS_Surjection

\* The generation of a node after a change is one that nobody holds.
LEMMA FreshIsNew ==
  ASSUME StorageTypes, NEW n \in Nodes
  PROVE  FreshGen(n) \in Nat /\ FreshGen(n) \notin Held(n)
<1> DEFINE H == Held(n)
           M == {x \in late : x.kind = "collect" /\ x.node = n}
           f == [m \in M |-> m.gen]
<1>1. IsFiniteSet(M)
  BY FS_Subset DEF StorageTypes
<1>2. IsFiniteSet({f[m] : m \in M})
  <2>1. f = [m \in M |-> f[m]]
    OBVIOUS
  <2> HIDE DEF f, M
  <2> QED
    BY <1>1, <2>1, FiniteImage
<1>3. {f[m] : m \in M} = {m.gen : m \in M}
  OBVIOUS
<1>4. IsFiniteSet({admin.gens[n]})
  BY FS_Singleton
<1>5. IsFiniteSet(H)
  BY <1>2, <1>3, <1>4, FS_Union, FS_EmptySet DEF Held
<1>6. Cardinality(H) \in Nat
  BY <1>5, FS_CardinalityType
<1> DEFINE N == 0..Cardinality(H)
           T == N \ H
<1>7. T # {}
  <2> SUFFICES ASSUME T = {} PROVE FALSE
    OBVIOUS
  <2>1. Cardinality(N) = Cardinality(H) + 1
    BY <1>6, FS_Interval
  <2>2. N \subseteq H
    OBVIOUS
  <2>3. Cardinality(N) <= Cardinality(H)
    BY <1>5, <2>2, FS_Subset
  <2> QED
    BY <1>6, <2>1, <2>3
<1>8. T \subseteq Nat
  BY <1>6
<1>9. \E g \in T : \A h \in T : g <= h
  BY <1>7, <1>8, MinNat
<1>10. PICK g \in T : \A h \in T : g <= h
  BY <1>9
<1>11. \A h \in 0..(g - 1) : h \in H
  <2> SUFFICES ASSUME NEW h \in 0..(g - 1), h \notin H PROVE FALSE
    OBVIOUS
  <2>1. h \in N /\ h < g
    BY <1>6, <1>8
  <2> QED
    BY <1>6, <1>8, <1>10, <2>1
<1>12. \E k \in N : k \notin H /\ \A h \in 0..(k - 1) : h \in H
  BY <1>10, <1>11
<1>13. FreshGen(n) \in N /\ FreshGen(n) \notin H
  BY <1>12 DEF FreshGen
<1> QED
  BY <1>6, <1>13

\* No collection that may still run is for the new generation.
LEMMA FreshIsSafe ==
  ASSUME StorageTypes, NEW n \in Nodes, NEW x
  PROVE  /\ \A m \in late : ~Threatens(m, n, x, FreshGen(n))
         /\ ~SweepThreatens(admin, n, x, FreshGen(n))
<1>1. FreshGen(n) \notin Held(n)
  BY FreshIsNew
<1> QED
  BY <1>1 DEF Held, Threatens, SweepThreatens

LEMMA EnoughGrows ==
  ASSUME Assumption, NEW S \in SUBSET Nodes, NEW T \in SUBSET Nodes, S \subseteq T,
         NEW d \in Nat, Enough(S, d)
  PROVE  Enough(T, d)
<1>1. IsFiniteSet(T) /\ IsFiniteSet(S)
  BY FS_Subset DEF Assumption
<1>2. Cardinality(S) <= Cardinality(T) /\ Cardinality(S) \in Nat /\ Cardinality(T) \in Nat
  BY <1>1, FS_Subset, FS_CardinalityType
<1>3. Quorum \in Int
  BY FS_CardinalityType DEF Assumption
<1> QED
  BY <1>2, <1>3 DEF Enough

\* The phase of a thread says which request it serves.
LEMMA OpKinds ==
  ASSUME NEW o \in OpRecords
  PROVE  /\ o.phase = "store" => o \in PutOps \/ o \in PartOps
         /\ o.phase \in {"prepare", "send"} => o \in PutOps \/ o \in DeleteOps \/ o \in CompleteOps
         /\ o.phase = "add" => o \in PartOps
         /\ o.phase \in {"freeze", "complete"} => o \in CompleteOps
         /\ o.phase = "reading" => o \in ReadOps
         /\ o.phase = "idle" => o = Idle
<1>1. o \in PutOps => o.phase \in {"store", "prepare", "send"}
  BY DEF PutOps
<1>3. o \in DeleteOps => o.phase \in {"prepare", "send"}
  BY DEF DeleteOps
<1>4. o \in PartOps => o.phase \in {"store", "add"}
  BY DEF PartOps
<1>5. o \in CompleteOps => o.phase \in {"freeze", "prepare", "send", "complete"}
  BY DEF CompleteOps
<1>6. o \in ReadOps => o.phase = "reading"
  BY DEF ReadOps
<1>7. o = Idle => o.phase = "idle"
  BY DEF Idle
<1>2. o = Idle \/ o \in PutOps \/ o \in DeleteOps \/ o \in PartOps \/ o \in CompleteOps \/ o \in ReadOps
  BY DEF OpRecords
<1> QED
  BY <1>1, <1>2, <1>3, <1>4, <1>5, <1>6, <1>7

\* A thread goes on to the next phase of the same request.
LEMMA OpMoves ==
  ASSUME NEW o \in OpRecords
  PROVE  /\ o.phase = "store" /\ o.upload = None /\ None \notin Uploads => [o EXCEPT !.phase = "prepare"] \in OpRecords
         /\ o.phase = "store" /\ o.upload # None => [o EXCEPT !.phase = "add"] \in OpRecords
         /\ o.phase = "prepare" => [o EXCEPT !.phase = "send"] \in OpRecords
         /\ o.phase = "freeze" => [o EXCEPT !.phase = "prepare"] \in OpRecords
         /\ o.phase = "send" /\ o.upload # None => [o EXCEPT !.phase = "complete"] \in OpRecords
<1>1. /\ \A q \in PutOps : [q EXCEPT !.phase = "prepare"] \in PutOps /\ [q EXCEPT !.phase = "send"] \in PutOps
      /\ \A q \in DeleteOps : [q EXCEPT !.phase = "send"] \in DeleteOps
      /\ \A q \in PartOps : [q EXCEPT !.phase = "add"] \in PartOps
      /\ \A q \in CompleteOps : /\ [q EXCEPT !.phase = "prepare"] \in CompleteOps
                                /\ [q EXCEPT !.phase = "send"] \in CompleteOps
                                /\ [q EXCEPT !.phase = "complete"] \in CompleteOps
  BY DEF PutOps, DeleteOps, PartOps, CompleteOps
<1>2. /\ o \in PutOps \/ o \in DeleteOps => o.upload = None
      /\ o \in PartOps \/ o \in CompleteOps => o.upload \in Uploads
  BY DEF PutOps, DeleteOps, PartOps, CompleteOps
<1> QED
  BY <1>1, <1>2, OpKinds DEF OpRecords

\* The phase of maintenance says what it has read.
LEMMA AdminKinds ==
  ASSUME admin \in AdminRecords
  PROVE  /\ admin.phase = "waiting" => admin.task \in {"replay", "drop"}
         /\ admin.phase = "mark" => admin.gens \in [Nodes -> Nat]
         /\ admin.phase \in {"repair", "sweep"} => /\ admin.gens \in [Nodes -> Nat] /\ admin.live \in SUBSET Chunks
                                                   /\ [admin EXCEPT !.phase = "sweep"] \in AdminRecords
BY DEF AdminRecords, Idle

LEMMA PartsInChunks ==
  ASSUME NEW p \in PartLists
  PROVE  /\ \A n \in DOMAIN p : p[n] \in Chunks
         /\ DOMAIN p \subseteq Nat
BY DEF PartLists

LEMMA RangeInChunks ==
  ASSUME NEW s \in Seq(Chunks)
  PROVE  RangeOf(s) \in SUBSET Chunks
BY DEF RangeOf

\* What the metadata shard does with a publication.
Added(V, k) ==
  /\ V \in Seq(VersionRecords)
  /\ Len(versions) <= Len(V)
  /\ \A i \in 1..Len(versions) : V[i] = versions[i]
  /\ \A i \in 1..Len(V) : i > Len(versions) =>
       /\ ~Published(k) /\ i = Len(versions) + 1
       /\ V[i].key = k /\ V[i].chunks = RangeOf(pubs[k].manifest) /\ ~V[i].removed
  /\ \E i \in 1..Len(V) : V[i].key = k

LEMMA PublishAdds ==
  ASSUME StorageTypes, NEW k \in Keys, pubs[k] # None
  PROVE  Added(MetaPublish(k), k)
<1>1. versions \in Seq(VersionRecords) /\ Len(versions) \in Nat
  BY DEF StorageTypes
<1>2. pubs[k] \in Intents
  BY DEF StorageTypes
<1>3. CASE Published(k)
  BY <1>1, <1>3 DEF Added, MetaPublish, Published
<1>4. CASE ~Published(k)
  <2> DEFINE r == [key |-> k, chunks |-> RangeOf(pubs[k].manifest), marker |-> pubs[k].marker, removed |-> FALSE]
  <2>1. r \in VersionRecords
    BY <1>2, RangeInChunks DEF VersionRecords, Intents
  <2>2. MetaPublish(k) = Append(versions, r)
    BY <1>4 DEF MetaPublish
  <2>3. r.key = k /\ r.chunks = RangeOf(pubs[k].manifest) /\ ~r.removed
    OBVIOUS
  <2> HIDE DEF r
  <2>4. /\ Append(versions, r) \in Seq(VersionRecords)
        /\ Len(Append(versions, r)) = Len(versions) + 1
        /\ \A i \in 1..Len(versions) : Append(versions, r)[i] = versions[i]
        /\ Append(versions, r)[Len(versions) + 1] = r
    BY <1>1, <2>1
  <2> QED
    BY <1>1, <1>4, <2>2, <2>3, <2>4 DEF Added
<1> QED
  BY <1>3, <1>4

\* What a node does keeps the types.
LEMMA PutOnTypes ==
  ASSUME StorageTypes, NEW S, NEW x \in Chunks, PutOn(S, x)
  PROVE  stored' \in [Nodes -> SUBSET Chunks] /\ gen' \in [Nodes -> Nat]
<1>1. \A n \in Nodes : FreshGen(n) \in Nat
  BY FreshIsNew
<1> QED
  BY <1>1 DEF PutOn, StorageTypes

LEMMA CollectOnTypes ==
  ASSUME StorageTypes, NEW S, NEW live, NEW gs, CollectOn(S, live, gs)
  PROVE  stored' \in [Nodes -> SUBSET Chunks] /\ gen' \in [Nodes -> Nat]
<1>1. \A n \in Nodes : FreshGen(n) \in Nat
  BY FreshIsNew
<1>2. PICK kept \in SUBSET (Chunks \ live) :
        stored' = [n \in Nodes |-> IF n \in S /\ gs[n] = gen[n] THEN stored[n] \cap (live \cup kept) ELSE stored[n]]
  BY DEF CollectOn
<1>3. gen' = [n \in Nodes |-> IF n \in S /\ gs[n] = gen[n] THEN FreshGen(n) ELSE gen[n]]
  BY DEF CollectOn
<1> QED
  BY <1>1, <1>2, <1>3 DEF StorageTypes

\* A publication keeps the types.
LEMMA SendTypes ==
  ASSUME StorageTypes, NEW k \in Keys, pubs[k] # None, NEW o, SendPublication(k, o)
  PROVE  /\ pubs' \in [Keys -> Intents \cup {None}] /\ versions' \in Seq(VersionRecords)
         /\ IsFiniteSet(late') /\ late' \subseteq LatePuts \cup LateCollects \cup LatePublishes
<1>1. pubs[k] \in Intents
  BY DEF StorageTypes
<1>2. [pubs[k] EXCEPT !.done = TRUE] \in Intents
  BY <1>1 DEF Intents
<1>3. pubs' \in [Keys -> Intents \cup {None}]
  BY <1>2 DEF SendPublication, StorageTypes
<1>4. versions' \in Seq(VersionRecords)
  BY PublishAdds DEF SendPublication, StorageTypes, Added
<1>5. LatePublish(k) \in LatePublishes
  BY DEF LatePublish, LatePublishes
<1>6. IsFiniteSet(late \cup {LatePublish(k)})
  BY FS_AddElement DEF StorageTypes
<1> QED
  BY <1>3, <1>4, <1>5, <1>6 DEF SendPublication, StorageTypes

\* Late requests to some of the nodes.
LEMMA LateTypes ==
  ASSUME Assumption, StorageTypes, NEW L \in SUBSET Nodes, NEW f, f = [n \in L |-> f[n]],
         \A n \in L : f[n] \in LatePuts \cup LateCollects,
         late' = late \cup {f[n] : n \in L}
  PROVE  IsFiniteSet(late') /\ late' \subseteq LatePuts \cup LateCollects \cup LatePublishes
<1>1. IsFiniteSet(L)
  BY FS_Subset DEF Assumption
<1>2. IsFiniteSet({f[n] : n \in L})
  BY <1>1, FiniteImage
<1> QED
  BY <1>2, FS_Union DEF StorageTypes

LEMMA UploadTypes ==
  ASSUME NEW r \in UploadRecords, NEW s \in {"none", "active", "completing", "complete", "aborted"}
  PROVE  [r EXCEPT !.state = s] \in UploadRecords /\ [r EXCEPT !.expired = TRUE] \in UploadRecords
BY DEF UploadRecords

\* Requests of clients keep the types.
LEMMA ClientTypes ==
  ASSUME Assumption, StorageTypes, \A c \in Clients : OpFollowsIntent(c), NEW c \in Clients, ClientNext(c)
  PROVE  StorageTypes'
<1> DEFINE o == ops[c]
<1>1. o \in OpRecords
  BY DEF StorageTypes
<1>2. CASE \E k \in Requests, x \in Chunks : PutRequest(c, k, x)
  <2>1. PICK k \in Requests, x \in Chunks : PutRequest(c, k, x)
    BY <1>2
  <2> DEFINE r == [phase |-> "store", chunk |-> x, key |-> k, upload |-> None, manifest |-> <<x>>, marker |-> FALSE]
  <2>2. <<x>> \in Seq(Chunks) /\ k \in Keys
    BY DEF Keys
  <2>3. r \in PutOps
    BY <2>2 DEF PutOps
  <2>4. r \in OpRecords
    BY <2>3 DEF OpRecords
  <2> HIDE DEF r
  <2> QED
    BY <2>1, <2>4 DEF PutRequest, Enter, StorageTypes, r
<1>3. CASE \E k \in Deletes : DeleteRequest(c, k)
  <2>1. PICK k \in Deletes : DeleteRequest(c, k)
    BY <1>3
  <2> DEFINE r == [phase |-> "prepare", key |-> k, upload |-> None, manifest |-> <<>>, marker |-> TRUE]
  <2>2. <<>> \in Seq(Chunks) /\ k \in Keys
    BY DEF Keys
  <2>3. r \in DeleteOps
    BY <2>2 DEF DeleteOps
  <2>4. r \in OpRecords
    BY <2>3 DEF OpRecords
  <2> HIDE DEF r
  <2> QED
    BY <2>1, <2>4 DEF DeleteRequest, Enter, StorageTypes, r
<1>4. CASE Store(c)
  <2>1. PICK S \in SUBSET Nodes : \E L \in SUBSET (Nodes \ S) :
          /\ PutOn(S, o.chunk)
          /\ late' = late \cup {[kind |-> "put", node |-> n, chunk |-> o.chunk] : n \in L}
          /\ IF Cardinality(S) < Quorum THEN Leave(c)
             ELSE ops' = [ops EXCEPT ![c].phase = IF o.upload = None THEN "prepare" ELSE "add"]
    BY <1>4 DEF Store
  <2>10. PICK L \in SUBSET (Nodes \ S) :
          /\ PutOn(S, o.chunk)
          /\ late' = late \cup {[kind |-> "put", node |-> n, chunk |-> o.chunk] : n \in L}
          /\ IF Cardinality(S) < Quorum THEN Leave(c)
             ELSE ops' = [ops EXCEPT ![c].phase = IF o.upload = None THEN "prepare" ELSE "add"]
    BY <2>1
  <2>2. o.phase = "store" /\ UNCHANGED <<bucket, pubs, versions, uploads, admin, lost>>
    BY <1>4 DEF Store
  <2>3. o.chunk \in Chunks
    BY <1>1, <2>2, OpKinds DEF PutOps, PartOps
  <2>4. stored' \in [Nodes -> SUBSET Chunks] /\ gen' \in [Nodes -> Nat]
    BY <2>10, <2>3, PutOnTypes
  <2> DEFINE f == [n \in L |-> [kind |-> "put", node |-> n, chunk |-> o.chunk]]
  <2>5. \A n \in L : f[n] \in LatePuts
    BY <2>3 DEF LatePuts
  <2>6. late' = late \cup {f[n] : n \in L}
    BY <2>10
  <2>7. f = [n \in L |-> f[n]]
    OBVIOUS
  <2> HIDE DEF f
  <2>8. IsFiniteSet(late') /\ late' \subseteq LatePuts \cup LateCollects \cup LatePublishes
    BY <2>5, <2>6, <2>7, LateTypes
  <2>9. ops' \in [Clients -> OpRecords]
    <3>1. Idle \in OpRecords
      BY DEF OpRecords
    <3>2. [o EXCEPT !.phase = IF o.upload = None THEN "prepare" ELSE "add"] \in OpRecords
      BY <1>1, <2>2, OpMoves DEF Assumption
    <3> QED
      BY <2>10, <3>1, <3>2 DEF Leave, StorageTypes
  <2> QED
    BY <2>2, <2>4, <2>8, <2>9 DEF StorageTypes
<1>5. CASE PrepareRequest(c)
  <2>1. o.phase = "prepare" /\ UNCHANGED <<bucket, versions, uploads, stored, gen, late, admin, lost>>
    BY <1>5 DEF PrepareRequest
  <2>2. o.key \in Keys /\ o.manifest \in Seq(Chunks) /\ o.marker \in BOOLEAN
    BY <1>1, <2>1, OpKinds DEF PutOps, DeleteOps, CompleteOps
  <2>3. Intent(o.manifest, o.marker) \in Intents
    BY <2>2 DEF Intent, Intents
  <2>4. pubs' \in [Keys -> Intents \cup {None}]
    BY <1>5, <2>2, <2>3 DEF PrepareRequest, Prepare, StorageTypes
  <2>5. Idle \in OpRecords /\ [o EXCEPT !.phase = "send"] \in OpRecords
    BY <1>1, <2>1, OpMoves DEF OpRecords
  <2>6. ops' \in [Clients -> OpRecords]
    BY <1>5, <2>5 DEF PrepareRequest, Leave, StorageTypes
  <2> QED
    BY <2>1, <2>4, <2>6 DEF StorageTypes
<1>6. CASE \E out \in Outcomes : PublishRequest(c, out)
  <2>1. PICK out \in Outcomes : PublishRequest(c, out)
    BY <1>6
  <2>2. o.phase = "send" /\ SendPublication(o.key, out) /\ UNCHANGED <<bucket, uploads, stored, gen, admin, lost>>
    BY <2>1 DEF PublishRequest
  <2>3. o.key \in Keys /\ pubs[o.key] # None
    BY <1>1, <2>2, OpKinds DEF PutOps, DeleteOps, CompleteOps, OpFollowsIntent
  <2>4. /\ pubs' \in [Keys -> Intents \cup {None}] /\ versions' \in Seq(VersionRecords)
        /\ IsFiniteSet(late') /\ late' \subseteq LatePuts \cup LateCollects \cup LatePublishes
    BY <2>2, <2>3, SendTypes
  <2>5. Idle \in OpRecords /\ (o.upload # None => [o EXCEPT !.phase = "complete"] \in OpRecords)
    BY <1>1, <2>2, OpMoves DEF OpRecords
  <2>6. ops' \in [Clients -> OpRecords]
    BY <2>1, <2>5 DEF PublishRequest, Leave, StorageTypes
  <2> QED
    BY <2>2, <2>4, <2>6 DEF StorageTypes
<1>7. CASE GetRequest(c)
  <2>1. PICK i \in LiveVersions : Enter(c, [phase |-> "reading", chunks |-> versions[i].chunks])
    BY <1>7 DEF GetRequest
  <2>4. i \in 1..Len(versions) /\ versions \in Seq(VersionRecords)
    BY DEF LiveVersions, StorageTypes
  <2>5. versions[i] \in VersionRecords
    BY <2>4
  <2>2. versions[i].chunks \in SUBSET Chunks
    BY <2>5 DEF VersionRecords
  <2>3. [phase |-> "reading", chunks |-> versions[i].chunks] \in OpRecords
    BY <2>2 DEF OpRecords, ReadOps
  <2> QED
    BY <1>7, <2>1, <2>3 DEF GetRequest, Enter, StorageTypes
<1>8. CASE GetAnswer(c)
  BY <1>8 DEF GetAnswer, Leave, StorageTypes, OpRecords
<1>9. CASE \E u \in Uploads, n \in 1..2, x \in Chunks : PartRequest(c, u, n, x)
  <2>1. PICK u \in Uploads, n \in 1..2, x \in Chunks : PartRequest(c, u, n, x)
    BY <1>9
  <2> DEFINE r == [phase |-> "store", chunk |-> x, key |-> UploadKey[u], upload |-> u, number |-> n]
  <2>2. r \in OpRecords
    BY DEF OpRecords, PartOps, Keys
  <2> HIDE DEF r
  <2> QED
    BY <2>1, <2>2 DEF PartRequest, Enter, StorageTypes, r
<1>10. CASE AddPart(c)
  <2>1. o.phase = "add" /\ UNCHANGED <<bucket, pubs, versions, stored, gen, late, admin, lost>> /\ Leave(c)
    BY <1>10 DEF AddPart
  <2> DEFINE u == o.upload
             p == uploads[u].parts
             q == [m \in DOMAIN p \cup {o.number} |-> IF m = o.number THEN o.chunk ELSE p[m]]
  <2>2. u \in Uploads /\ o.number \in Nat /\ o.chunk \in Chunks
    BY <1>1, <2>1, OpKinds DEF PartOps
  <2>3. uploads[u] \in UploadRecords /\ p \in PartLists
    BY <2>2 DEF StorageTypes, UploadRecords
  <2>4. q \in [DOMAIN p \cup {o.number} -> Chunks] /\ DOMAIN p \cup {o.number} \in SUBSET Nat
    BY <2>2, <2>3, PartsInChunks
  <2>5. q \in PartLists
    BY <2>4 DEF PartLists
  <2>6. uploads' = uploads \/ uploads' = [uploads EXCEPT ![u].parts = q]
    BY <1>10 DEF AddPart
  <2> HIDE DEF q, p, u
  <2>7. [uploads[u] EXCEPT !.parts = q] \in UploadRecords
    BY <2>3, <2>5 DEF UploadRecords
  <2>8. uploads' \in [Uploads -> UploadRecords]
    BY <2>2, <2>6, <2>7 DEF StorageTypes
  <2> QED
    BY <2>1, <2>8 DEF Leave, StorageTypes, OpRecords
<1>11. CASE \E u \in Uploads : CompleteRequest(c, u)
  <2>1. PICK u \in Uploads : CompleteRequest(c, u)
    BY <1>11
  <2>2. PICK ph \in {"freeze", "prepare"} :
          Enter(c, [phase |-> ph, key |-> UploadKey[u], upload |-> u, manifest |-> Declared[u], marker |-> FALSE])
    BY <2>1 DEF CompleteRequest
  <2> DEFINE r == [phase |-> ph, key |-> UploadKey[u], upload |-> u, manifest |-> Declared[u], marker |-> FALSE]
  <2>3. UploadKey[u] \in Keys /\ Declared[u] \in Seq(Chunks)
    BY DEF Keys, Assumption
  <2>4. r \in CompleteOps
    BY <2>3 DEF CompleteOps
  <2>5. r \in OpRecords
    BY <2>4 DEF OpRecords
  <2> HIDE DEF r
  <2> QED
    BY <2>1, <2>2, <2>5 DEF CompleteRequest, Enter, StorageTypes, r
<1>12. CASE Freeze(c)
  <2>1. o.phase = "freeze" /\ UNCHANGED <<bucket, pubs, versions, stored, gen, late, admin, lost>>
    BY <1>12 DEF Freeze
  <2>2. o.upload \in Uploads
    BY <1>1, <2>1, OpKinds DEF CompleteOps
  <2>3. [uploads[o.upload] EXCEPT !.state = "completing"] \in UploadRecords
    BY <2>2, UploadTypes DEF StorageTypes
  <2>4. Idle \in OpRecords /\ [o EXCEPT !.phase = "prepare"] \in OpRecords
    BY <1>1, <2>1, OpMoves DEF OpRecords
  <2>5. uploads' \in [Uploads -> UploadRecords] /\ ops' \in [Clients -> OpRecords]
    BY <1>12, <2>2, <2>3, <2>4 DEF Freeze, Leave, StorageTypes
  <2> QED
    BY <2>1, <2>5 DEF StorageTypes
<1>13. CASE MarkComplete(c)
  <2>1. o.phase = "complete"
    BY <1>13 DEF MarkComplete
  <2>2. o.upload \in Uploads
    BY <1>1, <2>1, OpKinds DEF CompleteOps
  <2>3. [uploads[o.upload] EXCEPT !.state = "complete"] \in UploadRecords
    BY <2>2, UploadTypes DEF StorageTypes
  <2> QED
    BY <1>13, <2>2, <2>3 DEF MarkComplete, Leave, StorageTypes, OpRecords
<1> QED
  BY <1>2, <1>3, <1>4, <1>5, <1>6, <1>7, <1>8, <1>9, <1>10, <1>11, <1>12, <1>13 DEF ClientNext

\* Maintenance and bucket deletion keep the types.
LEMMA AdminTypes ==
  ASSUME Assumption, StorageTypes, AdminNext
  PROVE  StorageTypes'
<1>1. Idle \in AdminRecords /\ admin \in AdminRecords
  BY DEF AdminRecords, StorageTypes
<1>2. CASE \E task \in {"replay", "drop"} : AdminWaits(task)
  BY <1>2 DEF AdminWaits, StorageTypes, AdminRecords
<1>3. CASE AdminEnters
  <2>1. admin.task \in {"replay", "drop"} /\ admin' = [phase |-> admin.task]
    BY <1>1, <1>3, AdminKinds DEF AdminEnters
  <2>2. admin' \in AdminRecords
    BY <2>1 DEF AdminRecords
  <2> QED
    BY <1>3, <2>2 DEF AdminEnters, StorageTypes
<1>4. CASE AdminGivesUp
  BY <1>1, <1>4 DEF AdminGivesUp, StorageTypes
<1>5. CASE \E k \in Keys, out \in Outcomes : ReplayPublication(k, out)
  <2>1. PICK k \in Keys, out \in Outcomes : ReplayPublication(k, out)
    BY <1>5
  <2>2. pubs[k] # None /\ SendPublication(k, out)
    BY <2>1 DEF ReplayPublication, Pending
  <2>3. /\ pubs' \in [Keys -> Intents \cup {None}] /\ versions' \in Seq(VersionRecords)
        /\ IsFiniteSet(late') /\ late' \subseteq LatePuts \cup LateCollects \cup LatePublishes
    BY <2>2, SendTypes
  <2>4. admin' \in AdminRecords
    BY <1>1, <2>1 DEF ReplayPublication
  <2> QED
    BY <2>1, <2>3, <2>4 DEF ReplayPublication, StorageTypes
<1>6. CASE ReplayDone
  BY <1>6 DEF ReplayDone, StorageTypes, AdminRecords
<1>7. CASE \E u \in Uploads, out \in Outcomes : ResumeUpload(u, out)
  <2>1. PICK u \in Uploads, out \in Outcomes : ResumeUpload(u, out)
    BY <1>7
  <2> DEFINE k == UploadKey[u]
  <2>2. k \in Keys /\ Declared[u] \in Seq(Chunks)
    BY DEF Keys, Assumption
  <2>3. UNCHANGED <<bucket, stored, gen, ops, lost>> /\ admin' \in AdminRecords
    BY <1>1, <2>1 DEF ResumeUpload
  <2>4. CASE Conflicts(k, Declared[u], FALSE)
    BY <2>1, <2>3, <2>4 DEF ResumeUpload, StorageTypes
  <2>5. CASE ~Conflicts(k, Declared[u], FALSE) /\ pubs[k] = None
    <3>1. Intent(Declared[u], FALSE) \in Intents
      BY <2>2 DEF Intent, Intents
    <3>2. UNCHANGED <<versions, uploads, late>> /\ Prepare(k, Declared[u], FALSE)
      BY <2>1, <2>5 DEF ResumeUpload
    <3> QED
      BY <2>2, <2>3, <3>1, <3>2 DEF Prepare, StorageTypes
  <2>6. CASE ~Conflicts(k, Declared[u], FALSE) /\ pubs[k] # None
    <3>1. /\ SendPublication(k, out)
          /\ uploads' = IF out = "ok" THEN [uploads EXCEPT ![u].state = "complete"] ELSE uploads
      BY <2>1, <2>6 DEF ResumeUpload
    <3>2. /\ pubs' \in [Keys -> Intents \cup {None}] /\ versions' \in Seq(VersionRecords)
          /\ IsFiniteSet(late') /\ late' \subseteq LatePuts \cup LateCollects \cup LatePublishes
      BY <2>2, <2>6, <3>1, SendTypes
    <3>3. [uploads[u] EXCEPT !.state = "complete"] \in UploadRecords
      BY UploadTypes DEF StorageTypes
    <3>4. uploads' \in [Uploads -> UploadRecords]
      BY <3>1, <3>3 DEF StorageTypes
    <3> QED
      BY <2>3, <3>2, <3>4 DEF StorageTypes
  <2> QED
    BY <2>4, <2>5, <2>6
<1>8. CASE ExpireAndCapture
  <2>1. \A u \in Uploads : [uploads[u] EXCEPT !.state = "aborted"] \in UploadRecords
    BY UploadTypes DEF StorageTypes
  <2>2. uploads' \in [Uploads -> UploadRecords]
    BY <1>8, <2>1 DEF ExpireAndCapture, StorageTypes
  <2>3. admin' \in AdminRecords
    BY <1>8 DEF ExpireAndCapture, AdminRecords, StorageTypes
  <2> QED
    BY <1>8, <2>2, <2>3 DEF ExpireAndCapture, StorageTypes
<1>9. CASE Mark
  <2>1. PICK G \in SUBSET ((1..Len(versions)) \ LiveVersions) :
          admin' = [phase |-> "repair", gens |-> admin.gens, live |-> References(G) \cup PinnedParts]
    BY <1>9 DEF Mark
  <2>2. admin.gens \in [Nodes -> Nat]
    BY <1>1, <1>9, AdminKinds DEF Mark
  <2>3. \A i \in 1..Len(versions) : versions[i] \in VersionRecords
    BY DEF StorageTypes
  <2>4. References(G) \subseteq Chunks
    BY <2>3 DEF References, LiveVersions, VersionRecords
  <2>5. \A u \in Uploads : uploads[u].parts \in PartLists
    BY DEF StorageTypes, UploadRecords
  <2>6. PinnedParts \subseteq Chunks
    BY <2>5, PartsInChunks DEF PinnedParts, PartsOf
  <2>7. admin' \in AdminRecords
    BY <2>1, <2>2, <2>4, <2>6 DEF AdminRecords
  <2> QED
    BY <1>9, <2>7 DEF Mark, StorageTypes
<1>10. CASE Repair
  <2>1. \A n \in Nodes : FreshGen(n) \in Nat
    BY FreshIsNew
  <2>2. admin.phase = "repair" /\ admin' = [admin EXCEPT !.phase = "sweep"]
    BY <1>10 DEF Repair
  <2>3. admin' \in AdminRecords /\ admin.live \in SUBSET Chunks
    BY <1>1, <2>2, AdminKinds
  <2>4. PICK R \in [Nodes -> SUBSET admin.live] :
          /\ stored' = [n \in Nodes |-> stored[n] \cup R[n]]
          /\ gen' = [n \in Nodes |-> IF R[n] # {} THEN FreshGen(n) ELSE gen[n]]
    BY <1>10 DEF Repair
  <2>5. stored' \in [Nodes -> SUBSET Chunks] /\ gen' \in [Nodes -> Nat]
    BY <2>1, <2>3, <2>4 DEF StorageTypes
  <2> QED
    BY <1>10, <2>3, <2>5 DEF Repair, StorageTypes
<1>11. CASE \E S \in SUBSET Nodes : \E L \in SUBSET (Nodes \ S) : Sweep(S, L)
  <2>1. PICK S \in SUBSET Nodes : \E L \in SUBSET (Nodes \ S) : Sweep(S, L)
    BY <1>11
  <2>2. PICK L \in SUBSET (Nodes \ S) : Sweep(S, L)
    BY <2>1
  <2>3. /\ admin.phase = "sweep" /\ CollectOn(S, admin.live, admin.gens) /\ admin' = Idle
        /\ late' = late \cup {[kind |-> "collect", node |-> n, live |-> admin.live, gen |-> admin.gens[n]] : n \in L}
        /\ UNCHANGED <<bucket, pubs, versions, uploads, ops, lost>>
    BY <2>2 DEF Sweep
  <2>4. admin.live \in SUBSET Chunks /\ admin.gens \in [Nodes -> Nat]
    BY <1>1, <2>3, AdminKinds
  <2>5. stored' \in [Nodes -> SUBSET Chunks] /\ gen' \in [Nodes -> Nat]
    BY <2>3, CollectOnTypes
  <2> DEFINE f == [n \in L |-> [kind |-> "collect", node |-> n, live |-> admin.live, gen |-> admin.gens[n]]]
  <2>6. \A n \in L : f[n] \in LateCollects
    BY <2>4 DEF LateCollects
  <2>7. late' = late \cup {f[n] : n \in L} /\ f = [n \in L |-> f[n]]
    BY <2>3
  <2> HIDE DEF f
  <2>8. IsFiniteSet(late') /\ late' \subseteq LatePuts \cup LateCollects \cup LatePublishes
    BY <2>6, <2>7, LateTypes
  <2> QED
    BY <1>1, <2>3, <2>5, <2>8 DEF StorageTypes
<1>12. CASE ListBeforeDelete
  BY <1>1, <1>12 DEF ListBeforeDelete, StorageTypes, AdminRecords
<1>13. CASE DropBucket
  BY <1>1, <1>13 DEF DropBucket, StorageTypes
<1> QED
  BY <1>2, <1>3, <1>4, <1>5, <1>6, <1>7, <1>8, <1>9, <1>10, <1>11, <1>12, <1>13 DEF AdminNext

\* A late request is of one of three kinds.
LEMMA LateKinds ==
  ASSUME StorageTypes, NEW m \in late
  PROVE  /\ m.kind = "put" => m.node \in Nodes /\ m.chunk \in Chunks
         /\ m.kind = "collect" => m.node \in Nodes
         /\ m.kind = "publish" => m.key \in Keys
<1>1. m \in LatePuts \/ m \in LateCollects \/ m \in LatePublishes
  BY DEF StorageTypes
<1> QED
  BY <1>1 DEF LatePuts, LateCollects, LatePublishes

\* Every step keeps the types.
LEMMA TypesStep ==
  ASSUME Assumption, StorageTypes, VersionsFollow, \A c \in Clients : OpFollowsIntent(c), [Next]_vars
  PROVE  StorageTypes'
<1>1. CASE UNCHANGED vars
  BY <1>1 DEF vars, StorageTypes
<1>2. CASE \E c \in Clients : ClientNext(c)
  BY <1>2, ClientTypes
<1>3. CASE AdminNext
  BY <1>3, AdminTypes
<1>4. CASE \E i \in 1..Len(versions) : RemoveVersion(i)
  <2>1. PICK i \in 1..Len(versions) : RemoveVersion(i)
    BY <1>4
  <2>2. versions[i] \in VersionRecords
    BY DEF StorageTypes
  <2>3. [versions[i] EXCEPT !.removed = TRUE] \in VersionRecords
    BY <2>2 DEF VersionRecords
  <2>4. versions' \in Seq(VersionRecords)
    BY <2>1, <2>3 DEF RemoveVersion, StorageTypes
  <2> QED
    BY <2>1, <2>4 DEF RemoveVersion, StorageTypes
<1>5. CASE Prune
  <2>1. \A i \in 1..Len(versions) : versions[i] \in VersionRecords
    BY DEF StorageTypes
  <2> DEFINE After(i) == [versions[i] EXCEPT !.removed = @ \/ \E j \in LiveVersions : j > i]
  <2>2. \A i \in 1..Len(versions) : After(i) \in VersionRecords
    BY <2>1 DEF VersionRecords
  <2>3. versions' = [i \in 1..Len(versions) |-> After(i)]
    BY <1>5 DEF Prune
  <2>4. Len(versions) \in Nat
    BY DEF StorageTypes
  <2> HIDE DEF After
  <2>5. versions' \in Seq(VersionRecords)
    BY <2>2, <2>3, <2>4
  <2> QED
    BY <1>5, <2>5 DEF Prune, StorageTypes
<1>6. CASE \E u \in Uploads : StartUpload(u) \/ AbortUpload(u) \/ ExpireUpload(u)
  <2>1. PICK u \in Uploads : StartUpload(u) \/ AbortUpload(u) \/ ExpireUpload(u)
    BY <1>6
  <2>2. /\ [uploads[u] EXCEPT !.state = "active"] \in UploadRecords
        /\ [uploads[u] EXCEPT !.state = "aborted"] \in UploadRecords
        /\ [uploads[u] EXCEPT !.expired = TRUE] \in UploadRecords
    BY UploadTypes DEF StorageTypes
  <2>3. uploads' \in [Uploads -> UploadRecords]
    BY <2>1, <2>2 DEF StartUpload, AbortUpload, ExpireUpload, StorageTypes
  <2> QED
    BY <2>1, <2>3 DEF StartUpload, AbortUpload, ExpireUpload, StorageTypes
<1>7. CASE \E m \in late : Deliver(m)
  <2>1. PICK m \in late : Deliver(m)
    BY <1>7
  <2>2. UNCHANGED <<bucket, pubs, uploads, ops, admin, lost>> /\ late' = late \ {m}
    BY <2>1 DEF Deliver
  <2>3. IsFiniteSet(late') /\ late' \subseteq LatePuts \cup LateCollects \cup LatePublishes
    BY <2>2, FS_RemoveElement DEF StorageTypes
  <2>4. CASE m.kind = "put" /\ PutOn({m.node}, m.chunk) /\ UNCHANGED versions
    <3>1. stored' \in [Nodes -> SUBSET Chunks] /\ gen' \in [Nodes -> Nat]
      BY <2>4, PutOnTypes, LateKinds
    <3> QED
      BY <2>2, <2>3, <2>4, <3>1 DEF StorageTypes
  <2>5. CASE m.kind = "collect" /\ CollectOn({m.node}, m.live, [n \in Nodes |-> m.gen]) /\ UNCHANGED versions
    <3>1. stored' \in [Nodes -> SUBSET Chunks] /\ gen' \in [Nodes -> Nat]
      BY <2>5, CollectOnTypes
    <3> QED
      BY <2>2, <2>3, <2>5, <3>1 DEF StorageTypes
  <2>6. CASE m.kind = "publish" /\ versions' = MetaPublish(m.key) /\ UNCHANGED <<stored, gen>>
    <3>1. m.key \in Keys /\ pubs[m.key] # None
      BY <2>6, LateKinds DEF VersionsFollow
    <3>2. versions' \in Seq(VersionRecords)
      BY <2>6, <3>1, PublishAdds DEF Added
    <3> QED
      BY <2>2, <2>3, <2>6, <3>2 DEF StorageTypes
  <2> QED
    BY <2>1, <2>4, <2>5, <2>6 DEF Deliver
<1>8. CASE \E n \in Nodes : NodeRestart(n) \/ Damage(n)
  <2>1. PICK n \in Nodes : NodeRestart(n) \/ Damage(n)
    BY <1>8
  <2>2. FreshGen(n) \in Nat
    BY FreshIsNew
  <2>3. CASE NodeRestart(n)
    BY <2>2, <2>3 DEF NodeRestart, StorageTypes
  <2>4. CASE Damage(n)
    <3>1. PICK x \in stored[n] : stored' = [stored EXCEPT ![n] = @ \ {x}]
      BY <2>4 DEF Damage
    <3>2. lost' \in Nat /\ stored' \in [Nodes -> SUBSET Chunks]
      BY <2>4, <3>1 DEF Damage, StorageTypes
    <3> QED
      BY <2>4, <3>2 DEF Damage, StorageTypes
  <2> QED
    BY <2>1, <2>3, <2>4
<1>9. CASE Crash
  BY <1>9 DEF Crash, StorageTypes, OpRecords, AdminRecords
<1> QED
  BY <1>1, <1>2, <1>3, <1>4, <1>5, <1>6, <1>7, <1>8, <1>9 DEF Next

\* The content of an upload that has all its parts.
LEMMA AllParts ==
  ASSUME Assumption, NEW u \in Uploads, uploads[u].state \in {"active", "completing"},
         uploads[u].parts = Declared[u], NEW x \in RangeOf(Declared[u])
  PROVE  NeededByUpload(x, uploads)
<1>1. Declared[u] \in Seq(Chunks)
  BY DEF Assumption
<1>2. DOMAIN Declared[u] = 1..Len(Declared[u])
  BY <1>1
<1> QED
  BY <1>2 DEF RangeOf, NeededByUpload

(***************************************************************************)
(* What a step can do to the intents and the versions.                     *)
(***************************************************************************)
Prepares(k, manifest, marker) ==
  /\ pubs[k] = None /\ pubs' = [pubs EXCEPT ![k] = Intent(manifest, marker)] /\ versions' = versions
Backed(manifest) ==
  \A x \in RangeOf(manifest) : NeededByUpload(x, uploads) \/ \E c \in Clients : NeededByOp(x, ops[c])
Publishes(k) ==
  /\ pubs[k] # None /\ versions' = MetaPublish(k)
  /\ pubs' = pubs \/ pubs' = [pubs EXCEPT ![k].done = TRUE]
Removes ==
  /\ pubs' = pubs /\ Len(versions') = Len(versions)
  /\ \A i \in 1..Len(versions) :
       /\ versions'[i].key = versions[i].key /\ versions'[i].chunks = versions[i].chunks
       /\ versions[i].removed => versions'[i].removed
\* Which requests to publish become late.
PublishesLate == \A m \in late' \ late : m.kind = "publish" => m.key \in Keys /\ pubs[m.key] # None

SendEffect(k) == (UNCHANGED <<pubs, versions>> \/ Publishes(k)) /\ PublishesLate

LEMMA Sends ==
  ASSUME NEW k \in Keys, pubs[k] # None, NEW o, SendPublication(k, o)
  PROVE  SendEffect(k)
BY DEF SendPublication, SendEffect, Publishes, PublishesLate, LatePublish

Effect ==
  /\ \/ UNCHANGED <<pubs, versions>> \/ Removes
     \/ \E k \in Keys : Publishes(k)
     \/ \E k \in Keys, manifest \in Seq(Chunks), marker \in BOOLEAN :
          Prepares(k, manifest, marker) /\ Backed(manifest)
  /\ PublishesLate

LEMMA Effects ==
  ASSUME Assumption, StorageTypes, VersionsFollow, \A c \in Clients : OpFollowsIntent(c),
         \A u \in Uploads : UploadFollows(u), [Next]_vars
  PROVE  Effect
<1> DEFINE Same == UNCHANGED <<pubs, versions, late>>
<1>1. Same => Effect
  BY DEF Effect, PublishesLate
<1>2. ASSUME NEW c \in Clients, ClientNext(c) PROVE Effect
  <2> DEFINE o == ops[c]
  <2>1. o \in OpRecords
    BY DEF StorageTypes
  <2>2. CASE Store(c)
    BY <2>2 DEF Store, Effect, PublishesLate
  <2>3. CASE PrepareRequest(c)
    <3>1. o.phase = "prepare" /\ UNCHANGED <<versions, late>>
      BY <2>3 DEF PrepareRequest
    <3>2. o.key \in Keys /\ o.manifest \in Seq(Chunks) /\ o.marker \in BOOLEAN
      BY <2>1, <3>1, OpKinds DEF PutOps, DeleteOps, CompleteOps
    <3>3. UNCHANGED pubs \/ Prepares(o.key, o.manifest, o.marker)
      BY <2>3, <3>1 DEF PrepareRequest, Prepare, Prepares
    <3>4. Backed(o.manifest)
      BY <3>1 DEF Backed, NeededByOp
    <3> QED
      BY <3>1, <3>2, <3>3, <3>4 DEF Effect, PublishesLate
  <2>4. CASE \E out \in Outcomes : PublishRequest(c, out)
    <3>1. PICK out \in Outcomes : PublishRequest(c, out)
      BY <2>4
    <3>2. o.phase = "send" /\ SendPublication(o.key, out)
      BY <3>1 DEF PublishRequest
    <3>3. o.key \in Keys /\ pubs[o.key] # None
      BY <2>1, <3>2, OpKinds DEF PutOps, DeleteOps, CompleteOps, OpFollowsIntent
    <3> QED
      BY <3>2, <3>3, Sends DEF Effect, SendEffect
  <2>5. CASE \E k \in Requests, x \in Chunks : PutRequest(c, k, x)
    BY <1>1, <2>5 DEF PutRequest
  <2>6. CASE \E k \in Deletes : DeleteRequest(c, k)
    BY <1>1, <2>6 DEF DeleteRequest
  <2>7. CASE GetRequest(c) \/ GetAnswer(c)
    BY <1>1, <2>7 DEF GetRequest, GetAnswer
  <2>8. CASE \E u \in Uploads, n \in 1..2, x \in Chunks : PartRequest(c, u, n, x)
    BY <1>1, <2>8 DEF PartRequest
  <2>9. CASE \E u \in Uploads : CompleteRequest(c, u)
    BY <1>1, <2>9 DEF CompleteRequest
  <2>10. CASE AddPart(c) \/ Freeze(c) \/ MarkComplete(c)
    BY <1>1, <2>10 DEF AddPart, Freeze, MarkComplete
  <2> QED
    BY <1>2, <2>2, <2>3, <2>4, <2>5, <2>6, <2>7, <2>8, <2>9, <2>10 DEF ClientNext
<1>3. ASSUME AdminNext PROVE Effect
  <2>1. CASE \E k \in Keys, out \in Outcomes : ReplayPublication(k, out)
    <3>1. PICK k \in Keys, out \in Outcomes : ReplayPublication(k, out)
      BY <2>1
    <3>2. pubs[k] # None /\ SendPublication(k, out)
      BY <3>1 DEF ReplayPublication, Pending
    <3> QED
      BY <3>2, Sends DEF Effect, SendEffect
  <2>2. CASE \E u \in Uploads, out \in Outcomes : ResumeUpload(u, out)
    <3>1. PICK u \in Uploads, out \in Outcomes : ResumeUpload(u, out)
      BY <2>2
    <3> DEFINE k == UploadKey[u]
    <3>2. k \in Keys /\ Declared[u] \in Seq(Chunks)
      BY DEF Keys, Assumption
    <3>3. CASE Conflicts(k, Declared[u], FALSE)
      BY <1>1, <3>1, <3>3 DEF ResumeUpload
    <3>4. CASE ~Conflicts(k, Declared[u], FALSE) /\ pubs[k] = None
      <4>1. UNCHANGED <<versions, late>> /\ Prepares(k, Declared[u], FALSE)
        BY <3>1, <3>4 DEF ResumeUpload, Prepare, Prepares
      <4>2. uploads[u].state = "completing" /\ uploads[u].parts = Declared[u]
        BY <3>1 DEF ResumeUpload, Completing, UploadFollows
      <4>3. Backed(Declared[u])
        BY <4>2, AllParts DEF Backed
      <4> QED
        BY <3>2, <4>1, <4>3 DEF Effect, PublishesLate
    <3>5. CASE ~Conflicts(k, Declared[u], FALSE) /\ pubs[k] # None
      <4>1. SendPublication(k, out)
        BY <3>1, <3>5 DEF ResumeUpload
      <4> QED
        BY <3>2, <3>5, <4>1, Sends DEF Effect, SendEffect
    <3> QED
      BY <3>3, <3>4, <3>5
  <2>3. CASE \E S \in SUBSET Nodes : \E L \in SUBSET (Nodes \ S) : Sweep(S, L)
    BY <2>3 DEF Sweep, Effect, PublishesLate
  <2>4. CASE \E task \in {"replay", "drop"} : AdminWaits(task)
    BY <1>1, <2>4 DEF AdminWaits
  <2>5. CASE AdminEnters \/ AdminGivesUp \/ ReplayDone \/ ExpireAndCapture
    BY <1>1, <2>5 DEF AdminEnters, AdminGivesUp, ReplayDone, ExpireAndCapture
  <2>6. CASE Mark \/ Repair \/ ListBeforeDelete \/ DropBucket
    BY <1>1, <2>6 DEF Mark, Repair, ListBeforeDelete, DropBucket
  <2> QED
    BY <1>3, <2>1, <2>2, <2>3, <2>4, <2>5, <2>6 DEF AdminNext
<1>4. CASE \E i \in 1..Len(versions) : RemoveVersion(i)
  <2>1. PICK i \in 1..Len(versions) : RemoveVersion(i)
    BY <1>4
  <2>2. versions \in Seq(VersionRecords) /\ \A j \in 1..Len(versions) : versions[j] \in VersionRecords
    BY DEF StorageTypes
  <2>3. pubs' = pubs /\ late' = late /\ versions' = [versions EXCEPT ![i].removed = TRUE]
    BY <2>1 DEF RemoveVersion
  <2>4. /\ Len(versions') = Len(versions)
        /\ \A j \in 1..Len(versions) :
             versions'[j] = IF j = i THEN [versions[i] EXCEPT !.removed = TRUE] ELSE versions[j]
    BY <2>2, <2>3
  <2>5. Removes
    BY <2>2, <2>3, <2>4 DEF Removes, VersionRecords
  <2> QED
    BY <2>3, <2>5 DEF Effect, PublishesLate
<1>5. CASE Prune
  <2>1. \A i \in 1..Len(versions) : versions[i] \in VersionRecords
    BY DEF StorageTypes
  <2> DEFINE After(i) == [versions[i] EXCEPT !.removed = @ \/ \E j \in LiveVersions : j > i]
  <2>2. \A i \in 1..Len(versions) :
          /\ After(i).key = versions[i].key /\ After(i).chunks = versions[i].chunks
          /\ versions[i].removed => After(i).removed
    BY <2>1 DEF VersionRecords
  <2>3. versions' = [i \in 1..Len(versions) |-> After(i)] /\ pubs' = pubs /\ late' = late
    BY <1>5 DEF Prune
  <2>4. Len(versions) \in Nat
    BY DEF StorageTypes
  <2> HIDE DEF After
  <2>5. Len(versions') = Len(versions) /\ \A i \in 1..Len(versions) : versions'[i] = After(i)
    BY <2>3, <2>4
  <2>6. Removes
    BY <2>2, <2>3, <2>5 DEF Removes
  <2> QED
    BY <2>3, <2>6 DEF Effect, PublishesLate
<1>6. CASE \E u \in Uploads : StartUpload(u) \/ AbortUpload(u) \/ ExpireUpload(u)
  BY <1>1, <1>6 DEF StartUpload, AbortUpload, ExpireUpload
<1>7. CASE \E m \in late : Deliver(m)
  <2>1. PICK m \in late : Deliver(m)
    BY <1>7
  <2>2. pubs' = pubs /\ PublishesLate
    BY <2>1 DEF Deliver, PublishesLate
  <2>3. CASE m.kind = "publish" /\ versions' = MetaPublish(m.key)
    <3>1. m.key \in Keys /\ pubs[m.key] # None
      BY <2>3, LateKinds DEF VersionsFollow
    <3> QED
      BY <2>2, <2>3, <3>1 DEF Effect, Publishes
  <2> QED
    BY <2>1, <2>2, <2>3 DEF Deliver, Effect
<1>8. CASE \E n \in Nodes : NodeRestart(n) \/ Damage(n)
  BY <1>1, <1>8 DEF NodeRestart, Damage
<1>9. CASE Crash \/ UNCHANGED vars
  BY <1>1, <1>9 DEF Crash, vars
<1> QED
  BY <1>2, <1>3, <1>4, <1>5, <1>6, <1>7, <1>8, <1>9 DEF Next

\* Intents are never taken back or changed, and a version never goes.
Forward ==
  /\ \A k \in Keys : pubs[k] # None =>
       /\ pubs'[k] # None /\ pubs'[k].manifest = pubs[k].manifest /\ pubs'[k].marker = pubs[k].marker
       /\ pubs[k].done => pubs'[k].done
  /\ \A k \in Keys : Published(k) => Published(k)'
LEMMA StepsForward ==
  ASSUME Assumption, StorageTypes, Effect
  PROVE  Forward
<1>1. versions \in Seq(VersionRecords) /\ Len(versions) \in Nat
  BY DEF StorageTypes
<1>2. CASE UNCHANGED <<pubs, versions>>
  BY <1>2 DEF Forward, Published
<1>3. CASE Removes
  BY <1>3 DEF Removes, Forward, Published
<1>4. CASE \E k \in Keys : Publishes(k)
  <2>1. PICK k \in Keys : Publishes(k)
    BY <1>4
  <2>2. Added(versions', k)
    BY <2>1, PublishAdds DEF Publishes
  <2>3. \A j \in Keys : Published(j) => Published(j)'
    BY <1>1, <2>2 DEF Published, Added
  <2>4. pubs[k] \in Intents
    BY <2>1 DEF StorageTypes, Publishes
  <2>5. [pubs[k] EXCEPT !.done = TRUE] \in Intents /\ None \notin Intents
    BY <2>4 DEF Assumption, Intents
  <2>6. /\ [pubs[k] EXCEPT !.done = TRUE].manifest = pubs[k].manifest
        /\ [pubs[k] EXCEPT !.done = TRUE].marker = pubs[k].marker
        /\ [pubs[k] EXCEPT !.done = TRUE].done
    BY <2>4 DEF Intents
  <2>7. \A j \in Keys : pubs'[j] = pubs[j] \/ (j = k /\ pubs'[j] = [pubs[k] EXCEPT !.done = TRUE])
    BY <2>1 DEF Publishes, StorageTypes
  <2> QED
    BY <2>3, <2>5, <2>6, <2>7 DEF Forward
<1>5. CASE \E k \in Keys, manifest \in Seq(Chunks), marker \in BOOLEAN : Prepares(k, manifest, marker)
  BY <1>5 DEF Prepares, Forward, Published, StorageTypes
<1> QED
  BY <1>2, <1>3, <1>4, <1>5 DEF Effect

\* Versions stay those of the intents.
LEMMA VersionsStep ==
  ASSUME Assumption, StorageTypes, StorageTypes', VersionsFollow, Effect
  PROVE  VersionsFollow'
<1>1. versions \in Seq(VersionRecords) /\ Len(versions) \in Nat
  BY DEF StorageTypes
<1>9. \A i \in 1..Len(versions) : versions[i] \in VersionRecords
  BY <1>1
<1>2. \A i \in 1..Len(versions) : versions[i].key \in Keys
  BY <1>9 DEF VersionRecords
<1>3. Forward
  BY StepsForward
<1>4. \A m \in late' : m.kind = "publish" => pubs'[m.key] # None
  <2>1. \A m \in late' : m.kind = "publish" => m.key \in Keys /\ pubs[m.key] # None
    BY LateKinds DEF Effect, PublishesLate, VersionsFollow
  <2> QED
    BY <1>3, <2>1 DEF Forward
<1>5. CASE UNCHANGED <<pubs, versions>>
  BY <1>4, <1>5 DEF VersionsFollow, Published, PublishedOnce
<1>6. CASE Removes
  BY <1>4, <1>6 DEF VersionsFollow, Published, PublishedOnce, Removes
<1>7. CASE \E k \in Keys : Publishes(k)
  <2>1. PICK k \in Keys : Publishes(k)
    BY <1>7
  <2> DEFINE V == versions'
  <2>2. Added(V, k)
    BY <2>1, PublishAdds DEF Publishes
  <2>3. \A i \in 1..Len(V) : i \in 1..Len(versions) \/ (i = Len(versions) + 1 /\ ~Published(k))
    BY <1>1, <2>2 DEF Added
  <2>4. ASSUME NEW i \in 1..Len(V)
        PROVE  /\ V[i].key \in Keys /\ pubs'[V[i].key] # None
               /\ V[i].chunks = RangeOf(pubs'[V[i].key].manifest)
    <3>1. CASE i \in 1..Len(versions)
      <4>1. V[i] = versions[i] /\ versions[i].key \in Keys /\ pubs[versions[i].key] # None
            /\ versions[i].chunks = RangeOf(pubs[versions[i].key].manifest)
        BY <1>2, <2>2, <3>1 DEF Added, VersionsFollow
      <4> QED
        BY <1>3, <4>1 DEF Forward
    <3>2. CASE i \notin 1..Len(versions)
      <4>1. V[i].key = k /\ V[i].chunks = RangeOf(pubs[k].manifest)
        BY <1>1, <2>2, <3>2 DEF Added
      <4> QED
        BY <1>3, <2>1, <4>1 DEF Forward, Publishes
    <3> QED
      BY <3>1, <3>2
  <2>5. \A i, j \in 1..Len(V) : V[i].key = V[j].key => i = j
    <3> SUFFICES ASSUME NEW i \in 1..Len(V), NEW j \in 1..Len(V), V[i].key = V[j].key PROVE i = j
      OBVIOUS
    <3>1. CASE i \in 1..Len(versions) /\ j \in 1..Len(versions)
      BY <2>2, <3>1 DEF Added, VersionsFollow, PublishedOnce
    <3>2. CASE i \notin 1..Len(versions) \/ j \notin 1..Len(versions)
      BY <1>1, <2>2, <2>3, <3>2 DEF Added, Published
    <3> QED
      BY <3>1, <3>2
  <2>6. \A j \in Keys : pubs'[j] # None /\ pubs'[j].done => Published(j)'
    <3> SUFFICES ASSUME NEW j \in Keys, pubs'[j] # None, pubs'[j].done PROVE Published(j)'
      OBVIOUS
    <3>1. CASE j = k
      BY <2>2, <3>1 DEF Added, Published
    <3>2. CASE j # k
      <4>1. pubs'[j] = pubs[j]
        BY <2>1, <3>2 DEF Publishes, StorageTypes
      <4> QED
        BY <1>3, <4>1 DEF Forward, VersionsFollow
    <3> QED
      BY <3>1, <3>2
  <2> QED
    BY <1>4, <2>4, <2>5, <2>6 DEF VersionsFollow, PublishedOnce
<1>8. CASE \E k \in Keys, manifest \in Seq(Chunks), marker \in BOOLEAN : Prepares(k, manifest, marker)
  <2>1. PICK k \in Keys, manifest \in Seq(Chunks), marker \in BOOLEAN : Prepares(k, manifest, marker)
    BY <1>8
  <2>2. \A j \in Keys : pubs'[j] = IF j = k THEN Intent(manifest, marker) ELSE pubs[j]
    BY <2>1 DEF Prepares, StorageTypes
  <2>3. ~Intent(manifest, marker).done /\ pubs[k] = None /\ versions' = versions
    BY <2>1 DEF Intent, Prepares
  <2>4. \A j \in Keys : pubs'[j] # None /\ pubs'[j].done => pubs[j] # None /\ pubs[j].done
    BY <2>2, <2>3
  <2>5. \A i \in 1..Len(versions) :
          /\ pubs'[versions[i].key] # None
          /\ versions[i].chunks = RangeOf(pubs'[versions[i].key].manifest)
    BY <1>2, <1>3, <2>3 DEF VersionsFollow, Forward
  <2> QED
    BY <1>4, <2>3, <2>4, <2>5 DEF VersionsFollow, Published, PublishedOnce
<1> QED
  BY <1>5, <1>6, <1>7, <1>8 DEF Effect

\* The exclusive guard excludes (service_runtime.py).
LEMMA ExclusiveStep ==
  ASSUME StorageTypes, Exclusive, [Next]_vars
  PROVE  Exclusive'
<1>1. \A c \in Clients : ops[c].phase = "idle" => ops[c] = Idle
  BY OpKinds DEF StorageTypes
<1>2. ASSUME NEW c \in Clients, ClientNext(c) PROVE Exclusive'
  <2>1. admin' = admin
    BY <1>2 DEF ClientNext, PutRequest, DeleteRequest, Store, PrepareRequest, PublishRequest, GetRequest,
         GetAnswer, PartRequest, AddPart, CompleteRequest, Freeze, MarkComplete
  <2>2. ops[c].phase # "idle" \/ admin.phase = "idle"
    BY <1>2 DEF ClientNext, PutRequest, DeleteRequest, Store, PrepareRequest, PublishRequest, GetRequest,
         GetAnswer, PartRequest, AddPart, CompleteRequest, Freeze, MarkComplete, Enter, SharedFree
  <2> QED
    BY <2>1, <2>2 DEF Exclusive, Idle
<1>3. CASE AdminNext
  <2>1. ops' = ops
    BY <1>3 DEF AdminNext, AdminWaits, AdminEnters, AdminGivesUp, ReplayPublication, ReplayDone, ResumeUpload,
         ExpireAndCapture, Mark, Repair, Sweep, ListBeforeDelete, DropBucket
  <2>2. CASE AdminEnters
    BY <1>1, <2>1, <2>2 DEF AdminEnters, Exclusive
  <2>3. CASE ~AdminEnters
    <3>1. admin'.phase \notin {"idle", "waiting"} => admin.phase \notin {"idle", "waiting"}
      <4>1. CASE (\E task \in {"replay", "drop"} : AdminWaits(task)) \/ AdminGivesUp
        BY <4>1 DEF AdminWaits, AdminGivesUp, Idle
      <4>2. CASE \/ \E k \in Keys, o \in Outcomes : ReplayPublication(k, o)
                 \/ \E u \in Uploads, o \in Outcomes : ResumeUpload(u, o)
                 \/ \E S \in SUBSET Nodes : \E L \in SUBSET (Nodes \ S) : Sweep(S, L)
        BY <4>2 DEF ReplayPublication, ResumeUpload, Sweep
      <4>3. CASE ReplayDone \/ ExpireAndCapture \/ Mark \/ Repair \/ ListBeforeDelete \/ DropBucket
        BY <4>3 DEF ReplayDone, ExpireAndCapture, Mark, Repair, ListBeforeDelete, DropBucket
      <4> QED
        BY <1>3, <2>3, <4>1, <4>2, <4>3 DEF AdminNext
    <3> QED
      BY <2>1, <3>1 DEF Exclusive
  <2> QED
    BY <2>2, <2>3
<1>4. CASE Crash
  BY <1>4 DEF Crash, Exclusive, Idle
<1>5. CASE UNCHANGED <<ops, admin>>
  BY <1>5 DEF Exclusive
<1>6. CASE \/ \E i \in 1..Len(versions) : RemoveVersion(i)
           \/ Prune \/ UNCHANGED vars
           \/ \E u \in Uploads : StartUpload(u) \/ AbortUpload(u) \/ ExpireUpload(u)
           \/ \E m \in late : Deliver(m)
           \/ \E n \in Nodes : NodeRestart(n) \/ Damage(n)
  BY <1>5, <1>6 DEF RemoveVersion, Prune, vars, StartUpload, AbortUpload, ExpireUpload, Deliver, NodeRestart, Damage
<1> QED
  BY <1>2, <1>3, <1>4, <1>6 DEF Next

\* What a step can do to an upload.
PartAdded(u) ==
  /\ uploads[u].state = "active"
  /\ \E c \in Clients :
       /\ ops[c].phase = "add"
       /\ \A n \in DOMAIN uploads'[u].parts :
            \/ uploads'[u].parts[n] = ops[c].chunk
            \/ n \in DOMAIN uploads[u].parts /\ uploads'[u].parts[n] = uploads[u].parts[n]

UploadEffect(u) ==
  /\ uploads[u].parts = Declared[u] => uploads'[u].parts = Declared[u]
  /\ uploads'[u].state = "none" => uploads[u].state = "none" /\ uploads'[u].parts = uploads[u].parts
  /\ uploads'[u].state = "completing" => uploads[u].state = "completing" \/ uploads[u].parts = Declared[u]
  /\ uploads'[u].state = "complete" => uploads[u].state = "complete" \/ Closed(u)'
  /\ uploads'[u].state \in {"active", "completing"} =>
       \/ uploads'[u].parts = uploads[u].parts /\ uploads[u].state \in {"none", "active", "completing"}
       \/ PartAdded(u)

LEMMA UploadEffects ==
  ASSUME Assumption, StorageTypes, StorageTypes', Forward, \A c \in Clients : OpFollowsIntent(c),
         [Next]_vars, NEW v \in Uploads
  PROVE  UploadEffect(v)
<1>1. \A u \in Uploads : uploads[u] \in UploadRecords
  BY DEF StorageTypes
<1>2. CASE uploads' = uploads
  BY <1>2 DEF UploadEffect
<1>3. ASSUME NEW u \in Uploads, NEW s \in {"active", "completing", "complete", "aborted"},
             uploads' = [uploads EXCEPT ![u].state = s],
             s = "active" => uploads[u].state = "none",
             s = "completing" => uploads[u].parts = Declared[u] /\ uploads[u].state = "active",
             s = "complete" => Closed(u)'
      PROVE  UploadEffect(v)
  <2>1. uploads'[u] = [uploads[u] EXCEPT !.state = s] /\ (v # u => uploads'[v] = uploads[v])
    BY <1>3 DEF StorageTypes
  <2>2. uploads'[u].state = s /\ uploads'[u].parts = uploads[u].parts
    BY <1>1, <2>1 DEF UploadRecords
  <2>3. CASE v # u
    BY <2>1, <2>3 DEF UploadEffect
  <2>4. CASE v = u
    BY <1>3, <2>2, <2>4 DEF UploadEffect
  <2> QED
    BY <2>3, <2>4
<1>4. ASSUME NEW c \in Clients, AddPart(c) PROVE UploadEffect(v)
  <2> DEFINE o == ops[c]
             u == o.upload
             p == uploads[u].parts
             q == [m \in DOMAIN p \cup {o.number} |-> IF m = o.number THEN o.chunk ELSE p[m]]
  <2>1. o.phase = "add" /\ o \in OpRecords
    BY <1>4 DEF AddPart, StorageTypes
  <2>2. u \in Uploads
    BY <2>1, OpKinds DEF PartOps
  <2>3. CASE Active(u) /\ Cardinality(DOMAIN p) < Len(Declared[u])
    <3>1. uploads' = uploads \/ uploads' = [uploads EXCEPT ![u].parts = q]
      BY <1>4 DEF AddPart
    <3>2. \A n \in DOMAIN q : q[n] = o.chunk \/ (n \in DOMAIN p /\ q[n] = p[n])
      OBVIOUS
    <3>3. p # Declared[u]
      <4>1. Declared[u] \in Seq(Chunks)
        BY <2>2 DEF Assumption
      <4>2. Len(Declared[u]) \in Nat /\ DOMAIN Declared[u] = 1..Len(Declared[u])
        BY <4>1
      <4>3. Cardinality(1..Len(Declared[u])) = Len(Declared[u])
        BY <4>2, FS_Interval
      <4> QED
        BY <2>3, <4>2, <4>3
    <3> HIDE DEF q
    <3>4. CASE uploads' = [uploads EXCEPT ![u].parts = q]
      <4>1. uploads'[u] = [uploads[u] EXCEPT !.parts = q] /\ (v # u => uploads'[v] = uploads[v])
        BY <2>2, <3>4 DEF StorageTypes
      <4>2. uploads'[u].state = uploads[u].state /\ uploads'[u].parts = q
        BY <1>1, <2>2, <4>1 DEF UploadRecords
      <4>3. uploads[u].state = "active"
        BY <2>3 DEF Active
      <4>4. CASE v = u
        BY <2>1, <3>2, <3>3, <4>2, <4>3, <4>4 DEF UploadEffect, PartAdded
      <4>5. CASE v # u
        BY <4>1, <4>5 DEF UploadEffect
      <4> QED
        BY <4>4, <4>5
    <3> QED
      BY <1>2, <3>1, <3>4
  <2>4. CASE ~(Active(u) /\ Cardinality(DOMAIN p) < Len(Declared[u]))
    BY <1>2, <1>4, <2>4 DEF AddPart
  <2> QED
    BY <2>3, <2>4
<1>5. ASSUME NEW c \in Clients, Freeze(c) PROVE UploadEffect(v)
  <2>1. ops[c].phase = "freeze" /\ ops[c] \in OpRecords
    BY <1>5 DEF Freeze, StorageTypes
  <2>2. ops[c].upload \in Uploads /\ uploads[ops[c].upload].parts = Declared[ops[c].upload]
    BY <2>1, OpKinds DEF CompleteOps, OpFollowsIntent
  <2> QED
    BY <1>2, <1>3, <1>5, <2>2 DEF Freeze, Active
<1>6. ASSUME NEW c \in Clients, MarkComplete(c) PROVE UploadEffect(v)
  <2> DEFINE o == ops[c]
  <2>1. o.phase = "complete" /\ o \in OpRecords
    BY <1>6 DEF MarkComplete, StorageTypes
  <2>2. o.upload \in Uploads /\ o.upload # None
    BY <2>1, OpKinds DEF CompleteOps, Assumption
  <2>3. /\ o.key = UploadKey[o.upload] /\ o.manifest = Declared[o.upload] /\ pubs[o.key].done
        /\ pubs[o.key] # None /\ pubs[o.key].manifest = o.manifest
    BY <2>1, <2>2 DEF OpFollowsIntent, SameContent
  <2>4. PICK w \in Uploads : w = o.upload
    BY <2>2
  <2>5. Closed(w)'
    BY <1>6, <2>3, <2>4 DEF Closed, MarkComplete
  <2>6. uploads' = [uploads EXCEPT ![w].state = "complete"]
    BY <1>6, <2>4 DEF MarkComplete
  <2> QED
    BY <1>3, <2>5, <2>6
<1>7. ASSUME NEW u \in Uploads, NEW out, ResumeUpload(u, out) PROVE UploadEffect(v)
  <2> DEFINE k == UploadKey[u]
  <2>1. k \in Keys
    BY DEF Keys
  <2>2. CASE Conflicts(k, Declared[u], FALSE) \/ pubs[k] = None
    BY <1>2, <1>7, <2>2 DEF ResumeUpload
  <2>3. CASE ~Conflicts(k, Declared[u], FALSE) /\ pubs[k] # None
    <3>1. /\ SendPublication(k, out)
          /\ uploads' = IF out = "ok" THEN [uploads EXCEPT ![u].state = "complete"] ELSE uploads
      BY <1>7, <2>3 DEF ResumeUpload
    <3>2. CASE out = "ok"
      <4>1. pubs[k].manifest = Declared[u] /\ pubs[k] \in Intents
        BY <2>1, <2>3 DEF Conflicts, SameContent, StorageTypes
      <4>2. pubs'[k] = [pubs[k] EXCEPT !.done = TRUE]
        BY <2>1, <3>1, <3>2 DEF SendPublication, StorageTypes
      <4>3. pubs'[k].done /\ pubs'[k].manifest = Declared[u]
        BY <4>1, <4>2 DEF Intents
      <4>4. Closed(u)'
        BY <2>1, <2>3, <4>3 DEF Closed, Forward
      <4> QED
        BY <1>3, <3>1, <3>2, <4>4
    <3> QED
      BY <1>2, <3>1, <3>2
  <2> QED
    BY <2>2, <2>3
<1>8. ASSUME ExpireAndCapture PROVE UploadEffect(v)
  <2>1. uploads'[v] = uploads[v] \/ uploads'[v] = [uploads[v] EXCEPT !.state = "aborted"]
    BY <1>8 DEF ExpireAndCapture
  <2>2. CASE uploads'[v] = [uploads[v] EXCEPT !.state = "aborted"]
    <3>1. uploads'[v].state = "aborted" /\ uploads'[v].parts = uploads[v].parts
      BY <1>1, <2>2 DEF UploadRecords
    <3> QED
      BY <3>1 DEF UploadEffect
  <2> QED
    BY <2>1, <2>2 DEF UploadEffect
<1>9. ASSUME NEW u \in Uploads, ExpireUpload(u) PROVE UploadEffect(v)
  <2>1. uploads' = [uploads EXCEPT ![u].expired = TRUE]
    BY <1>9 DEF ExpireUpload
  <2>2. uploads'[v] = uploads[v] \/ uploads'[v] = [uploads[v] EXCEPT !.expired = TRUE]
    BY <2>1 DEF StorageTypes
  <2>3. uploads'[v].state = uploads[v].state /\ uploads'[v].parts = uploads[v].parts
    BY <1>1, <2>2 DEF UploadRecords
  <2> QED
    BY <2>3 DEF UploadEffect
<1>10. ASSUME NEW u \in Uploads, StartUpload(u) \/ AbortUpload(u) PROVE UploadEffect(v)
  BY <1>3, <1>10 DEF StartUpload, AbortUpload
<1>11. ASSUME NEW c \in Clients, ClientNext(c) PROVE UploadEffect(v)
  <2>1. CASE AddPart(c) \/ Freeze(c) \/ MarkComplete(c)
    BY <1>4, <1>5, <1>6, <2>1
  <2>2. CASE ~(AddPart(c) \/ Freeze(c) \/ MarkComplete(c))
    <3>1. uploads' = uploads
      BY <1>11, <2>2 DEF ClientNext, PutRequest, DeleteRequest, Store, PrepareRequest, PublishRequest, GetRequest,
         GetAnswer, PartRequest, CompleteRequest
    <3> QED
      BY <1>2, <3>1
  <2> QED
    BY <2>1, <2>2
<1>12. CASE AdminNext
  <2>1. CASE \E u \in Uploads, out \in Outcomes : ResumeUpload(u, out)
    BY <1>7, <2>1
  <2>2. CASE ExpireAndCapture
    BY <1>8, <2>2
  <2>3. CASE ~ExpireAndCapture /\ ~\E u \in Uploads, out \in Outcomes : ResumeUpload(u, out)
    <3>1. uploads' = uploads
      BY <1>12, <2>3 DEF AdminNext, AdminWaits, AdminEnters, AdminGivesUp, ReplayPublication, ReplayDone,
         Mark, Repair, Sweep, ListBeforeDelete, DropBucket
    <3> QED
      BY <1>2, <3>1
  <2> QED
    BY <2>1, <2>2, <2>3
<1>13. CASE \/ \E i \in 1..Len(versions) : RemoveVersion(i)
            \/ Prune \/ UNCHANGED vars \/ Crash
            \/ \E m \in late : Deliver(m)
            \/ \E n \in Nodes : NodeRestart(n) \/ Damage(n)
  BY <1>2, <1>13 DEF RemoveVersion, Prune, vars, Crash, Deliver, NodeRestart, Damage
<1> QED
  BY <1>9, <1>10, <1>11, <1>12, <1>13 DEF Next

LEMMA UploadsStep ==
  ASSUME StorageTypes, Forward, NEW u \in Uploads, UploadFollows(u), UploadEffect(u)
  PROVE  UploadFollows(u)'
<1>1. UploadKey[u] \in Keys
  BY DEF Keys
<1>2. Closed(u) => Closed(u)'
  BY <1>1 DEF Closed, Forward
<1>3. uploads'[u].state = "none" => DOMAIN uploads'[u].parts = {}
  BY DEF UploadFollows, UploadEffect
<1>4. uploads'[u].state = "completing" => uploads'[u].parts = Declared[u]
  BY DEF UploadFollows, UploadEffect
<1>5. uploads'[u].state = "complete" => Closed(u)'
  BY <1>2 DEF UploadFollows, UploadEffect
<1> QED
  BY <1>3, <1>4, <1>5 DEF UploadFollows

\* A thread keeps its request, begins one, or goes on with it.
LEMMA OpsStep ==
  ASSUME Assumption, StorageTypes, StorageTypes', Forward, [Next]_vars,
         \A c \in Clients : OpFollowsIntent(c), \A u \in Uploads : UploadEffect(u), NEW d \in Clients
  PROVE  OpFollowsIntent(d)'
<1> DEFINE o == ops[d]
<1>1. o \in OpRecords
  BY DEF StorageTypes
<1>2. o.phase \in {"freeze", "prepare", "send", "complete"} => o.key \in Keys
  BY <1>1, OpKinds DEF PutOps, DeleteOps, CompleteOps
<1>3. o.phase = "freeze" => o.upload \in Uploads
  BY <1>1, OpKinds DEF CompleteOps
<1>4. CASE ops'[d] = o
  BY <1>2, <1>3, <1>4 DEF OpFollowsIntent, Forward, SameContent, UploadEffect
<1>5. CASE ops'[d].phase \in {"idle", "add", "reading"}
  BY <1>5 DEF OpFollowsIntent
<1>6. ASSUME NEW c \in Clients, c # d, ClientNext(c) PROVE ops'[d] = o
  BY <1>6 DEF ClientNext, PutRequest, DeleteRequest, Store, PrepareRequest, PublishRequest, GetRequest,
       GetAnswer, PartRequest, AddPart, CompleteRequest, Freeze, MarkComplete, Enter, Leave, StorageTypes
<1>7. CASE ClientNext(d)
  <2>1. CASE \E k \in Requests, x \in Chunks : PutRequest(d, k, x)
    <3>1. PICK k \in Requests, x \in Chunks : PutRequest(d, k, x)
      BY <2>1
    <3>2. ops'[d] = [phase |-> "store", chunk |-> x, key |-> k, upload |-> None, manifest |-> <<x>>, marker |-> FALSE]
      BY <3>1 DEF PutRequest, Enter, StorageTypes
    <3>3. ops'[d].phase = "store" /\ ops'[d].manifest = <<ops'[d].chunk>>
      BY <3>2
    <3> QED
      BY <3>3 DEF OpFollowsIntent
  <2>2. CASE \E k \in Deletes : DeleteRequest(d, k)
    <3>1. PICK k \in Deletes : DeleteRequest(d, k)
      BY <2>2
    <3>2. ops'[d] = [phase |-> "prepare", key |-> k, upload |-> None, manifest |-> <<>>, marker |-> TRUE]
      BY <3>1 DEF DeleteRequest, Enter, StorageTypes
    <3>3. ops'[d].phase = "prepare" /\ ops'[d].upload = None
      BY <3>2
    <3> QED
      BY <3>3 DEF OpFollowsIntent
  <2>3. CASE Store(d)
    <3>1. \/ ops'[d] = Idle
          \/ o.upload = None /\ ops'[d] = [o EXCEPT !.phase = "prepare"]
          \/ o.upload # None /\ ops'[d] = [o EXCEPT !.phase = "add"]
      BY <2>3 DEF Store, Leave, StorageTypes
    <3>2. o.phase = "store"
      BY <2>3 DEF Store
    <3>3. o \in PutOps \/ o \in PartOps
      BY <1>1, <3>2, OpKinds
    <3>4. CASE o.upload = None /\ ops'[d] = [o EXCEPT !.phase = "prepare"]
      <4>1. ops'[d].phase = "prepare" /\ ops'[d].upload = None
        BY <3>3, <3>4 DEF PutOps, PartOps
      <4> QED
        BY <4>1 DEF OpFollowsIntent
    <3>5. CASE o.upload # None /\ ops'[d] = [o EXCEPT !.phase = "add"]
      <4>1. ops'[d].phase = "add"
        BY <3>3, <3>5 DEF PutOps, PartOps
      <4> QED
        BY <1>5, <4>1
    <3> QED
      BY <1>5, <3>1, <3>4, <3>5 DEF Idle
  <2>4. CASE PrepareRequest(d)
    <3>1. o.phase = "prepare"
      BY <2>4 DEF PrepareRequest
    <3>2. o \in PutOps \/ o \in DeleteOps \/ o \in CompleteOps
      BY <1>1, <3>1, OpKinds
    <3>3. CASE Conflicts(o.key, o.manifest, o.marker)
      BY <1>5, <2>4, <3>3 DEF PrepareRequest, Leave, StorageTypes, Idle
    <3>4. CASE ~Conflicts(o.key, o.manifest, o.marker)
      <4>1. Prepare(o.key, o.manifest, o.marker) /\ ops'[d] = [o EXCEPT !.phase = "send"]
        BY <2>4, <3>4 DEF PrepareRequest, StorageTypes
      <4>2. /\ ops'[d].phase = "send" /\ ops'[d].key = o.key /\ ops'[d].manifest = o.manifest
            /\ ops'[d].marker = o.marker /\ ops'[d].upload = o.upload
        BY <3>2, <4>1 DEF PutOps, DeleteOps, CompleteOps
      <4>3. o.key \in Keys /\ o.manifest \in Seq(Chunks) /\ o.marker \in BOOLEAN
        BY <3>2 DEF PutOps, DeleteOps, CompleteOps
      <4>4. Intent(o.manifest, o.marker) \in Intents
        BY <4>3 DEF Intent, Intents
      <4>5. Intent(o.manifest, o.marker) # None
        BY <4>4 DEF Intents, Assumption
      <4>6. Intent(o.manifest, o.marker).manifest = o.manifest /\ Intent(o.manifest, o.marker).marker = o.marker
        BY DEF Intent
      <4>7. pubs'[o.key] # None /\ pubs'[o.key].manifest = o.manifest /\ pubs'[o.key].marker = o.marker
        <5>1. CASE pubs[o.key] = None
          BY <4>1, <4>3, <4>5, <4>6, <5>1 DEF Prepare, StorageTypes
        <5>2. CASE pubs[o.key] # None
          BY <3>4, <4>1, <5>2 DEF Prepare, Conflicts, SameContent
        <5> QED
          BY <5>1, <5>2
      <4>8. o.upload # None => o.key = UploadKey[o.upload] /\ o.manifest = Declared[o.upload]
        BY <3>1 DEF OpFollowsIntent
      <4> QED
        BY <4>2, <4>7, <4>8 DEF OpFollowsIntent, SameContent
    <3> QED
      BY <3>3, <3>4
  <2>5. CASE \E out \in Outcomes : PublishRequest(d, out)
    <3>1. PICK out \in Outcomes : PublishRequest(d, out)
      BY <2>5
    <3>2. o.phase = "send" /\ SendPublication(o.key, out)
      BY <3>1 DEF PublishRequest
    <3>3. CASE out = "ok" /\ o.upload # None
      <4>1. ops'[d] = [o EXCEPT !.phase = "complete"]
        BY <3>1, <3>3 DEF PublishRequest, StorageTypes
      <4>2. o \in PutOps \/ o \in DeleteOps \/ o \in CompleteOps
        BY <1>1, <3>2, OpKinds
      <4>3. /\ ops'[d].phase = "complete" /\ ops'[d].key = o.key /\ ops'[d].manifest = o.manifest
            /\ ops'[d].marker = o.marker /\ ops'[d].upload = o.upload
        BY <4>1, <4>2 DEF PutOps, DeleteOps, CompleteOps
      <4>4. /\ o.key \in Keys /\ pubs[o.key] # None /\ SameContent(pubs[o.key], o.manifest, o.marker)
            /\ o.key = UploadKey[o.upload] /\ o.manifest = Declared[o.upload]
        BY <1>2, <3>2, <3>3 DEF OpFollowsIntent
      <4>5. pubs'[o.key] = [pubs[o.key] EXCEPT !.done = TRUE] /\ pubs[o.key] \in Intents
        BY <3>2, <3>3, <4>4 DEF SendPublication, StorageTypes
      <4>6. pubs'[o.key].done
        BY <4>5 DEF Intents
      <4>7. pubs'[o.key] # None /\ pubs'[o.key].manifest = o.manifest /\ pubs'[o.key].marker = o.marker
        BY <4>4 DEF Forward, SameContent
      <4> QED
        BY <4>3, <4>4, <4>6, <4>7 DEF OpFollowsIntent, SameContent
    <3>4. CASE ~(out = "ok" /\ o.upload # None)
      BY <1>5, <3>1, <3>4 DEF PublishRequest, Leave, StorageTypes, Idle
    <3> QED
      BY <3>3, <3>4
  <2>6. CASE GetRequest(d)
    <3>1. PICK i \in LiveVersions : Enter(d, [phase |-> "reading", chunks |-> versions[i].chunks])
      BY <2>6 DEF GetRequest
    <3>2. ops'[d].phase = "reading"
      BY <3>1 DEF Enter, StorageTypes
    <3> QED
      BY <1>5, <3>2
  <2>7. CASE GetAnswer(d) \/ AddPart(d) \/ MarkComplete(d)
    BY <1>5, <2>7 DEF GetAnswer, AddPart, MarkComplete, Leave, StorageTypes, Idle
  <2>8. CASE \E u \in Uploads, n \in 1..2, x \in Chunks : PartRequest(d, u, n, x)
    <3>1. PICK u \in Uploads, n \in 1..2, x \in Chunks : PartRequest(d, u, n, x)
      BY <2>8
    <3>2. ops'[d] = [phase |-> "store", chunk |-> x, key |-> UploadKey[u], upload |-> u, number |-> n]
      BY <3>1 DEF PartRequest, Enter, StorageTypes
    <3>3. ops'[d].phase = "store" /\ ops'[d].upload # None
      BY <3>2 DEF Assumption
    <3> QED
      BY <3>3 DEF OpFollowsIntent
  <2>9. CASE \E u \in Uploads : CompleteRequest(d, u)
    <3>1. PICK u \in Uploads : CompleteRequest(d, u)
      BY <2>9
    <3>2. PICK ph \in {"freeze", "prepare"} :
            /\ Enter(d, [phase |-> ph, key |-> UploadKey[u], upload |-> u, manifest |-> Declared[u], marker |-> FALSE])
            /\ ph = "freeze" => uploads[u].parts = Declared[u]
      BY <3>1 DEF CompleteRequest
    <3>3. ops'[d] = [phase |-> ph, key |-> UploadKey[u], upload |-> u, manifest |-> Declared[u], marker |-> FALSE]
      BY <3>2 DEF Enter, StorageTypes
    <3>4. /\ ops'[d].phase = ph /\ ops'[d].key = UploadKey[u] /\ ops'[d].upload = u
          /\ ops'[d].manifest = Declared[u]
      BY <3>3
    <3>5. ph = "freeze" => uploads'[u].parts = Declared[u]
      BY <3>2 DEF UploadEffect
    <3> QED
      BY <3>4, <3>5 DEF OpFollowsIntent
  <2>10. CASE Freeze(d)
    <3>1. o.phase = "freeze"
      BY <2>10 DEF Freeze
    <3>2. ops'[d] = Idle \/ ops'[d] = [o EXCEPT !.phase = "prepare"]
      BY <2>10 DEF Freeze, Leave, StorageTypes
    <3>3. CASE ops'[d] = [o EXCEPT !.phase = "prepare"]
      <4>1. o \in CompleteOps
        BY <1>1, <3>1, OpKinds
      <4>2. /\ ops'[d].phase = "prepare" /\ ops'[d].key = o.key /\ ops'[d].manifest = o.manifest
            /\ ops'[d].upload = o.upload
        BY <3>3, <4>1 DEF CompleteOps
      <4> QED
        BY <3>1, <4>2 DEF OpFollowsIntent
    <3> QED
      BY <1>5, <3>2, <3>3 DEF Idle
  <2> QED
    BY <1>7, <2>1, <2>2, <2>3, <2>4, <2>5, <2>6, <2>7, <2>8, <2>9, <2>10 DEF ClientNext
<1>8. CASE AdminNext
  <2>1. ops' = ops
    BY <1>8 DEF AdminNext, AdminWaits, AdminEnters, AdminGivesUp, ReplayPublication, ReplayDone, ResumeUpload,
         ExpireAndCapture, Mark, Repair, Sweep, ListBeforeDelete, DropBucket
  <2> QED
    BY <1>4, <2>1
<1>9. CASE Crash
  BY <1>5, <1>9 DEF Crash, Idle
<1>10. CASE \/ \E i \in 1..Len(versions) : RemoveVersion(i)
            \/ Prune \/ UNCHANGED vars
            \/ \E u \in Uploads : StartUpload(u) \/ AbortUpload(u) \/ ExpireUpload(u)
            \/ \E m \in late : Deliver(m)
            \/ \E n \in Nodes : NodeRestart(n) \/ Damage(n)
  BY <1>4, <1>10 DEF RemoveVersion, Prune, vars, StartUpload, AbortUpload, ExpireUpload, Deliver, NodeRestart, Damage
<1> QED
  BY <1>4, <1>6, <1>7, <1>8, <1>9, <1>10 DEF Next

\* A request is under way only when nobody has the exclusive guard.
LEMMA ClientGuard ==
  ASSUME StorageTypes, Exclusive, BucketFollows, NEW c \in Clients, ClientNext(c)
  PROVE  admin.phase \in {"idle", "waiting"} /\ admin' = admin /\ bucket # "deleted" /\ bucket' = bucket
<1>1. admin' = admin /\ bucket' = bucket
  BY DEF ClientNext, PutRequest, DeleteRequest, Store, PrepareRequest, PublishRequest, GetRequest,
       GetAnswer, PartRequest, AddPart, CompleteRequest, Freeze, MarkComplete
<1>2. ops[c].phase # "idle" \/ (admin.phase = "idle" /\ bucket = "open")
  BY DEF ClientNext, PutRequest, DeleteRequest, Store, PrepareRequest, PublishRequest, GetRequest,
       GetAnswer, PartRequest, AddPart, CompleteRequest, Freeze, MarkComplete, Enter, SharedFree
<1> QED
  BY <1>1, <1>2 DEF Exclusive, BucketFollows, Idle

\* A key whose intent is closed gets no other version.
LEMMA NothingPending ==
  ASSUME VersionsFollow, Pending = {}, NEW k \in Keys, pubs[k] # None
  PROVE  MetaPublish(k) = versions
BY DEF VersionsFollow, Pending, MetaPublish

\* Maintenance marks after it has settled every publication (service.py).
LEMMA ReplayStep ==
  ASSUME Assumption, StorageTypes, StorageTypes', Exclusive, BucketFollows, ReplayFollows, [Next]_vars
  PROVE  ReplayFollows'
<1> DEFINE Late(ph) == ph \in {"resume", "mark", "repair", "sweep"}
<1>1. CASE ~Late(admin'.phase)
  BY <1>1 DEF ReplayFollows
<1>2. CASE UNCHANGED <<pubs, uploads, admin>>
  BY <1>2 DEF ReplayFollows, Pending, Completing
<1>3. ASSUME NEW c \in Clients, ClientNext(c) PROVE ReplayFollows'
  BY <1>1, <1>3, ClientGuard
<1>4. CASE \E k \in Keys, out \in Outcomes : ReplayPublication(k, out)
  BY <1>1, <1>4 DEF ReplayPublication, Idle
<1>5. CASE ReplayDone
  BY <1>5 DEF ReplayDone, ReplayFollows, Pending
<1>6. CASE \E u \in Uploads, out \in Outcomes : ResumeUpload(u, out)
  <2>1. PICK u \in Uploads, out \in Outcomes : ResumeUpload(u, out)
    BY <1>6
  <2> DEFINE k == UploadKey[u]
  <2>2. k \in Keys /\ admin.phase = "resume" /\ u \in Completing
    BY <2>1 DEF Keys, ResumeUpload
  <2>3. CASE admin' = Idle
    BY <1>1, <2>3 DEF Idle
  <2>4. CASE admin' # Idle /\ pubs[k] = None
    <3>1. Prepare(k, Declared[u], FALSE) /\ UNCHANGED <<admin, uploads>>
      BY <2>1, <2>4 DEF ResumeUpload
    <3>2. \A j \in Keys : j # k => pubs'[j] = pubs[j]
      BY <3>1 DEF Prepare, StorageTypes
    <3>3. \A j \in Pending' : j = k \/ j \in Pending
      BY <3>2 DEF Pending
    <3>4. Completing' = Completing
      BY <3>1 DEF Completing
    <3>5. \A j \in Pending' : \E w \in Completing' : UploadKey[w] = j
      BY <2>2, <3>3, <3>4 DEF ReplayFollows
    <3> QED
      BY <2>2, <3>1, <3>5 DEF ReplayFollows
  <2>5. CASE admin' # Idle /\ pubs[k] # None
    <3>1. /\ SendPublication(k, out) /\ out = "ok" /\ admin' = admin
          /\ uploads' = [uploads EXCEPT ![u].state = "complete"]
      BY <2>1, <2>5 DEF ResumeUpload
    <3>2. pubs' = [pubs EXCEPT ![k].done = TRUE] /\ pubs[k] \in Intents
      BY <2>2, <2>5, <3>1 DEF SendPublication, StorageTypes
    <3>3. pubs'[k].done /\ \A j \in Keys : j # k => pubs'[j] = pubs[j]
      BY <2>2, <3>2 DEF Intents, StorageTypes
    <3>4. \A j \in Pending' : j # k /\ j \in Pending
      BY <3>3 DEF Pending
    <3>5. \A w \in Uploads : w # u => uploads'[w] = uploads[w]
      BY <3>1 DEF StorageTypes
    <3>6. \A w \in Completing : w # u => w \in Completing'
      BY <3>5 DEF Completing
    <3>7. \A j \in Pending' : \E w \in Completing' : UploadKey[w] = j
      BY <2>2, <3>4, <3>6 DEF ReplayFollows
    <3> QED
      BY <2>2, <3>1, <3>7 DEF ReplayFollows
  <2> QED
    BY <2>3, <2>4, <2>5
<1>7. CASE ExpireAndCapture
  BY <1>7 DEF ExpireAndCapture, ReplayFollows, Pending
<1>8. CASE Mark \/ Repair
  <2>1. admin.phase \in {"mark", "repair"} /\ pubs' = pubs
    BY <1>8 DEF Mark, Repair
  <2>2. admin'.phase # "resume"
    <3>1. CASE Mark
      BY <3>1 DEF Mark
    <3>2. CASE Repair
      BY <3>2, AdminKinds DEF Repair, StorageTypes, AdminRecords, Idle
    <3> QED
      BY <1>8, <3>1, <3>2
  <2> QED
    BY <2>1, <2>2 DEF ReplayFollows, Pending
<1>9. CASE \/ \E task \in {"replay", "drop"} : AdminWaits(task)
           \/ AdminGivesUp
           \/ \E S \in SUBSET Nodes : \E L \in SUBSET (Nodes \ S) : Sweep(S, L)
           \/ ListBeforeDelete \/ DropBucket \/ Crash
  BY <1>1, <1>9 DEF AdminWaits, AdminGivesUp, Sweep, ListBeforeDelete, DropBucket, Crash, Idle
<1>10. CASE AdminEnters
  BY <1>1, <1>10, AdminKinds DEF AdminEnters, StorageTypes
<1>11. CASE \E u \in Uploads : StartUpload(u) \/ AbortUpload(u)
  BY <1>1, <1>11 DEF StartUpload, AbortUpload, SharedFree
<1>12. CASE \E u \in Uploads : ExpireUpload(u)
  <2>1. PICK u \in Uploads : ExpireUpload(u)
    BY <1>12
  <2>2. uploads' = [uploads EXCEPT ![u].expired = TRUE] /\ UNCHANGED <<pubs, admin>>
    BY <2>1 DEF ExpireUpload
  <2>3. \A w \in Uploads : uploads'[w].state = uploads[w].state
    BY <2>2 DEF StorageTypes, UploadRecords
  <2> QED
    BY <2>2, <2>3 DEF ReplayFollows, Pending, Completing
<1>13. CASE \/ \E i \in 1..Len(versions) : RemoveVersion(i)
            \/ Prune \/ UNCHANGED vars
            \/ \E m \in late : Deliver(m)
            \/ \E n \in Nodes : NodeRestart(n) \/ Damage(n)
  BY <1>2, <1>13 DEF RemoveVersion, Prune, vars, Deliver, NodeRestart, Damage
<1> QED
  BY <1>3, <1>4, <1>5, <1>6, <1>7, <1>8, <1>9, <1>10, <1>11, <1>12, <1>13 DEF Next, AdminNext

\* A bucket is deleted when nothing can appear in it any more (catalog.py).
LEMMA BucketStep ==
  ASSUME Assumption, StorageTypes, StorageTypes', Exclusive, VersionsFollow, BucketFollows, [Next]_vars
  PROVE  BucketFollows'
<1>1. ASSUME bucket' = bucket, admin'.phase = admin.phase \/ admin'.phase # "dropping",
             UNCHANGED <<pubs, versions, ops>>,
             \A u \in Uploads : uploads'[u].state \in {"active", "completing"} => uploads'[u].state = uploads[u].state
      PROVE  BucketFollows'
  BY <1>1 DEF BucketFollows, Pending, LiveVersions, Settled
<1>2. ASSUME bucket' # "deleted", admin'.phase # "dropping" PROVE BucketFollows'
  BY <1>2 DEF BucketFollows
<1>3. ASSUME NEW c \in Clients, ClientNext(c) PROVE BucketFollows'
  BY <1>2, <1>3, ClientGuard
<1>4. CASE \E k \in Keys, out \in Outcomes : ReplayPublication(k, out)
  <2>1. bucket' = bucket /\ Pending # {} /\ admin'.phase # "dropping"
    BY <1>4 DEF ReplayPublication, Idle
  <2> QED
    BY <1>2, <2>1 DEF BucketFollows
<1>5. CASE \E u \in Uploads, out \in Outcomes : ResumeUpload(u, out)
  <2>1. bucket' = bucket /\ ~Settled /\ admin'.phase # "dropping"
    <3>1. PICK u \in Uploads, out \in Outcomes : ResumeUpload(u, out)
      BY <1>5
    <3>2. bucket' = bucket /\ uploads[u].state = "completing" /\ admin.phase = "resume"
      BY <3>1 DEF ResumeUpload, Completing
    <3>3. admin' = admin \/ admin' = Idle
      BY <3>1 DEF ResumeUpload
    <3> QED
      BY <3>2, <3>3 DEF Settled, Idle
  <2> QED
    BY <1>2, <2>1 DEF BucketFollows
<1>6. CASE ExpireAndCapture
  <2>1. \A u \in Uploads : [uploads[u] EXCEPT !.state = "aborted"].state = "aborted"
    BY DEF StorageTypes, UploadRecords
  <2>2. \A u \in Uploads : uploads'[u].state \in {"active", "completing"} => uploads'[u].state = uploads[u].state
    BY <1>6, <2>1 DEF ExpireAndCapture
  <2> QED
    BY <1>1, <1>6, <2>2 DEF ExpireAndCapture
<1>7. CASE ListBeforeDelete
  <2>1. UNCHANGED <<bucket, pubs, versions, uploads, ops>>
    BY <1>7 DEF ListBeforeDelete
  <2>2. CASE LiveVersions = {}
    BY <2>1, <2>2 DEF BucketFollows, Pending, LiveVersions, Settled
  <2>3. CASE LiveVersions # {}
    <3>1. admin' = Idle
      BY <1>7, <2>3 DEF ListBeforeDelete
    <3> QED
      BY <1>1, <2>1, <3>1 DEF Idle
  <2> QED
    BY <2>2, <2>3
<1>8. CASE DropBucket
  <2>1. admin.phase = "dropping" /\ UNCHANGED <<pubs, versions, uploads, ops>> /\ admin' = Idle
    BY <1>8 DEF DropBucket
  <2>2. \A c \in Clients : ops[c] = Idle
    BY <2>1 DEF Exclusive
  <2>3. bucket' = bucket \/ (bucket' = "deleted" /\ Pending = {} /\ Settled)
    BY <1>8 DEF DropBucket, Settled
  <2> QED
    BY <2>1, <2>2, <2>3 DEF BucketFollows, Pending, LiveVersions, Settled, Idle
<1>9. CASE \/ \E task \in {"replay", "drop"} : AdminWaits(task)
           \/ AdminGivesUp \/ ReplayDone \/ Mark
           \/ \E S \in SUBSET Nodes : \E L \in SUBSET (Nodes \ S) : Sweep(S, L)
  BY <1>1, <1>9 DEF AdminWaits, AdminGivesUp, ReplayDone, Mark, Sweep, Idle
<1>10. CASE AdminEnters
  BY <1>1, <1>10, AdminKinds DEF AdminEnters, StorageTypes
<1>11. CASE Repair
  <2>1. admin'.phase # "dropping"
    BY <1>11, AdminKinds DEF Repair, StorageTypes, AdminRecords, Idle
  <2> QED
    BY <1>1, <1>11, <2>1 DEF Repair
<1>12. CASE \E i \in 1..Len(versions) : RemoveVersion(i)
  BY <1>2, <1>12 DEF RemoveVersion, SharedFree
<1>13. CASE Prune
  BY <1>2, <1>13 DEF Prune, SharedFree
<1>14. CASE \E u \in Uploads : StartUpload(u)
  BY <1>2, <1>14 DEF StartUpload, SharedFree
<1>15. CASE \E u \in Uploads : AbortUpload(u) \/ ExpireUpload(u)
  <2>1. PICK u \in Uploads : AbortUpload(u) \/ ExpireUpload(u)
    BY <1>15
  <2>2. \A w \in Uploads : uploads'[w].state \in {"active", "completing"} => uploads'[w].state = uploads[w].state
    BY <2>1 DEF AbortUpload, ExpireUpload, StorageTypes, UploadRecords
  <2> QED
    BY <1>1, <2>1, <2>2 DEF AbortUpload, ExpireUpload
<1>16. CASE \E m \in late : Deliver(m)
  <2>1. PICK m \in late : Deliver(m)
    BY <1>16
  <2>2. UNCHANGED <<bucket, pubs, uploads, ops, admin>>
    BY <2>1 DEF Deliver
  <2>3. Pending = {} => versions' = versions
    <3>1. CASE m.kind = "publish" /\ versions' = MetaPublish(m.key)
      <4>1. m.key \in Keys /\ pubs[m.key] # None
        BY <3>1, LateKinds DEF VersionsFollow
      <4> QED
        BY <3>1, <4>1, NothingPending
    <3> QED
      BY <2>1, <3>1 DEF Deliver
  <2> QED
    BY <2>2, <2>3 DEF BucketFollows, Pending, LiveVersions, Settled
<1>17. CASE \/ UNCHANGED vars
            \/ \E n \in Nodes : NodeRestart(n) \/ Damage(n)
  BY <1>1, <1>17 DEF vars, NodeRestart, Damage
<1>18. CASE Crash
  BY <1>18 DEF Crash, BucketFollows, Pending, LiveVersions, Settled, Idle
<1> QED
  BY <1>3, <1>4, <1>5, <1>6, <1>7, <1>8, <1>9, <1>10, <1>11, <1>12, <1>13, <1>14, <1>15, <1>16, <1>17, <1>18
     DEF Next, AdminNext

(***************************************************************************)
(* The invariant of publications.                                          *)
(***************************************************************************)
LEMMA InitPublicationIInv ==
  ASSUME Assumption, Init
  PROVE  PublicationIInv
<1>1. <<>> \in PartLists
  <2>1. <<>> \in [1..0 -> Chunks] /\ 1..0 \in SUBSET Nat
    OBVIOUS
  <2> QED
    BY <2>1 DEF PartLists
<1>2. [state |-> "none", expired |-> FALSE, parts |-> <<>>] \in UploadRecords
  BY <1>1 DEF UploadRecords
<1>3. IsFiniteSet({}) /\ versions = <<>> /\ Len(versions) = 0
  BY FS_EmptySet DEF Init
<1>4. <<>> \in Seq(VersionRecords)
  OBVIOUS
<1>5. StorageTypes
  BY <1>2, <1>3, <1>4 DEF Init, StorageTypes, OpRecords, AdminRecords
<1>6. DOMAIN <<>> = {}
  OBVIOUS
<1>7. \A u \in Uploads : uploads[u].state = "none" /\ uploads[u].parts = <<>>
  BY DEF Init
<1>8. (\A u \in Uploads : UploadFollows(u)) /\ \A c \in Clients : OpFollowsIntent(c)
  BY <1>6, <1>7 DEF Init, UploadFollows, OpFollowsIntent, Idle
<1>9. VersionsFollow
  BY <1>3 DEF Init, VersionsFollow, PublishedOnce
<1>10. BucketFollows /\ ReplayFollows /\ Exclusive
  BY DEF Init, BucketFollows, ReplayFollows, Exclusive, Idle
<1> QED
  BY <1>5, <1>8, <1>9, <1>10 DEF PublicationIInv

LEMMA PublicationSteps ==
  ASSUME Assumption, PublicationIInv, [Next]_vars
  PROVE  /\ PublicationIInv' /\ Effect /\ Forward
         /\ \A u \in Uploads : UploadEffect(u)
<1> USE DEF PublicationIInv
<1>1. StorageTypes'
  BY TypesStep
<1>2. Effect
  BY Effects
<1>3. Forward
  BY <1>2, StepsForward
<1>4. \A u \in Uploads : UploadEffect(u)
  BY <1>1, <1>3, UploadEffects
<1>5. VersionsFollow'
  BY <1>1, <1>2, VersionsStep
<1>6. \A u \in Uploads : UploadFollows(u)'
  BY <1>3, <1>4, UploadsStep
<1>7. \A c \in Clients : OpFollowsIntent(c)'
  BY <1>1, <1>3, <1>4, OpsStep
<1>8. Exclusive' /\ BucketFollows' /\ ReplayFollows'
  BY <1>1, ExclusiveStep, BucketStep, ReplayStep
<1> QED
  BY <1>1, <1>2, <1>3, <1>4, <1>5, <1>6, <1>7, <1>8

\* Intents, versions, uploads and the requests under way stay related
\* (catalog.py, metadata.py, service.py).
THEOREM PublicationInvariant == ASSUME Assumption PROVE Spec => []PublicationIInv
<1>1. Init => PublicationIInv
  BY InitPublicationIInv
<1>2. PublicationIInv /\ [Next]_vars => PublicationIInv'
  BY PublicationSteps
<1> QED
  BY <1>1, <1>2, PTL DEF Spec

\* A publication makes one version whatever is lost, late or retried, its intent
\* is closed only when the version exists, a complete upload is the published
\* one, and no live version appears in a deleted bucket (catalog.py
\* prepare_publication, metadata.py publish, Service.complete, Service.maintenance).
THEOREM PublicationsAreSound == ASSUME Assumption PROVE Spec => []PublicationsSound
<1>1. PublicationIInv => PublicationsSound
  <2> SUFFICES ASSUME PublicationIInv PROVE PublicationsSound
    OBVIOUS
  <2>1. StorageTypes /\ VersionsFollow /\ BucketFollows /\ \A u \in Uploads : UploadFollows(u)
    BY DEF PublicationIInv
  <2>2. DOMAIN pubs = Keys /\ DOMAIN uploads = Uploads
    BY <2>1 DEF StorageTypes
  <2>3. PublishedOnce /\ ClosedIntentsPublished /\ NoVersionInDeletedBucket
    BY <2>1, <2>2 DEF VersionsFollow, ClosedIntentsPublished, NoVersionInDeletedBucket, BucketFollows
  <2>4. ASSUME NEW u \in Uploads, uploads[u].state = "complete"
        PROVE  \E i \in 1..Len(versions) : versions[i].key = UploadKey[u] /\ versions[i].chunks = RangeOf(Declared[u])
    <3>1. UploadKey[u] \in Keys
      BY DEF Keys
    <3>2. Closed(u)
      BY <2>1, <2>4 DEF UploadFollows
    <3>3. PICK i \in 1..Len(versions) : versions[i].key = UploadKey[u]
      BY <2>1, <3>1, <3>2 DEF Closed, VersionsFollow, Published
    <3> QED
      BY <2>1, <3>2, <3>3 DEF Closed, VersionsFollow
  <2> QED
    BY <2>2, <2>3, <2>4 DEF PublicationsSound, CompleteUploadsPublished
<1> QED
  BY <1>1, PublicationInvariant, PTL

\* The types of the coordinator, the catalog, the metadata and the nodes.
THEOREM StorageTyped == ASSUME Assumption PROVE Spec => []TypeOK
<1>1. PublicationIInv => TypeOK
  <2> SUFFICES ASSUME PublicationIInv PROVE TypeOK
    OBVIOUS
  <2>1. StorageTypes /\ Exclusive
    BY DEF PublicationIInv
  <2>2. \A k \in Keys : pubs[k] = None \/ /\ pubs[k].manifest \in Seq(Chunks)
                                          /\ pubs[k].marker \in BOOLEAN /\ pubs[k].done \in BOOLEAN
    BY <2>1 DEF StorageTypes, Intents
  <2>3. \A u \in Uploads : uploads[u] \in UploadRecords
    BY <2>1 DEF StorageTypes
  <2>4. \A u \in Uploads :
          /\ uploads[u].state \in {"none", "active", "completing", "complete", "aborted"}
          /\ uploads[u].expired \in BOOLEAN /\ uploads[u].parts \in PartLists
    BY <2>3 DEF UploadRecords
  <2>5. \A u \in Uploads : PartsOf(u) \subseteq Chunks
    BY <2>4, PartsInChunks DEF PartsOf
  <2>6. \A m \in late : m.kind \in {"put", "collect", "publish"}
    BY <2>1 DEF StorageTypes, LatePuts, LateCollects, LatePublishes
  <2>7. \A c \in Clients : ops[c] \in OpRecords
    BY <2>1 DEF StorageTypes
  <2>8. \A c \in Clients : ops[c].phase \in {"idle", "store", "prepare", "send", "reading", "add", "freeze", "complete"}
    <3> SUFFICES ASSUME NEW o \in OpRecords
                 PROVE  o.phase \in {"idle", "store", "prepare", "send", "reading", "add", "freeze", "complete"}
      BY <2>7
    <3>1. o \in PutOps \/ o \in DeleteOps \/ o \in PartOps => o.phase \in {"store", "prepare", "send", "add"}
      BY DEF PutOps, DeleteOps, PartOps
    <3>2. o \in CompleteOps => o.phase \in {"freeze", "prepare", "send", "complete"}
      BY DEF CompleteOps
    <3>3. o \in ReadOps \/ o = Idle => o.phase \in {"reading", "idle"}
      BY DEF ReadOps, Idle
    <3> QED
      BY <3>1, <3>2, <3>3 DEF OpRecords
  <2>9. admin.phase \in {"idle", "waiting", "replay", "resume", "mark", "repair", "sweep", "drop", "dropping"}
    BY <2>1 DEF StorageTypes, AdminRecords, Idle
  <2>10. admin.phase \notin {"idle", "waiting"} => \A c \in Clients : ops[c].phase = "idle"
    BY <2>1 DEF Exclusive, Idle
  <2>11. versions \in Seq([key : Keys, chunks : SUBSET Chunks, marker : BOOLEAN, removed : BOOLEAN])
    BY <2>1 DEF StorageTypes, VersionRecords
  <2>12. bucket \in {"open", "deleted"} /\ stored \in [Nodes -> SUBSET Chunks] /\ gen \in [Nodes -> Nat]
    BY <2>1 DEF StorageTypes
  <2> QED
    BY <2>2, <2>4, <2>5, <2>6, <2>8, <2>9, <2>10, <2>11, <2>12 DEF TypeOK
<1> QED
  BY <1>1, PublicationInvariant, PTL

(***************************************************************************)
(* The nodes.  No step but the one that marks makes a chunk less safe,     *)
(* apart from the copies that damage takes.                                *)
(***************************************************************************)
LEMMA SafeMember ==
  ASSUME NEW x, NEW st, NEW gs, NEW ms, NEW ad, NEW n
  PROVE  n \in SafeOn(x, st, gs, ms, ad) <=>
           /\ n \in Nodes /\ x \in st[n]
           /\ \A m \in ms : ~Threatens(m, n, x, gs[n])
           /\ ~SweepThreatens(ad, n, x, gs[n])
BY DEF SafeOn

QuietLate == \A m \in late' \ late : m.kind # "collect"
QuietAdmin == admin' = admin \/ admin'.phase \notin {"repair", "sweep"}
KeptSafe(x, n) == n \in SafeOn(x, stored, gen, late, admin) => n \in SafeOn(x, stored', gen', late', admin')

\* A node is as safe as before when its copy stays and its generation is the
\* same, or one that no collection is for.
LEMMA QuietKeeps ==
  ASSUME StorageTypes, QuietLate, QuietAdmin, NEW x, NEW n \in Nodes,
         x \in stored[n] => x \in stored'[n],
         gen'[n] = gen[n] \/ gen'[n] = FreshGen(n)
  PROVE  KeptSafe(x, n)
<1> SUFFICES ASSUME n \in SafeOn(x, stored, gen, late, admin)
             PROVE  n \in SafeOn(x, stored', gen', late', admin')
  BY DEF KeptSafe
<1>1. /\ x \in stored[n] /\ \A m \in late : ~Threatens(m, n, x, gen[n])
      /\ ~SweepThreatens(admin, n, x, gen[n])
  BY SafeMember
<1>2. (\A m \in late : ~Threatens(m, n, x, gen'[n])) /\ ~SweepThreatens(admin, n, x, gen'[n])
  BY <1>1, FreshIsSafe
<1>3. \A m \in late' : ~Threatens(m, n, x, gen'[n])
  BY <1>2 DEF QuietLate, Threatens
<1>4. ~SweepThreatens(admin', n, x, gen'[n])
  BY <1>2 DEF QuietAdmin, SweepThreatens
<1> QED
  BY <1>1, <1>3, <1>4, SafeMember

LEMMA PutKeeps ==
  ASSUME StorageTypes, QuietLate, QuietAdmin, NEW S, NEW y, PutOn(S, y), NEW x, NEW n \in Nodes
  PROVE  KeptSafe(x, n)
<1>1. x \in stored[n] => x \in stored'[n]
  BY DEF PutOn
<1>2. gen'[n] = gen[n] \/ gen'[n] = FreshGen(n)
  BY DEF PutOn
<1> QED
  BY <1>1, <1>2, QuietKeeps

\* The nodes that acknowledge a chunk hold it, and no collection is for their
\* new generation (node.py put).
LEMMA PutIsSafe ==
  ASSUME StorageTypes, QuietLate, QuietAdmin, NEW S \in SUBSET Nodes, NEW x, PutOn(S, x), NEW n \in S
  PROVE  n \in SafeOn(x, stored', gen', late', admin')
<1>1. n \in Nodes /\ x \in stored'[n] /\ gen'[n] = FreshGen(n)
  BY DEF PutOn
<1>2. (\A m \in late : ~Threatens(m, n, x, gen'[n])) /\ ~SweepThreatens(admin, n, x, gen'[n])
  BY <1>1, FreshIsSafe
<1>3. \A m \in late' : ~Threatens(m, n, x, gen'[n])
  BY <1>2 DEF QuietLate, Threatens
<1>4. ~SweepThreatens(admin', n, x, gen'[n])
  BY <1>2 DEF QuietAdmin, SweepThreatens
<1> QED
  BY <1>1, <1>3, <1>4, SafeMember

\* A collection spares the nodes whose generation has changed and the chunks that
\* were live (node.py collect).
LEMMA CollectKeeps ==
  ASSUME StorageTypes, NEW S, NEW live, NEW gs, CollectOn(S, live, gs), NEW x \in Chunks, NEW n \in Nodes,
         n \in S /\ gs[n] = gen[n] => x \in live
  PROVE  /\ x \in stored[n] => x \in stored'[n]
         /\ gen'[n] = gen[n] \/ gen'[n] = FreshGen(n)
         /\ n \notin S => gen'[n] = gen[n]
<1>1. PICK kept \in SUBSET (Chunks \ live) :
        stored' = [i \in Nodes |-> IF i \in S /\ gs[i] = gen[i] THEN stored[i] \cap (live \cup kept) ELSE stored[i]]
  BY DEF CollectOn
<1>2. x \in stored[n] => x \in stored'[n]
  BY <1>1
<1>3. gen' = [i \in Nodes |-> IF i \in S /\ gs[i] = gen[i] THEN FreshGen(i) ELSE gen[i]]
  BY DEF CollectOn
<1> QED
  BY <1>2, <1>3

LEMMA DeliverKeeps ==
  ASSUME StorageTypes, NEW m \in late, Deliver(m), NEW x \in Chunks, NEW n \in Nodes
  PROVE  KeptSafe(x, n)
<1>1. QuietLate /\ QuietAdmin
  BY DEF Deliver, QuietLate, QuietAdmin
<1>2. CASE m.kind = "put" /\ PutOn({m.node}, m.chunk)
  BY <1>1, <1>2, PutKeeps
<1>3. CASE m.kind = "collect" /\ CollectOn({m.node}, m.live, [i \in Nodes |-> m.gen])
  <2> SUFFICES ASSUME n \in SafeOn(x, stored, gen, late, admin) PROVE KeptSafe(x, n)
    BY DEF KeptSafe
  <2>1. ~Threatens(m, n, x, gen[n])
    BY SafeMember
  <2>2. n \in {m.node} /\ [i \in Nodes |-> m.gen][n] = gen[n] => x \in m.live
    BY <1>3, <2>1 DEF Threatens
  <2>3. (x \in stored[n] => x \in stored'[n]) /\ (gen'[n] = gen[n] \/ gen'[n] = FreshGen(n))
    BY <1>3, <2>2, CollectKeeps
  <2> QED
    BY <1>1, <2>3, QuietKeeps
<1>4. CASE UNCHANGED <<stored, gen>>
  BY <1>1, <1>4, QuietKeeps
<1> QED
  BY <1>2, <1>3, <1>4 DEF Deliver

LEMMA SweepKeeps ==
  ASSUME StorageTypes, NEW S \in SUBSET Nodes, NEW L \in SUBSET (Nodes \ S), Sweep(S, L),
         NEW x \in Chunks, NEW n \in Nodes
  PROVE  KeptSafe(x, n)
<1> SUFFICES ASSUME n \in SafeOn(x, stored, gen, late, admin)
             PROVE  n \in SafeOn(x, stored', gen', late', admin')
  BY DEF KeptSafe
<1>1. /\ x \in stored[n] /\ \A m \in late : ~Threatens(m, n, x, gen[n])
      /\ ~SweepThreatens(admin, n, x, gen[n])
  BY SafeMember
<1>2. admin.phase = "sweep" /\ CollectOn(S, admin.live, admin.gens) /\ admin' = Idle
  BY DEF Sweep
<1>3. admin.gens[n] = gen[n] => x \in admin.live
  BY <1>1, <1>2 DEF SweepThreatens
<1>4. /\ x \in stored[n] => x \in stored'[n]
      /\ gen'[n] = gen[n] \/ gen'[n] = FreshGen(n)
      /\ n \notin S => gen'[n] = gen[n]
  BY <1>2, <1>3, CollectKeeps
<1>5. \A m \in late : ~Threatens(m, n, x, gen'[n])
  BY <1>1, <1>4, FreshIsSafe
<1>6. \A m \in late' \ late : ~Threatens(m, n, x, gen'[n])
  <2> SUFFICES ASSUME NEW m \in late' \ late, m.node = n, m.gen = gen'[n], x \notin m.live PROVE FALSE
    BY DEF Threatens
  <2>1. PICK i \in L : m = [kind |-> "collect", node |-> i, live |-> admin.live, gen |-> admin.gens[i]]
    BY DEF Sweep
  <2>2. i = n /\ m.live = admin.live /\ m.gen = admin.gens[n]
    BY <2>1
  <2>3. gen'[n] = gen[n]
    BY <1>4, <2>2
  <2> QED
    BY <1>3, <2>2, <2>3
<1>7. ~SweepThreatens(admin', n, x, gen'[n])
  BY <1>2 DEF SweepThreatens, Idle
<1>8. \A m \in late' : ~Threatens(m, n, x, gen'[n])
  BY <1>5, <1>6
<1> QED
  BY <1>1, <1>4, <1>7, <1>8, SafeMember

LEMMA RepairKeeps ==
  ASSUME StorageTypes, Repair, NEW x \in Chunks, NEW n \in Nodes
  PROVE  KeptSafe(x, n)
<1> SUFFICES ASSUME n \in SafeOn(x, stored, gen, late, admin)
             PROVE  n \in SafeOn(x, stored', gen', late', admin')
  BY DEF KeptSafe
<1>1. /\ x \in stored[n] /\ \A m \in late : ~Threatens(m, n, x, gen[n])
      /\ ~SweepThreatens(admin, n, x, gen[n])
  BY SafeMember
<1>2. PICK R \in [Nodes -> SUBSET admin.live] :
        /\ stored' = [i \in Nodes |-> stored[i] \cup R[i]]
        /\ gen' = [i \in Nodes |-> IF R[i] # {} THEN FreshGen(i) ELSE gen[i]]
  BY DEF Repair
<1>3. x \in stored'[n] /\ (gen'[n] = gen[n] \/ gen'[n] = FreshGen(n))
  BY <1>1, <1>2
<1>4. admin.phase = "repair" /\ late' = late /\ admin' = [admin EXCEPT !.phase = "sweep"]
  BY DEF Repair
<1>5. admin \in [phase : {"repair", "sweep"}, gens : [Nodes -> Nat], live : SUBSET Chunks]
  BY <1>4 DEF StorageTypes, AdminRecords, Idle
<1>6. admin'.gens = admin.gens /\ admin'.live = admin.live
  BY <1>4, <1>5
<1>7. (\A m \in late : ~Threatens(m, n, x, gen'[n])) /\ ~SweepThreatens(admin, n, x, gen'[n])
  BY <1>1, <1>3, FreshIsSafe
<1>8. ~SweepThreatens(admin', n, x, gen'[n])
  BY <1>4, <1>6, <1>7 DEF SweepThreatens
<1> QED
  BY <1>3, <1>4, <1>7, <1>8, SafeMember

LEMMA EnoughKept ==
  ASSUME Assumption, StorageTypes, NEW x, \A n \in Nodes : KeptSafe(x, n), lost' = lost,
         Enough(SafeOn(x, stored, gen, late, admin), lost)
  PROVE  Enough(SafeOn(x, stored', gen', late', admin'), lost')
<1> DEFINE S == SafeOn(x, stored, gen, late, admin)
           T == SafeOn(x, stored', gen', late', admin')
<1>1. S \in SUBSET Nodes /\ T \in SUBSET Nodes
  BY DEF SafeOn
<1>2. S \subseteq T
  BY <1>1 DEF KeptSafe
<1>3. lost \in Nat
  BY DEF StorageTypes
<1> HIDE DEF S, T
<1>4. Enough(S, lost)
  BY DEF S
<1>5. Enough(T, lost)
  BY <1>1, <1>2, <1>3, <1>4, EnoughGrows
<1> QED
  BY <1>5 DEF T

LEMMA DamageKeeps ==
  ASSUME Assumption, StorageTypes, NEW x, NEW n \in Nodes, Damage(n),
         Enough(SafeOn(x, stored, gen, late, admin), lost)
  PROVE  Enough(SafeOn(x, stored', gen', late', admin'), lost')
<1> DEFINE S == SafeOn(x, stored, gen, late, admin)
           T == SafeOn(x, stored', gen', late', admin')
<1>1. S \in SUBSET Nodes /\ T \in SUBSET Nodes
  BY DEF SafeOn
<1>2. /\ \A i \in Nodes : i # n => stored'[i] = stored[i]
      /\ gen' = gen /\ late' = late /\ admin' = admin /\ lost' = lost + 1 /\ lost \in Nat
  BY DEF Damage, StorageTypes
<1>3. S \ {n} \subseteq T
  BY <1>1, <1>2, SafeMember
<1>4. Enough(S, lost)
  OBVIOUS
<1> HIDE DEF S, T
<1>5. IsFiniteSet(S) /\ IsFiniteSet(S \ {n})
  BY <1>1, FS_Subset DEF Assumption
<1>6. Cardinality(S) \in Nat /\ Cardinality(S \ {n}) \in Nat /\ Cardinality(S \ {n}) >= Cardinality(S) - 1
  <2>1. Cardinality(S) \in Nat /\ Cardinality(S \ {n}) \in Nat
    BY <1>5, FS_CardinalityType
  <2>2. Cardinality(S \ {n}) = IF n \in S THEN Cardinality(S) - 1 ELSE Cardinality(S)
    BY <1>5, FS_RemoveElement
  <2> QED
    BY <2>1, <2>2
<1>7. Quorum \in Int
  BY FS_CardinalityType DEF Assumption
<1>8. Enough(S \ {n}, lost + 1)
  BY <1>2, <1>4, <1>6, <1>7 DEF Enough
<1>9. Enough(T, lost + 1)
  BY <1>1, <1>2, <1>3, <1>8, EnoughGrows
<1> QED
  BY <1>2, <1>9 DEF T

LEMMA ClientNodes ==
  ASSUME StorageTypes, NEW c \in Clients, ClientNext(c), NEW x, NEW n \in Nodes
  PROVE  KeptSafe(x, n) /\ lost' = lost
<1>1. admin' = admin /\ lost' = lost
  BY DEF ClientNext, PutRequest, DeleteRequest, Store, PrepareRequest, PublishRequest, GetRequest,
       GetAnswer, PartRequest, AddPart, CompleteRequest, Freeze, MarkComplete
<1>2. QuietAdmin
  BY <1>1 DEF QuietAdmin
<1>3. CASE Store(c)
  <2>1. PICK S \in SUBSET Nodes : \E L \in SUBSET (Nodes \ S) :
          /\ PutOn(S, ops[c].chunk)
          /\ late' = late \cup {[kind |-> "put", node |-> i, chunk |-> ops[c].chunk] : i \in L}
    BY <1>3 DEF Store
  <2>2. QuietLate
    BY <2>1 DEF QuietLate
  <2> QED
    BY <1>1, <1>2, <2>1, <2>2, PutKeeps
<1>4. CASE UNCHANGED <<stored, gen>> /\ QuietLate
  BY <1>1, <1>2, <1>4, QuietKeeps
<1>5. CASE \E out \in Outcomes : PublishRequest(c, out)
  <2>1. QuietLate
    BY <1>5 DEF PublishRequest, SendPublication, QuietLate, LatePublish
  <2> QED
    BY <1>4, <1>5, <2>1 DEF PublishRequest
<1>6. CASE late' = late /\ UNCHANGED <<stored, gen>>
  BY <1>4, <1>6 DEF QuietLate
<1> QED
  BY <1>3, <1>5, <1>6 DEF ClientNext, PutRequest, DeleteRequest, PrepareRequest, GetRequest,
       GetAnswer, PartRequest, AddPart, CompleteRequest, Freeze, MarkComplete

LEMMA NodesKeep ==
  ASSUME Assumption, StorageTypes, [Next]_vars, ~Mark, NEW x \in Chunks,
         Enough(SafeOn(x, stored, gen, late, admin), lost)
  PROVE  Enough(SafeOn(x, stored', gen', late', admin'), lost')
<1> DEFINE Goal == Enough(SafeOn(x, stored', gen', late', admin'), lost')
<1>1. ASSUME \A n \in Nodes : KeptSafe(x, n), lost' = lost PROVE Goal
  BY <1>1, EnoughKept
<1> SUFFICES Goal
  OBVIOUS
<1> HIDE DEF Goal
<1>2. ASSUME QuietLate, QuietAdmin, UNCHANGED <<stored, gen>>, lost' = lost PROVE Goal
  BY <1>1, <1>2, QuietKeeps
<1>3. ASSUME NEW c \in Clients, ClientNext(c) PROVE Goal
  <2>1. \A n \in Nodes : KeptSafe(x, n) /\ lost' = lost
    BY <1>3, ClientNodes
  <2>2. lost' = lost
    BY <1>3 DEF ClientNext, PutRequest, DeleteRequest, Store, PrepareRequest, PublishRequest, GetRequest,
       GetAnswer, PartRequest, AddPart, CompleteRequest, Freeze, MarkComplete
  <2> QED
    BY <1>1, <2>1, <2>2
<1>4. CASE \/ \E task \in {"replay", "drop"} : AdminWaits(task)
           \/ AdminGivesUp \/ ReplayDone \/ ExpireAndCapture \/ ListBeforeDelete \/ DropBucket \/ Crash
  <2>1. QuietLate /\ QuietAdmin
    BY <1>4 DEF AdminWaits, AdminGivesUp, ReplayDone, ExpireAndCapture, ListBeforeDelete, DropBucket,
         Crash, QuietLate, QuietAdmin, Idle
  <2> QED
    BY <1>2, <1>4, <2>1 DEF AdminWaits, AdminGivesUp, ReplayDone, ExpireAndCapture, ListBeforeDelete, DropBucket, Crash
<1>5. CASE AdminEnters
  <2>1. QuietLate /\ QuietAdmin
    BY <1>5, AdminKinds DEF AdminEnters, QuietLate, QuietAdmin, StorageTypes
  <2> QED
    BY <1>2, <1>5, <2>1 DEF AdminEnters
<1>6. CASE \E k \in Keys, out \in Outcomes : ReplayPublication(k, out)
  <2>1. QuietLate /\ QuietAdmin
    BY <1>6 DEF ReplayPublication, SendPublication, LatePublish, QuietLate, QuietAdmin, Idle
  <2> QED
    BY <1>2, <1>6, <2>1 DEF ReplayPublication
<1>7. CASE \E u \in Uploads, out \in Outcomes : ResumeUpload(u, out)
  <2>1. PICK u \in Uploads, out \in Outcomes : ResumeUpload(u, out)
    BY <1>7
  <2>2. QuietAdmin
    <3>1. admin' = admin \/ admin' = Idle
      BY <2>1 DEF ResumeUpload
    <3> QED
      BY <3>1 DEF QuietAdmin, Idle
  <2>3. QuietLate
    <3>1. late' = late \/ SendPublication(UploadKey[u], out)
      BY <2>1 DEF ResumeUpload
    <3> QED
      BY <3>1 DEF SendPublication, LatePublish, QuietLate
  <2> QED
    BY <1>2, <2>1, <2>2, <2>3 DEF ResumeUpload
<1>8. CASE Repair
  <2>1. lost' = lost
    BY <1>8 DEF Repair
  <2> QED
    BY <1>1, <1>8, <2>1, RepairKeeps
<1>9. CASE \E S \in SUBSET Nodes : \E L \in SUBSET (Nodes \ S) : Sweep(S, L)
  <2>1. PICK S \in SUBSET Nodes : \E L \in SUBSET (Nodes \ S) : Sweep(S, L)
    BY <1>9
  <2>2. PICK L \in SUBSET (Nodes \ S) : Sweep(S, L)
    BY <2>1
  <2>3. lost' = lost
    BY <2>2 DEF Sweep
  <2> QED
    BY <1>1, <2>2, <2>3, SweepKeeps
<1>10. CASE \/ \E i \in 1..Len(versions) : RemoveVersion(i)
            \/ Prune \/ UNCHANGED vars
            \/ \E u \in Uploads : StartUpload(u) \/ AbortUpload(u) \/ ExpireUpload(u)
  <2>1. UNCHANGED <<stored, gen, late, admin, lost>>
    BY <1>10 DEF RemoveVersion, Prune, vars, StartUpload, AbortUpload, ExpireUpload
  <2> QED
    BY <1>2, <2>1 DEF QuietLate, QuietAdmin
<1>11. CASE \E m \in late : Deliver(m)
  <2>1. PICK m \in late : Deliver(m)
    BY <1>11
  <2>2. lost' = lost
    BY <2>1 DEF Deliver
  <2> QED
    BY <1>1, <2>1, <2>2, DeliverKeeps
<1>12. CASE \E n \in Nodes : NodeRestart(n)
  <2>1. PICK n \in Nodes : NodeRestart(n)
    BY <1>12
  <2>2. UNCHANGED <<stored, late, admin, lost>> /\ gen' = [gen EXCEPT ![n] = FreshGen(n)]
    BY <2>1 DEF NodeRestart
  <2>3. QuietLate /\ QuietAdmin
    BY <2>2 DEF QuietLate, QuietAdmin
  <2>4. \A i \in Nodes : gen'[i] = gen[i] \/ gen'[i] = FreshGen(i)
    BY <2>2 DEF StorageTypes
  <2>5. \A i \in Nodes : KeptSafe(x, i)
    BY <2>2, <2>3, <2>4, QuietKeeps
  <2> QED
    BY <1>1, <2>2, <2>5
<1>13. CASE \E n \in Nodes : Damage(n)
  BY <1>13, DamageKeeps DEF Goal
<1> QED
  BY <1>3, <1>4, <1>5, <1>6, <1>7, <1>8, <1>9, <1>10, <1>11, <1>12, <1>13 DEF Next, AdminNext

(***************************************************************************)
(* The needs.  A step needs only chunks that were needed, and the one that *)
(* a quorum has just acknowledged.                                         *)
(***************************************************************************)
NeededNow(x) == Needed(x, pubs, versions, uploads, ops)

LEMMA PublicationNeeds ==
  ASSUME Assumption, StorageTypes, VersionsFollow, Effect, NEW x,
         NeededByVersion(x, versions') \/ NeededByIntent(x, pubs')
  PROVE  NeededNow(x)
<1>1. versions \in Seq(VersionRecords) /\ Len(versions) \in Nat
  BY DEF StorageTypes
<1>2. \A k \in Keys : pubs[k] # None => pubs[k] \in Intents
  BY DEF StorageTypes
<1>3. CASE UNCHANGED <<pubs, versions>>
  BY <1>3 DEF NeededNow, Needed
<1>4. CASE Removes
  <2>1. NeededByVersion(x, versions') => NeededByVersion(x, versions)
    BY <1>4 DEF Removes, NeededByVersion
  <2> QED
    BY <1>4, <2>1 DEF Removes, NeededNow, Needed
<1>5. CASE \E k \in Keys : Publishes(k)
  <2>1. PICK k \in Keys : Publishes(k)
    BY <1>5
  <2>2. pubs[k] # None /\ Added(versions', k)
    BY <2>1, PublishAdds DEF Publishes
  <2>3. \A j \in Keys : pubs'[j] = pubs[j] \/ (j = k /\ pubs'[j] = [pubs[k] EXCEPT !.done = TRUE])
    BY <2>1 DEF Publishes, StorageTypes
  <2>4. [pubs[k] EXCEPT !.done = TRUE].done
    BY <1>2, <2>2 DEF Intents
  <2>5. NeededByIntent(x, pubs') => NeededByIntent(x, pubs)
    BY <2>3, <2>4 DEF NeededByIntent
  <2>6. NeededByVersion(x, versions') => NeededByVersion(x, versions) \/ NeededByIntent(x, pubs)
    <3> SUFFICES ASSUME NEW i \in 1..Len(versions'), ~versions'[i].removed, x \in versions'[i].chunks
                 PROVE  NeededByVersion(x, versions) \/ NeededByIntent(x, pubs)
      BY DEF NeededByVersion
    <3>1. Len(versions') \in Nat
      BY <2>2 DEF Added
    <3>2. CASE i <= Len(versions)
      <4>1. i \in 1..Len(versions) /\ versions'[i] = versions[i]
        BY <1>1, <2>2, <3>1, <3>2 DEF Added
      <4> QED
        BY <4>1 DEF NeededByVersion
    <3>3. CASE i > Len(versions)
      <4>1. ~Published(k) /\ versions'[i].chunks = RangeOf(pubs[k].manifest)
        BY <2>2, <3>3 DEF Added
      <4>2. ~pubs[k].done
        BY <2>2, <4>1 DEF VersionsFollow
      <4> QED
        BY <2>2, <4>1, <4>2 DEF NeededByIntent
    <3> QED
      BY <1>1, <3>1, <3>2, <3>3
  <2> QED
    BY <2>5, <2>6 DEF NeededNow, Needed
<1>6. CASE \E k \in Keys, manifest \in Seq(Chunks), marker \in BOOLEAN :
             Prepares(k, manifest, marker) /\ Backed(manifest)
  <2>1. PICK k \in Keys, manifest \in Seq(Chunks), marker \in BOOLEAN :
          Prepares(k, manifest, marker) /\ Backed(manifest)
    BY <1>6
  <2>2. \A j \in Keys : j # k => pubs'[j] = pubs[j]
    BY <2>1 DEF Prepares, StorageTypes
  <2>3. pubs'[k].manifest = manifest
    BY <2>1 DEF Prepares, StorageTypes, Intent
  <2>4. NeededByIntent(x, pubs') => NeededByIntent(x, pubs) \/ x \in RangeOf(manifest)
    BY <2>2, <2>3 DEF NeededByIntent
  <2>5. x \in RangeOf(manifest) => NeededNow(x)
    BY <2>1 DEF Backed, NeededNow, Needed
  <2>6. versions' = versions
    BY <2>1 DEF Prepares
  <2> QED
    BY <2>4, <2>5, <2>6 DEF NeededNow, Needed
<1> QED
  BY <1>3, <1>4, <1>5, <1>6 DEF Effect

LEMMA UploadNeeds ==
  ASSUME StorageTypes, \A u \in Uploads : UploadFollows(u), \A u \in Uploads : UploadEffect(u), NEW x,
         NeededByUpload(x, uploads')
  PROVE  NeededNow(x)
<1>1. PICK u \in Uploads : /\ uploads'[u].state \in {"active", "completing"}
                           /\ \E n \in DOMAIN uploads'[u].parts : uploads'[u].parts[n] = x
  BY DEF NeededByUpload
<1>2. PICK n \in DOMAIN uploads'[u].parts : uploads'[u].parts[n] = x
  BY <1>1
<1>3. CASE PartAdded(u)
  <2>1. PICK c \in Clients :
          /\ ops[c].phase = "add"
          /\ \A i \in DOMAIN uploads'[u].parts :
               \/ uploads'[u].parts[i] = ops[c].chunk
               \/ i \in DOMAIN uploads[u].parts /\ uploads'[u].parts[i] = uploads[u].parts[i]
    BY <1>3 DEF PartAdded
  <2>2. CASE x = ops[c].chunk
    BY <2>1, <2>2 DEF NeededNow, Needed, NeededByOp
  <2>3. CASE n \in DOMAIN uploads[u].parts /\ x = uploads[u].parts[n]
    BY <1>3, <2>3 DEF PartAdded, NeededNow, Needed, NeededByUpload
  <2> QED
    BY <1>2, <2>1, <2>2, <2>3
<1>4. CASE uploads'[u].parts = uploads[u].parts /\ uploads[u].state \in {"none", "active", "completing"}
  <2>1. uploads[u].state # "none"
    BY <1>2, <1>4 DEF UploadFollows
  <2> QED
    BY <1>2, <1>4, <2>1 DEF NeededNow, Needed, NeededByUpload
<1> QED
  BY <1>1, <1>3, <1>4 DEF UploadEffect

\* The request that has stored its chunk on a quorum.
StoredBy(d, x) == Store(d) /\ ops'[d].phase \in {"prepare", "add"} /\ x = ops[d].chunk

LEMMA OpNeeds ==
  ASSUME Assumption, StorageTypes, [Next]_vars, \A c \in Clients : OpFollowsIntent(c),
         \A u \in Uploads : UploadFollows(u), NEW d \in Clients, NEW x, NeededByOp(x, ops'[d])
  PROVE  NeededNow(x) \/ StoredBy(d, x)
<1> DEFINE o == ops[d]
<1>1. o \in OpRecords
  BY DEF StorageTypes
<1>2. CASE ops'[d] = o
  BY <1>2 DEF NeededNow, Needed
<1>3. CASE ops'[d].phase \notin {"prepare", "add", "reading"}
  BY <1>3 DEF NeededByOp
<1>4. ASSUME NEW c \in Clients, c # d, ClientNext(c) PROVE ops'[d] = o
  BY <1>4 DEF ClientNext, PutRequest, DeleteRequest, Store, PrepareRequest, PublishRequest, GetRequest,
       GetAnswer, PartRequest, AddPart, CompleteRequest, Freeze, MarkComplete, Enter, Leave, StorageTypes
<1>5. CASE ops' = [ops EXCEPT ![d] = Idle]
  BY <1>3, <1>5 DEF StorageTypes, Idle
<1>6. CASE ClientNext(d)
  <2>1. CASE \/ \E k \in Requests, y \in Chunks : PutRequest(d, k, y)
             \/ \E u \in Uploads, n \in 1..2, y \in Chunks : PartRequest(d, u, n, y)
    <3>1. ops'[d].phase = "store"
      BY <2>1 DEF PutRequest, PartRequest, Enter, StorageTypes
    <3> QED
      BY <1>3, <3>1
  <2>2. CASE \E k \in Deletes : DeleteRequest(d, k)
    <3>1. ops'[d].phase = "prepare" /\ ops'[d].manifest = <<>>
      BY <2>2 DEF DeleteRequest, Enter, StorageTypes
    <3>2. x \in RangeOf(<<>>)
      BY <3>1 DEF NeededByOp
    <3> QED
      BY <3>2 DEF RangeOf
  <2>3. CASE Store(d)
    <3>1. o.phase = "store"
      BY <2>3 DEF Store
    <3>2. CASE ops'[d] = [o EXCEPT !.phase = "prepare"] /\ o.upload = None
      <4>1. o \in PutOps
        BY <1>1, <3>1, <3>2, OpKinds DEF PartOps, Assumption
      <4>2. ops'[d].phase = "prepare" /\ ops'[d].manifest = <<o.chunk>>
        BY <3>1, <3>2, <4>1 DEF PutOps, OpFollowsIntent
      <4>3. x \in RangeOf(<<o.chunk>>)
        BY <4>2 DEF NeededByOp
      <4>4. x = o.chunk
        BY <4>3 DEF RangeOf
      <4> QED
        BY <2>3, <4>2, <4>4 DEF StoredBy
    <3>3. CASE ops'[d] = [o EXCEPT !.phase = "add"] /\ o.upload # None
      <4>1. o \in PartOps
        BY <1>1, <3>1, <3>3, OpKinds DEF PutOps
      <4>2. ops'[d].phase = "add" /\ ops'[d].chunk = o.chunk
        BY <3>3, <4>1 DEF PartOps
      <4> QED
        BY <2>3, <4>2 DEF StoredBy, NeededByOp
    <3> QED
      BY <1>5, <2>3, <3>2, <3>3 DEF Store, Leave, StorageTypes
  <2>4. CASE PrepareRequest(d)
    <3>1. o.phase = "prepare"
      BY <2>4 DEF PrepareRequest
    <3>2. CASE ops'[d] = [o EXCEPT !.phase = "send"]
      <4>1. ops'[d].phase = "send"
        BY <1>1, <3>1, <3>2, OpKinds DEF PutOps, DeleteOps, CompleteOps
      <4> QED
        BY <1>3, <4>1
    <3> QED
      BY <1>5, <2>4, <3>2 DEF PrepareRequest, Leave, StorageTypes
  <2>5. CASE \E out \in Outcomes : PublishRequest(d, out)
    <3>1. o.phase = "send"
      BY <2>5 DEF PublishRequest
    <3>2. CASE ops'[d] = [o EXCEPT !.phase = "complete"]
      <4>1. ops'[d].phase = "complete"
        BY <1>1, <3>1, <3>2, OpKinds DEF PutOps, DeleteOps, CompleteOps
      <4> QED
        BY <1>3, <4>1
    <3> QED
      BY <1>5, <2>5, <3>2 DEF PublishRequest, Leave, StorageTypes
  <2>6. CASE GetRequest(d)
    <3>1. PICK i \in LiveVersions : ops' = [ops EXCEPT ![d] = [phase |-> "reading", chunks |-> versions[i].chunks]]
      BY <2>6 DEF GetRequest, Enter
    <3>2. ops'[d].phase = "reading" /\ ops'[d].chunks = versions[i].chunks
      BY <3>1 DEF StorageTypes
    <3>3. x \in versions[i].chunks
      BY <3>2 DEF NeededByOp
    <3> QED
      BY <3>3 DEF LiveVersions, NeededNow, Needed, NeededByVersion
  <2>7. CASE \E u \in Uploads : CompleteRequest(d, u)
    <3>1. PICK u \in Uploads : CompleteRequest(d, u)
      BY <2>7
    <3>2. CASE ops' = [ops EXCEPT ![d] = [phase |-> "freeze", key |-> UploadKey[u], upload |-> u,
                                          manifest |-> Declared[u], marker |-> FALSE]]
      <4>1. ops'[d].phase = "freeze"
        BY <3>2 DEF StorageTypes
      <4> QED
        BY <1>3, <4>1
    <3>3. CASE /\ uploads[u].state = "completing"
               /\ ops' = [ops EXCEPT ![d] = [phase |-> "prepare", key |-> UploadKey[u], upload |-> u,
                                             manifest |-> Declared[u], marker |-> FALSE]]
      <4>1. ops'[d].phase = "prepare" /\ ops'[d].manifest = Declared[u]
        BY <3>3 DEF StorageTypes
      <4>2. x \in RangeOf(Declared[u])
        BY <4>1 DEF NeededByOp
      <4>3. NeededByUpload(x, uploads)
        BY <3>3, <4>2, AllParts DEF UploadFollows
      <4> QED
        BY <4>3 DEF NeededNow, Needed
    <3> QED
      BY <3>1, <3>2, <3>3 DEF CompleteRequest, Enter
  <2>8. CASE Freeze(d)
    <3>1. o.phase = "freeze" /\ o \in CompleteOps
      BY <1>1, <2>8, OpKinds DEF Freeze
    <3>2. CASE Active(o.upload) /\ ops'[d] = [o EXCEPT !.phase = "prepare"]
      <4>1. ops'[d].phase = "prepare" /\ ops'[d].manifest = o.manifest /\ o.upload \in Uploads
        BY <3>1, <3>2 DEF CompleteOps
      <4>2. o.manifest = Declared[o.upload] /\ uploads[o.upload].parts = Declared[o.upload]
        BY <3>1, <4>1 DEF OpFollowsIntent, Assumption
      <4>3. x \in RangeOf(Declared[o.upload])
        BY <4>1, <4>2 DEF NeededByOp
      <4>4. NeededByUpload(x, uploads)
        BY <3>2, <4>1, <4>2, <4>3, AllParts DEF Active
      <4> QED
        BY <4>4 DEF NeededNow, Needed
    <3> QED
      BY <1>5, <2>8, <3>2 DEF Freeze, Leave, StorageTypes
  <2>9. CASE GetAnswer(d) \/ AddPart(d) \/ MarkComplete(d)
    BY <1>5, <2>9 DEF GetAnswer, AddPart, MarkComplete, Leave
  <2> QED
    BY <1>6, <2>1, <2>2, <2>3, <2>4, <2>5, <2>6, <2>7, <2>8, <2>9 DEF ClientNext
<1>7. CASE AdminNext
  BY <1>2, <1>7 DEF AdminNext, AdminWaits, AdminEnters, AdminGivesUp, ReplayPublication, ReplayDone,
     ResumeUpload, ExpireAndCapture, Mark, Repair, Sweep, ListBeforeDelete, DropBucket
<1>8. CASE \/ \E i \in 1..Len(versions) : RemoveVersion(i)
           \/ Prune \/ UNCHANGED vars
           \/ \E u \in Uploads : StartUpload(u) \/ AbortUpload(u) \/ ExpireUpload(u)
           \/ \E m \in late : Deliver(m)
           \/ \E n \in Nodes : NodeRestart(n) \/ Damage(n)
  BY <1>2, <1>8 DEF RemoveVersion, Prune, vars, StartUpload, AbortUpload, ExpireUpload, Deliver, NodeRestart, Damage
<1>9. CASE Crash
  BY <1>3, <1>9 DEF Crash, Idle
<1> QED
  BY <1>2, <1>4, <1>6, <1>7, <1>8, <1>9 DEF Next

\* What a quorum acknowledged is safe on a quorum.
LEMMA StoreIsEnough ==
  ASSUME Assumption, StorageTypes, StorageTypes', NEW d \in Clients, NEW x, StoredBy(d, x)
  PROVE  Enough(SafeOn(x, stored', gen', late', admin'), lost')
<1>1. PICK S \in SUBSET Nodes : \E L \in SUBSET (Nodes \ S) :
        /\ PutOn(S, x)
        /\ late' = late \cup {[kind |-> "put", node |-> n, chunk |-> x] : n \in L}
        /\ IF Cardinality(S) < Quorum
           THEN Leave(d)
           ELSE ops' = [ops EXCEPT ![d].phase = IF ops[d].upload = None THEN "prepare" ELSE "add"]
  BY DEF StoredBy, Store
<1>2. admin' = admin
  BY DEF StoredBy, Store
<1>3. QuietLate /\ QuietAdmin
  BY <1>1, <1>2 DEF QuietLate, QuietAdmin
<1>4. ~Leave(d)
  BY DEF StoredBy, Leave, Idle, StorageTypes
<1>5. Cardinality(S) \in Nat /\ Quorum \in Int
  BY FS_Subset, FS_CardinalityType DEF Assumption
<1>6. Cardinality(S) >= Quorum /\ lost' \in Nat
  BY <1>1, <1>4, <1>5 DEF StorageTypes
<1>7. Enough(S, lost')
  BY <1>5, <1>6 DEF Enough
<1> DEFINE T == SafeOn(x, stored', gen', late', admin')
<1>8. S \subseteq T
  BY <1>1, <1>3, PutIsSafe
<1>9. T \in SUBSET Nodes
  BY DEF SafeOn
<1> HIDE DEF T
<1>10. Enough(T, lost')
  BY <1>6, <1>7, <1>8, <1>9, EnoughGrows
<1> QED
  BY <1>10 DEF T

\* Maintenance marks every chunk that is needed: it holds the exclusive guard,
\* and every publication is settled (service.py maintenance).
LEMMA MarkIsComplete ==
  ASSUME PublicationIInv, Mark, NEW x, NeededNow(x)
  PROVE  admin'.phase = "repair" /\ x \in admin'.live
<1>1. admin.phase = "mark" /\ Pending = {} /\ \A c \in Clients : ops[c] = Idle
  BY DEF Mark, PublicationIInv, ReplayFollows, Exclusive
<1>2. PICK G \in SUBSET ((1..Len(versions)) \ LiveVersions) :
        admin' = [phase |-> "repair", gens |-> admin.gens, live |-> References(G) \cup PinnedParts]
  BY DEF Mark
<1>3. ~NeededByIntent(x, pubs)
  BY <1>1 DEF NeededByIntent, Pending
<1>4. \A c \in Clients : ~NeededByOp(x, ops[c])
  BY <1>1 DEF NeededByOp, Idle
<1>5. NeededByVersion(x, versions) => x \in References(G)
  BY DEF NeededByVersion, References, LiveVersions
<1>6. NeededByUpload(x, uploads) => x \in PinnedParts
  <2> SUFFICES ASSUME NEW u \in Uploads, uploads[u].state \in {"active", "completing"},
                      NEW n \in DOMAIN uploads[u].parts, uploads[u].parts[n] = x
               PROVE  x \in PinnedParts
    BY DEF NeededByUpload
  <2>1. x \in PartsOf(u)
    BY DEF PartsOf
  <2> QED
    BY <2>1 DEF PinnedParts
<1>7. x \in References(G) \cup PinnedParts
  BY <1>3, <1>4, <1>5, <1>6 DEF NeededNow, Needed
<1> QED
  BY <1>2, <1>7

LEMMA MarkKeeps ==
  ASSUME Assumption, PublicationIInv, Mark, NEW x, NeededNow(x),
         Enough(SafeOn(x, stored, gen, late, admin), lost)
  PROVE  Enough(SafeOn(x, stored', gen', late', admin'), lost')
<1>1. admin'.phase = "repair" /\ x \in admin'.live
  BY MarkIsComplete
<1>2. UNCHANGED <<stored, gen, late, lost>> /\ StorageTypes
  BY DEF Mark, PublicationIInv
<1>3. \A n \in Nodes : ~SweepThreatens(admin', n, x, gen'[n])
  BY <1>1 DEF SweepThreatens
<1>4. \A n \in Nodes : KeptSafe(x, n)
  BY <1>2, <1>3, SafeMember DEF KeptSafe
<1> QED
  BY <1>2, <1>4, EnoughKept

(***************************************************************************)
(* The invariant of the chunks.                                            *)
(***************************************************************************)
StorageIInv == PublicationIInv /\ NeededIsSafe

LEMMA NeededStep ==
  ASSUME Assumption, StorageIInv, [Next]_vars
  PROVE  NeededIsSafe'
<1>1. PublicationIInv /\ StorageTypes /\ VersionsFollow /\ (\A c \in Clients : OpFollowsIntent(c))
      /\ (\A u \in Uploads : UploadFollows(u))
  BY DEF StorageIInv, PublicationIInv
<1>2. PublicationIInv' /\ StorageTypes' /\ Effect /\ \A u \in Uploads : UploadEffect(u)
  BY <1>1, PublicationSteps DEF PublicationIInv
<1> SUFFICES ASSUME NEW x \in Chunks, Needed(x, pubs', versions', uploads', ops')
             PROVE  Enough(SafeOn(x, stored', gen', late', admin'), lost')
  BY DEF NeededIsSafe
<1>3. CASE NeededNow(x)
  <2>1. Enough(SafeOn(x, stored, gen, late, admin), lost)
    BY <1>3 DEF StorageIInv, NeededIsSafe, NeededNow
  <2>2. CASE Mark
    BY <1>1, <1>3, <2>1, <2>2, MarkKeeps
  <2>3. CASE ~Mark
    BY <1>1, <2>1, <2>3, NodesKeep
  <2> QED
    BY <2>2, <2>3
<1>4. CASE \E d \in Clients : StoredBy(d, x)
  BY <1>1, <1>2, <1>4, StoreIsEnough
<1>5. NeededByVersion(x, versions') \/ NeededByIntent(x, pubs') => NeededNow(x)
  BY <1>1, <1>2, PublicationNeeds
<1>6. NeededByUpload(x, uploads') => NeededNow(x)
  BY <1>1, <1>2, UploadNeeds
<1>7. \A d \in Clients : NeededByOp(x, ops'[d]) => NeededNow(x) \/ StoredBy(d, x)
  BY <1>1, OpNeeds
<1> QED
  BY <1>3, <1>4, <1>5, <1>6, <1>7 DEF Needed

\* Every chunk that a live version, a pending intent, an unfinished upload or a
\* request under way needs is on a quorum of nodes, less the damaged copies,
\* where no collection under way or late can remove it (service.py maintenance,
\* node.py collect).
THEOREM StorageInvariant == ASSUME Assumption PROVE Spec => []StorageIInv
<1>1. Init => StorageIInv
  <2> SUFFICES ASSUME Init PROVE StorageIInv
    OBVIOUS
  <2>1. PublicationIInv
    BY InitPublicationIInv
  <2>2. versions = <<>> /\ Len(versions) = 0
    BY DEF Init
  <2>3. \A x : ~NeededByVersion(x, versions)
    BY <2>2 DEF NeededByVersion
  <2>4. \A x : ~NeededByIntent(x, pubs) /\ ~NeededByUpload(x, uploads)
    BY DEF Init, NeededByIntent, NeededByUpload
  <2>5. \A x : \A c \in Clients : ~NeededByOp(x, ops[c])
    BY DEF Init, NeededByOp, Idle
  <2> QED
    BY <2>1, <2>3, <2>4, <2>5 DEF StorageIInv, NeededIsSafe, Needed
<1>2. StorageIInv /\ [Next]_vars => StorageIInv'
  BY PublicationSteps, NeededStep DEF StorageIInv
<1> QED
  BY <1>1, <1>2, PTL DEF Spec

\* No sweep, however late a request is executed, removes a chunk that a live
\* version, a download under way or an upload that can complete needs: it stays
\* on a write quorum of nodes, less the damaged copies (Service.maintenance,
\* ChunkIO.write, node.py collect).
THEOREM ReferencedChunksKept == ASSUME Assumption PROVE Spec => []ReferencedKept
<1>1. StorageIInv => ReferencedKept
  <2> SUFFICES ASSUME StorageIInv PROVE ReferencedKept
    OBVIOUS
  <2>1. StorageTypes /\ NeededIsSafe
    BY DEF StorageIInv, PublicationIInv
  <2>2. DOMAIN stored = Nodes /\ DOMAIN uploads = Uploads /\ DOMAIN ops = Clients /\ lost \in Nat
    BY <2>1 DEF StorageTypes
  <2>3. ASSUME NEW x \in Chunks, NeededNow(x) PROVE Durable(x)
    <3> DEFINE S == SafeOn(x, stored, gen, late, admin)
               H == Holders(x)
    <3>1. S \subseteq H /\ H \in SUBSET Nodes /\ S \in SUBSET Nodes
      BY <2>2 DEF SafeOn, Holders
    <3>2. Enough(S, lost)
      BY <2>1, <2>3 DEF NeededIsSafe, NeededNow
    <3> HIDE DEF S, H
    <3>3. Enough(H, lost)
      BY <2>2, <3>1, <3>2, EnoughGrows
    <3> QED
      BY <3>3 DEF H, Enough, Durable
  <2>4. VersionsDurable
    <3> SUFFICES ASSUME NEW i \in LiveVersions, NEW x \in versions[i].chunks PROVE Durable(x)
      BY DEF VersionsDurable
    <3>1. i \in 1..Len(versions) /\ versions \in Seq(VersionRecords)
      BY <2>1 DEF LiveVersions, StorageTypes
    <3>2. versions[i] \in VersionRecords
      BY <3>1
    <3>3. x \in Chunks
      BY <3>2 DEF VersionRecords
    <3>4. NeededByVersion(x, versions)
      BY DEF NeededByVersion, LiveVersions
    <3> QED
      BY <2>3, <3>3, <3>4 DEF NeededNow, Needed
  <2>5. PartsDurable
    <3> SUFFICES ASSUME NEW u \in Uploads, uploads[u].state \in {"active", "completing"}, NEW x \in PartsOf(u)
                 PROVE  Durable(x)
      BY <2>2 DEF PartsDurable
    <3>1. uploads[u] \in UploadRecords
      BY <2>1 DEF StorageTypes
    <3>2. uploads[u].parts \in PartLists
      BY <3>1 DEF UploadRecords
    <3>3. PICK n \in DOMAIN uploads[u].parts : x = uploads[u].parts[n]
      BY DEF PartsOf
    <3>4. x \in Chunks
      BY <3>2, <3>3, PartsInChunks
    <3>5. NeededByUpload(x, uploads)
      BY <3>3 DEF NeededByUpload
    <3> QED
      BY <2>3, <3>4, <3>5 DEF NeededNow, Needed
  <2>6. ReadersSafe
    <3> SUFFICES ASSUME NEW c \in Clients, ops[c].phase = "reading", NEW x \in ops[c].chunks PROVE Durable(x)
      BY <2>2 DEF ReadersSafe
    <3>1. ops[c] \in OpRecords
      BY <2>1 DEF StorageTypes
    <3>2. ops[c] \in ReadOps
      BY <3>1, OpKinds
    <3>3. x \in Chunks
      BY <3>2 DEF ReadOps
    <3> QED
      BY <2>3, <3>3 DEF NeededNow, Needed, NeededByOp
  <2> QED
    BY <2>4, <2>5, <2>6 DEF ReferencedKept
<1> QED
  BY <1>1, StorageInvariant, PTL
=============================================================================
