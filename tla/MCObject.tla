------------------------------ MODULE MCObject ------------------------------
(***************************************************************************)
(* The object store.  A behaviour exercises one part; the variables of the *)
(* other component stay in their initial state:                            *)
(*   sweep    two PUTs of one content on three nodes, late requests        *)
(*   repair   a PUT on two nodes, one of which loses its copy; a restart   *)
(*   publish  a PUT, a DELETE and bucket removal by two callers            *)
(*   uploads  one multipart upload of two equal parts, late requests       *)
(*   parts    one of two different parts                                   *)
(*   node     the pack file, index and compaction of one data node         *)
(* Every part writes to two nodes at least (Quorum); the parts differ in   *)
(* their nodes, keys, callers and failures.                                *)
(***************************************************************************)
EXTENDS ObjectNode, ObjectStorage, TLC

CONSTANTS n1, n2, n3, q1, q2, x, y, mp, mq, c1, k1, k2, ku, big

VARIABLE part

MCUploadKey == [u \in {mp, mq} |-> ku]
MCDeclared == [u \in {mp, mq} |-> IF u = mp THEN <<x, x>> ELSE <<x, y>>]

Puts == INSTANCE ObjectStorage WITH
  Chunks <- {x}, Nodes <- {n1, n2, n3}, Requests <- {q1, q2}, Deletes <- {}, Uploads <- {},
  UploadKey <- <<>>, Declared <- <<>>, Clients <- {c1}, MaxLate <- 1, MaxLost <- 0, MaxCrashes <- 0
Repairs == INSTANCE ObjectStorage WITH
  Chunks <- {x}, Nodes <- {n1, n2}, Requests <- {k1}, Deletes <- {}, Uploads <- {},
  UploadKey <- <<>>, Declared <- <<>>, Clients <- {c1}, MaxLate <- 1, MaxLost <- 1, MaxCrashes <- 1
Races == INSTANCE ObjectStorage WITH
  Chunks <- {x}, Nodes <- {n1, n2}, Requests <- {k1}, Deletes <- {k2}, Uploads <- {},
  UploadKey <- <<>>, Declared <- <<>>, Clients <- {q1, q2}, MaxLate <- 1, MaxLost <- 0, MaxCrashes <- 0
Multiparts == INSTANCE ObjectStorage WITH
  Chunks <- {x}, Nodes <- {n1, n2}, Requests <- {}, Deletes <- {}, Uploads <- {mp},
  UploadKey <- MCUploadKey, Declared <- MCDeclared,
  Clients <- {c1}, MaxLate <- 1, MaxLost <- 0, MaxCrashes <- 0

Parts == INSTANCE ObjectStorage WITH
  Chunks <- {x, y}, Nodes <- {n1, n2}, Requests <- {}, Deletes <- {}, Uploads <- {mq},
  UploadKey <- MCUploadKey, Declared <- MCDeclared,
  Clients <- {c1}, MaxLate <- 0, MaxLost <- 0, MaxCrashes <- 0

ASSUME ObjectAssumption ==
  /\ Puts!Assumption /\ Repairs!Assumption /\ Races!Assumption
  /\ Multiparts!Assumption /\ Parts!Assumption /\ NodeAssumption

MCInit ==
  /\ NodeInit
  /\ \/ part \in {"sweep", "node"} /\ Puts!Init
     \/ part = "repair" /\ Repairs!Init
     \/ part = "publish" /\ Races!Init
     \/ part = "uploads" /\ Multiparts!Init
     \/ part = "parts" /\ Parts!Init
MCNext ==
  \/ part = "sweep" /\ Puts!Next /\ UNCHANGED <<nodeVars, part>>
  \/ part = "repair" /\ Repairs!Next /\ UNCHANGED <<nodeVars, part>>
  \/ part = "publish" /\ Races!Next /\ UNCHANGED <<nodeVars, part>>
  \/ part = "uploads" /\ Multiparts!Next /\ UNCHANGED <<nodeVars, part>>
  \/ part = "parts" /\ Parts!Next /\ UNCHANGED <<nodeVars, part>>
  \/ part = "node" /\ NodeNext /\ UNCHANGED <<vars, part>>
MCSpec == MCInit /\ [][MCNext]_<<vars, nodeVars, part>>

\* The names q1 and q2 are keys, callers or chunks.
Symmetry == Permutations({n1, n2, n3}) \cup Permutations({q1, q2})

(***************************************************************************)
(* What must eventually happen to one PUT and one upload of one part, with *)
(* a coordinator restart; and to an upload that shares its key with a PUT. *)
(***************************************************************************)
Live == INSTANCE ObjectStorage WITH
  Chunks <- {x}, Nodes <- {n1}, Quorum <- 1, Requests <- {k1}, Deletes <- {}, Uploads <- {mp},
  UploadKey <- MCUploadKey, Declared <- [u \in {mp} |-> <<x>>],
  Clients <- {c1}, MaxLate <- 0, MaxLost <- 0, MaxCrashes <- 1
Clash == INSTANCE ObjectStorage WITH
  Chunks <- {x, y}, Nodes <- {n1}, Quorum <- 1, Requests <- {k1}, Deletes <- {}, Uploads <- {mp},
  UploadKey <- [u \in {mp} |-> k1], Declared <- [u \in {mp} |-> <<x>>],
  Clients <- {c1}, MaxLate <- 0, MaxLost <- 0, MaxCrashes <- 0

LiveSpec ==
  /\ part = "live" /\ Live!Init /\ NodeInit
  /\ [][Live!Next /\ UNCHANGED <<nodeVars, part>>]_<<vars, nodeVars, part>>
  /\ Live!Fairness
ClashSpec ==
  /\ part = "clash" /\ Clash!Init /\ NodeInit
  /\ [][Clash!Next /\ UNCHANGED <<nodeVars, part>>]_<<vars, nodeVars, part>>
  /\ Clash!Fairness
  /\ SF_vars(Clash!AdminEnters)      \* maintenance gets its turn, stated here once more

-----------------------------------------------------------------------------

\* Maintenance settles every pending publication and finishes a completion that
\* was interrupted (Service.maintenance); the types of the component hold.
MaintenanceSettles == []Live!TypeOK /\ Live!PendingSettled /\ Live!CompletionResumed
\* ObjectStorage: the same where a PUT has used the key of the upload.  README.md:
\* "A durable completing intent precedes publication; retry or maintenance
\* resumes interrupted completion idempotently."
ClashingCompletionResumed == Clash!CompletionResumed
=============================================================================
