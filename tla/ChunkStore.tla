----------------------------- MODULE ChunkStore -----------------------------
(* What a data node promises: a durable set of chunks that only a completed *)
(* PUT extends and only a collection (or damage) shrinks, and the chunks it *)
(* has acknowledged, which are always durable.                              *)
CONSTANT Chunks
VARIABLES durable, acked

storeVars == <<durable, acked>>

Init == durable = {} /\ acked = {}

Write(h) == durable' = durable \cup {h} /\ UNCHANGED acked
Acknowledge(h) == h \in durable /\ acked' = acked \cup {h} /\ UNCHANGED durable
Withdraw(h) == acked' = acked \ {h} /\ UNCHANGED durable
Erase(h) == durable' = durable \ {h} /\ acked' = acked \ {h}

Next == \E h \in Chunks : Write(h) \/ Acknowledge(h) \/ Withdraw(h) \/ Erase(h)

Spec == Init /\ [][Next]_storeVars
=============================================================================
