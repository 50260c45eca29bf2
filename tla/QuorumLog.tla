------------------------------ MODULE QuorumLog -----------------------------
(***************************************************************************)
(* What the wallet's journal promises to its coordinator: a history that   *)
(* only grows, and at most one event that is durable but not yet part of   *)
(* it.  WalletCoordinator is written against this promise; WalletJournal   *)
(* implements it with one authority disk and a quorum of replicas.         *)
(***************************************************************************)
EXTENDS Naturals, Sequences

CONSTANTS Events, NoEvent

VARIABLES history, pending

Init == history = <<>> /\ pending = NoEvent

\* An append made its event durable; a quorum has not acknowledged it yet.
Propose ==
  /\ pending = NoEvent
  /\ pending' \in Events
  /\ UNCHANGED history

Commit ==
  /\ pending # NoEvent
  /\ history' = Append(history, pending)
  /\ pending' = NoEvent

Next == Propose \/ Commit

Spec == Init /\ [][Next]_<<history, pending>>
=============================================================================
