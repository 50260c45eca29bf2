----------------------------- MODULE MCPayments -----------------------------
(***************************************************************************)
(* The two systems that move money through an external payment provider,   *)
(* and what must eventually happen in them and in the wallet.              *)
(* A behaviour exercises one part; the variables of the others stay in     *)
(* their initial state:                                                    *)
(*   stays     the hotel saga: two stays that overlap on one day, one of   *)
(*             which is declined                                           *)
(*   payout    a pay-in and a declined payout, two workers, one fault      *)
(*   payin     one pay-in, two workers, faults up to a dead execution      *)
(*   refunds   two pay-ins and two refunds that together exceed one        *)
(*   checkout  a batch whose second order another request may take         *)
(*   reconcile one reconciliation of two operations by two workers         *)
(***************************************************************************)
EXTENDS HotelSaga, PaymentReconcile, TLC

CONSTANTS b1, b2, d1, d2, w1, w2, o1, o2, a1, a2, a3, s1, s2, t1, t2, NoTxn

VARIABLES part,
  op, versions, inbox, wallet, posted, previews, pjob, pworker, ppsp, expired, webhooks, events, pfaults, pretries,
  cmd, order, pending, tries, shard, fence, net, epoch, pc, cursor, left, right, crashes, resets

pvars == <<op, versions, inbox, wallet, posted, previews, pjob, pworker, ppsp, expired, webhooks, events, pfaults,
           pretries>>
wvars == <<cmd, order, pending, tries, shard, fence, net, epoch, pc, cursor, left, right, crashes, resets>>

\* The constants of HotelSaga and PaymentReconcile are those of parts stays and
\* reconcile.
MCNightsOf == [b \in {b1, b2} |-> IF b = b1 THEN {d1, d2} ELSE {d2}]
MCQuantity == [b \in {b1, b2} |-> 1]

\* Operation identities say what the operation is.
PayoutOps   == {"payA", "payout"}
RefundOps   == {"payA", "payB", "refund1", "refund2"}
CheckoutOps == {"payB", "batch1", "batch2"}
KindOf(o)   == IF o = "payout" THEN "payout" ELSE IF o \in {"refund1", "refund2"} THEN "refund" ELSE "payin"
AmountOf(o) == IF o \in {"payA", "refund1"} THEN 2 ELSE 1
ParentOf(o) == IF KindOf(o) = "refund" THEN "payA" ELSE o
OrderOf(o)  == IF o \in {"payB", "batch2"} THEN "shared" ELSE o

Payout == INSTANCE PaymentFlow WITH
  Ops <- PayoutOps, Kind <- [o \in PayoutOps |-> KindOf(o)], Amount <- [o \in PayoutOps |-> AmountOf(o)],
  Parent <- [o \in PayoutOps |-> ParentOf(o)], Order <- [o \in PayoutOps |-> OrderOf(o)],
  Declined <- {"payout"}, Checkouts <- {}, Workers <- {w1, w2}, MaxFailures <- 2, MaxFaults <- 1, MaxRetries <- 1,
  reviews <- previews, job <- pjob, worker <- pworker, psp <- ppsp, faults <- pfaults, retries <- pretries
Payin == INSTANCE PaymentFlow WITH
  Ops <- {"payA"}, Kind <- [o \in {"payA"} |-> "payin"], Amount <- [o \in {"payA"} |-> 2],
  Parent <- [o \in {"payA"} |-> o], Order <- [o \in {"payA"} |-> o],
  Declined <- {}, Checkouts <- {}, Workers <- {w1, w2}, MaxFailures <- 2, MaxFaults <- 2, MaxRetries <- 1,
  reviews <- previews, job <- pjob, worker <- pworker, psp <- ppsp, faults <- pfaults, retries <- pretries
Refunds == INSTANCE PaymentFlow WITH
  Ops <- RefundOps, Kind <- [o \in RefundOps |-> KindOf(o)], Amount <- [o \in RefundOps |-> AmountOf(o)],
  Parent <- [o \in RefundOps |-> ParentOf(o)], Order <- [o \in RefundOps |-> OrderOf(o)],
  Declined <- {}, Checkouts <- {}, Workers <- {w1}, MaxFailures <- 2, MaxFaults <- 0, MaxRetries <- 0,
  reviews <- previews, job <- pjob, worker <- pworker, psp <- ppsp, faults <- pfaults, retries <- pretries
Checkout == INSTANCE PaymentFlow WITH
  Ops <- CheckoutOps, Kind <- [o \in CheckoutOps |-> KindOf(o)], Amount <- [o \in CheckoutOps |-> AmountOf(o)],
  Parent <- [o \in CheckoutOps |-> ParentOf(o)], Order <- [o \in CheckoutOps |-> OrderOf(o)],
  Declined <- {}, Checkouts <- {{"batch1", "batch2"}}, Workers <- {w1},
  MaxFailures <- 2, MaxFaults <- 0, MaxRetries <- 0,
  reviews <- previews, job <- pjob, worker <- pworker, psp <- ppsp, faults <- pfaults, retries <- pretries

ASSUME PaymentsAssumption ==
  /\ Assumption /\ ReconcileAssumption
  /\ Payout!Assumption /\ Payin!Assumption /\ Refunds!Assumption /\ Checkout!Assumption

\* The wallet, which only the last part uses.
NoWallet ==
  /\ cmd = 0 /\ order = 0 /\ pending = 0 /\ tries = 0 /\ shard = 0 /\ fence = 0 /\ net = 0
  /\ epoch = 0 /\ pc = 0 /\ cursor = 0 /\ left = 0 /\ right = 0 /\ crashes = 0 /\ resets = 0

MCInit ==
  /\ Init /\ ReconcileInit /\ NoWallet
  /\ \/ part \in {"stays", "payout", "reconcile"} /\ Payout!Init
     \/ part = "payin" /\ Payin!Init
     \/ part = "refunds" /\ Refunds!Init
     \/ part = "checkout" /\ Checkout!Init
  /\ part = "stays" \/ limit = [d \in {d1, d2} |-> 1]
MCNext ==
  \/ part = "stays" /\ Next /\ UNCHANGED <<pvars, rvars, wvars, part>>
  \/ part = "payout" /\ Payout!Next /\ UNCHANGED <<vars, rvars, wvars, part>>
  \/ part = "payin" /\ Payin!Next /\ UNCHANGED <<vars, rvars, wvars, part>>
  \/ part = "refunds" /\ Refunds!Next /\ UNCHANGED <<vars, rvars, wvars, part>>
  \/ part = "checkout" /\ Checkout!Next /\ UNCHANGED <<vars, rvars, wvars, part>>
  \/ part = "reconcile" /\ ReconcileNext /\ UNCHANGED <<vars, pvars, wvars, part>>
MCSpec == MCInit /\ [][MCNext]_<<vars, pvars, rvars, wvars, part>>

Symmetry == Permutations({w1, w2}) \cup Permutations({o1, o2})

(***************************************************************************)
(* What must eventually happen.  The other systems stay in their initial   *)
(* state, where none of the steps that fairness is about can be taken:     *)
(*   cross     one cross-shard transfer of the wallet                      *)
(*   local     two local transfers, of which one has no funds              *)
(*   stays     one stay, two faults                                        *)
(*   payin     one pay-in and its notification, two faults                 *)
(*   reconcile one reconciliation by two workers, two faults               *)
(***************************************************************************)
Cross == INSTANCE WalletCoordinator WITH
  Accounts <- {a1, a2, a3}, Shards <- {s1, s2}, ShardFor <- [a \in {a1, a2, a3} |-> IF a = a1 THEN s1 ELSE s2],
  Opening <- [a \in {a1, a2, a3} |-> 1], Intents <- {[from |-> a1, to |-> a2, amount |-> 1]}, Txns <- {t1, t2},
  MaxTransfers <- 1, DeadAfter <- 2, MaxEpoch <- 1, MaxCrashes <- 0, MaxRetries <- 0, retries <- tries
Local == INSTANCE WalletCoordinator WITH
  Accounts <- {a1, a2, a3}, Shards <- {s1, s2}, ShardFor <- [a \in {a1, a2, a3} |-> IF a = a1 THEN s1 ELSE s2],
  Opening <- [a \in {a1, a2, a3} |-> 1], Intents <- {[from |-> a2, to |-> a3, amount |-> 1]}, Txns <- {t1, t2},
  MaxTransfers <- 2, DeadAfter <- 2, MaxEpoch <- 1, MaxCrashes <- 0, MaxRetries <- 0, retries <- tries
Stay == INSTANCE HotelSaga WITH
  Bookings <- {b1}, Days <- {d1}, NightsOf <- [b \in {b1} |-> {d1}], Quantity <- [b \in {b1} |-> 1],
  Declined <- {}, Limits <- {1}, MaxFaults <- 2
Notified == INSTANCE PaymentFlow WITH
  Ops <- {"payA"}, Kind <- [o \in {"payA"} |-> "payin"], Amount <- [o \in {"payA"} |-> 2],
  Parent <- [o \in {"payA"} |-> o], Order <- [o \in {"payA"} |-> o],
  Declined <- {}, Checkouts <- {}, Workers <- {w1}, MaxFailures <- 2, MaxFaults <- 2, MaxRetries <- 0,
  reviews <- previews, job <- pjob, worker <- pworker, psp <- ppsp, faults <- pfaults, retries <- pretries
Review == INSTANCE PaymentReconcile WITH Ops <- {o1}, MaxRetries <- 0

LiveInit ==
  /\ part \in {"cross", "local", "stays", "payin", "reconcile"}
  /\ Cross!Init /\ Stay!Init /\ Notified!Init /\ Review!ReconcileInit
LiveNext ==
  \/ part = "cross" /\ Cross!Next /\ UNCHANGED <<vars, pvars, rvars, part>>
  \/ part = "local" /\ Local!Next /\ UNCHANGED <<vars, pvars, rvars, part>>
  \/ part = "stays" /\ Stay!Next /\ UNCHANGED <<wvars, pvars, rvars, part>>
  \/ part = "payin" /\ Notified!Next /\ UNCHANGED <<wvars, vars, rvars, part>>
  \/ part = "reconcile" /\ Review!ReconcileNext /\ UNCHANGED <<wvars, vars, pvars, part>>
LiveSpec ==
  /\ LiveInit /\ [][LiveNext]_<<wvars, vars, pvars, rvars, part>>
  /\ Cross!Fairness /\ Stay!Fairness /\ Notified!Fairness /\ Review!ReconcileFairness

-----------------------------------------------------------------------------

\* Types, and: the wallet is what the operations say, an accepted refund always
\* fits the captured payment, and the pay-ins of a checkout exist together or not
\* at all; operations end with the outcome of the provider, whose answers never
\* look contradictory in any order, an operation without an outcome has an
\* execution, and a settled notification is stored (ledger.py, operations.py,
\* jobs.py).
PaymentsExact ==
  /\ part \in {"stays", "payout", "reconcile"} => Payout!TypeOK
  /\ part = "payin" => Payin!TypeOK
  /\ part = "refunds" => Refunds!TypeOK
  /\ part = "checkout" => Checkout!TypeOK
  /\ part = "payout" => /\ Payout!WalletMatchesOperations
                        /\ Payout!LocalFollowsProvider /\ Payout!NoFalseConflict
                        /\ Payout!ExecutionMatchesOutcome /\ Payout!ConsumerAgrees
  /\ part = "payin" => /\ Payin!WalletMatchesOperations
                       /\ Payin!LocalFollowsProvider /\ Payin!NoFalseConflict
                       /\ Payin!ExecutionMatchesOutcome /\ Payin!ConsumerAgrees
  /\ part = "refunds" => Refunds!WalletMatchesOperations /\ Refunds!RefundsAlwaysAdmitted
  /\ part = "checkout" => Checkout!WalletMatchesOperations /\ Checkout!CheckoutWhole
\* Stays that ended, outcomes and posted transactions are final, and only the
\* worker with the live claim completes a run (saga.py, operations.py).
OutcomesFinal ==
  /\ EndIsFinal
  /\ [][part = "payout" => Payout!FinalStep]_pvars
  /\ OnlyOwnerCompletes

\* Every accepted transfer is settled or parked (Coordinator.step).
TransfersSettle == Cross!SettledOrParked
\* Holds are resolved and charges of ended stays refunded; what the provider
\* decided reaches the wallet and the consumer hears of it, or a job is dead;
\* and a scheduled reconciliation ends (saga.py, jobs.py, reconciliation.py).
PaymentsSettle ==
  /\ Stay!EventuallySettled
  /\ Notified!ProviderOutcomeArrives /\ Notified!EventuallyNotified
  /\ Review!RunEnds
=============================================================================
