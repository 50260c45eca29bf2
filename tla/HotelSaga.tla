------------------------------ MODULE HotelSaga -----------------------------
(***************************************************************************)
(* Reservation, payment and compensation of a hotel shard                  *)
(* (hotel_reservation/bookings.py, saga.py), its saga workers (worker.py)  *)
(* and the simulated payment ledger (payment.py).                          *)
(*                                                                         *)
(* Every shard and ledger operation is one SQLite transaction.  Between    *)
(* them are HTTP calls: a call that its sender gave up may still execute,  *)
(* a worker may stop, and a lease may run out while its owner still works. *)
(* The clock is abstracted: the deadline of a hold passes at any time.     *)
(***************************************************************************)
EXTENDS Integers, FiniteSets, Functions, SumTheorems

CONSTANTS
  Bookings,     \* reservation requests: one idempotency key and body each
  Days,         \* inventory days of the room type
  NightsOf,     \* NightsOf[b]: the days of the stay
  Quantity,     \* Quantity[b]: rooms
  Declined,     \* the requests whose payment method is declined
  Limits,       \* the values an administrator gives a day's limit
  MaxFaults     \* bound: lost answers, crashes, early lease expiries

\* What the constants may be.
Assumption ==
  /\ IsFiniteSet(Bookings)
  /\ NightsOf \in [Bookings -> SUBSET Days]
  /\ Quantity \in [Bookings -> Nat]
  /\ Declined \subseteq Bookings
  /\ Limits \subseteq Nat
  /\ MaxFaults \in Nat

VARIABLES
  bk,        \* bk[b]: status, payment label and held flag
  overdue,   \* bookings whose hold deadline has passed
  reserved,  \* reserved[d]
  limit,     \* limit[d]: capacity with overbooking
  job,       \* job[a][b]: status, lease token (claims so far) and whether the lease ran out
  ledger,    \* ledger[b]: the charge at the provider
  receipt,   \* receipt[a][b]: the provider's stored answer
  attempts,  \* claims whose worker is at the provider call
  late,      \* provider requests that nobody waits for
  callbacks, \* finish and retry calls on their way to the shard
  faults

hotel    == <<bk, overdue, reserved, limit, job>>
provider == <<ledger, receipt>>
vars     == <<hotel, provider, attempts, late, callbacks, faults>>

Actions  == {"charge", "refund"}
Attempt  == [action : Actions, booking : Bookings, token : Nat]
NoJob    == [status |-> "none", token |-> 0, lapsed |-> FALSE]

-----------------------------------------------------------------------------
(***************************************************************************)
(* Bookings.                                                               *)
(***************************************************************************)

Fits_Overbooks(b) == \A d \in NightsOf[b] : reserved[d] <= limit[d]
Fits(b) == \A d \in NightsOf[b] : reserved[d] + Quantity[b] <= limit[d]

Reserve_LastNightFree(b) ==
  /\ bk[b].status = "NONE"
  /\ Fits(b)
  /\ \E last \in NightsOf[b] :
       reserved' = [d \in Days |-> IF d \in NightsOf[b] \ {last} THEN reserved[d] + Quantity[b] ELSE reserved[d]]
  /\ bk' = [bk EXCEPT ![b] = [status |-> "PENDING", payment |-> "NONE", held |-> TRUE]]
  /\ job' = [job EXCEPT !["charge"][b] = [NoJob EXCEPT !.status = "pending"]]
  /\ UNCHANGED <<overdue, limit, provider, attempts, late, callbacks, faults>>

\* The same key with the same body returns the stored booking and changes nothing.
Reserve(b) ==
  /\ bk[b].status = "NONE"
  /\ Fits(b)
  /\ reserved' = [d \in Days |-> IF d \in NightsOf[b] THEN reserved[d] + Quantity[b] ELSE reserved[d]]
  /\ bk' = [bk EXCEPT ![b] = [status |-> "PENDING", payment |-> "NONE", held |-> TRUE]]
  /\ job' = [job EXCEPT !["charge"][b] = [NoJob EXCEPT !.status = "pending"]]
  /\ UNCHANGED <<overdue, limit, provider, attempts, late, callbacks, faults>>

\* Inventory after the bookings of a set are released: only a held one gives
\* its rooms back.
Freed(B) ==
  [d \in Days |-> reserved[d] - SumFunctionOnSet(Quantity, {b \in B : bk[b].held /\ d \in NightsOf[b]})]

\* release.
Released(b, status) == [bk[b] EXCEPT !.status = status, !.held = FALSE]

\* INSERT OR IGNORE: an existing job stays as it is.
WithRefundJob(jobs, b) ==
  IF jobs["refund"][b] = NoJob
  THEN [jobs EXCEPT !["refund"][b] = [NoJob EXCEPT !.status = "pending"]]
  ELSE jobs

Cancel_NoRefund(b) ==
  /\ bk[b].status \in {"PENDING", "CONFIRMED"}
  /\ reserved' = Freed({b})
  /\ bk' = [bk EXCEPT ![b] = Released(b, "CANCELLED")]
  /\ UNCHANGED <<overdue, limit, job, provider, attempts, late, callbacks, faults>>

Cancel_RefundAlways(b) ==
  /\ bk[b].status \in {"PENDING", "CONFIRMED"}
  /\ reserved' = Freed({b})
  /\ bk' = [bk EXCEPT ![b] = Released(b, "CANCELLED")]
  /\ job' = WithRefundJob(job, b)
  /\ UNCHANGED <<overdue, limit, provider, attempts, late, callbacks, faults>>

Cancel(b) ==
  /\ bk[b].status \in {"PENDING", "CONFIRMED"}
  /\ reserved' = Freed({b})
  /\ LET paid == bk[b].payment = "PAID"
         r    == Released(b, "CANCELLED")
     IN  /\ bk' = [bk EXCEPT ![b] = IF paid THEN [r EXCEPT !.payment = "REFUND_PENDING"] ELSE r]
         /\ job' = IF paid THEN WithRefundJob(job, b) ELSE job
  /\ UNCHANGED <<overdue, limit, provider, attempts, late, callbacks, faults>>

\* The deadline of a pending hold passes.
PassDeadline(b) ==
  /\ bk[b].status = "PENDING"
  /\ b \notin overdue
  /\ overdue' = overdue \cup {b}
  /\ UNCHANGED <<bk, reserved, limit, job, provider, attempts, late, callbacks, faults>>

Overdue == {b \in overdue : bk[b].status = "PENDING"}

Sweep ==
  /\ Overdue # {}
  /\ reserved' = Freed(Overdue)
  /\ bk' = [b \in Bookings |-> IF b \in Overdue THEN Released(b, "EXPIRED") ELSE bk[b]]
  /\ UNCHANGED <<overdue, limit, job, provider, attempts, late, callbacks, faults>>

\* set_days: the table's CHECK refuses a limit below what is reserved.
SetDays(d, n) ==
  /\ n >= reserved[d]
  /\ limit' = [limit EXCEPT ![d] = n]
  /\ UNCHANGED <<bk, overdue, reserved, job, provider, attempts, late, callbacks, faults>>

-----------------------------------------------------------------------------
(***************************************************************************)
(* Jobs.                                                                   *)
(***************************************************************************)

Claimable_NoTakeover(a, b) == job[a][b].status = "pending"

Claimable(a, b) ==
  \/ job[a][b].status = "pending"
  \/ job[a][b].status = "inflight" /\ job[a][b].lapsed

\* A charge that was never attempted is dropped when its booking is no longer
\* pending, or is past its deadline and is released here.
Uncharged(a, b) ==
  /\ a = "charge"
  /\ job[a][b].token = 0
  /\ bk[b].status # "PENDING" \/ b \in overdue

ClaimUncharged(b) ==
  /\ Claimable("charge", b)
  /\ Uncharged("charge", b)
  /\ LET due == bk[b].status = "PENDING"
     IN  /\ reserved' = IF due THEN Freed({b}) ELSE reserved
         /\ bk' = IF due THEN [bk EXCEPT ![b] = Released(b, "EXPIRED")] ELSE bk
  /\ job' = [job EXCEPT !["charge"][b].status = "done"]
  /\ UNCHANGED <<overdue, limit, provider, attempts, late, callbacks, faults>>

\* received: the answer of the claim reaches the worker.
Claim(a, b, received) ==
  /\ Claimable(a, b)
  /\ ~Uncharged(a, b)
  /\ received \/ faults < MaxFaults
  /\ faults' = IF received THEN faults ELSE faults + 1
  /\ job' = [job EXCEPT ![a][b] = [status |-> "inflight", token |-> @.token + 1, lapsed |-> FALSE]]
  /\ bk' = IF a = "charge" /\ bk[b].payment = "NONE" THEN [bk EXCEPT ![b].payment = "CHARGING"] ELSE bk
  /\ attempts' = IF received
                 THEN attempts \cup {[action |-> a, booking |-> b, token |-> job[a][b].token + 1]}
                 ELSE attempts
  /\ UNCHANGED <<overdue, reserved, limit, provider, late, callbacks>>

\* The current owner of the job still works on it, or a callback of it is due.
Working(a, b) ==
  LET t == job[a][b].token
  IN  \/ [action |-> a, booking |-> b, token |-> t] \in attempts
      \/ \E m \in callbacks : m.action = a /\ m.booking = b /\ m.token = t

\* A lease runs out because its owner is gone, or although it still works.
LeaseExpires(a, b) ==
  /\ job[a][b].status = "inflight"
  /\ ~job[a][b].lapsed
  /\ Working(a, b) => faults < MaxFaults
  /\ faults' = IF Working(a, b) THEN faults + 1 ELSE faults
  /\ job' = [job EXCEPT ![a][b].lapsed = TRUE]
  /\ UNCHANGED <<bk, overdue, reserved, limit, provider, attempts, late, callbacks>>

-----------------------------------------------------------------------------
(***************************************************************************)
(* The simulated ledger.                                                   *)
(***************************************************************************)

\* The status that a new operation gets, "error" when the ledger refuses it.
Outcome(a, b) ==
  IF receipt[a][b] # "none"                  THEN receipt[a][b]
  ELSE IF a = "charge" /\ ledger[b] = "none" THEN IF b \in Declined THEN "declined" ELSE "paid"
  ELSE IF a = "refund" /\ ledger[b] = "paid" THEN "refunded"
  ELSE "error"

Execute(a, b) ==
  IF Outcome(a, b) = "error"
  THEN UNCHANGED provider
  ELSE /\ receipt' = [receipt EXCEPT ![a][b] = Outcome(a, b)]
       /\ ledger' = IF receipt[a][b] = "none" THEN [ledger EXCEPT ![b] = Outcome(a, b)] ELSE ledger

ExecuteLate(r) ==
  /\ Execute(r.action, r.booking)
  /\ late' = late \ {r}
  /\ UNCHANGED <<hotel, attempts, callbacks, faults>>

-----------------------------------------------------------------------------
(***************************************************************************)
(* The worker after a claim.                                               *)
(***************************************************************************)

Callback(kind, x, status) ==
  [kind |-> kind, action |-> x.action, booking |-> x.booking, token |-> x.token, status |-> status]

\* The provider answers and the worker sends finish.
CallProvider(x) ==
  /\ Outcome(x.action, x.booking) # "error"
  /\ Execute(x.action, x.booking)
  /\ attempts' = attempts \ {x}
  /\ callbacks' = callbacks \cup {Callback("finish", x, Outcome(x.action, x.booking))}
  /\ UNCHANGED <<hotel, late, faults>>

\* No answer: the request may execute later, and the worker sends retry unless
\* it stopped.
ProviderFails(x, stopped) ==
  /\ faults < MaxFaults
  /\ faults' = faults + 1
  /\ attempts' = attempts \ {x}
  /\ late' \in {late, late \cup {[action |-> x.action, booking |-> x.booking]}}
  /\ callbacks' = IF stopped THEN callbacks ELSE callbacks \cup {Callback("retry", x, "none")}
  /\ UNCHANGED <<hotel, provider>>

\* finish is not answered in time: the worker sends retry as well, and the two
\* reach the shard in any order.
FinishUnanswered(m) ==
  /\ m.kind = "finish"
  /\ faults < MaxFaults
  /\ faults' = faults + 1
  /\ callbacks' = callbacks \cup {[m EXCEPT !.kind = "retry", !.status = "none"]}
  /\ UNCHANGED <<hotel, provider, attempts, late>>

LoseCallback(m) ==
  /\ faults < MaxFaults
  /\ faults' = faults + 1
  /\ callbacks' = callbacks \ {m}
  /\ UNCHANGED <<hotel, provider, attempts, late>>

-----------------------------------------------------------------------------
(***************************************************************************)
(* Settlement on the shard.                                                *)
(***************************************************************************)

\* Lease fencing.
Owns(m) ==
  /\ job[m.action][m.booking].status = "inflight"
  /\ job[m.action][m.booking].token = m.token

Retry(m) ==
  /\ m.kind = "retry"
  /\ callbacks' = callbacks \ {m}
  /\ job' = IF Owns(m) THEN [job EXCEPT ![m.action][m.booking].status = "pending"] ELSE job
  /\ UNCHANGED <<bk, overdue, reserved, limit, provider, attempts, late, faults>>

Done(m) == [job EXCEPT ![m.action][m.booking].status = "done"]

FinishStale(m) ==
  /\ m.kind = "finish"
  /\ ~Owns(m)
  /\ callbacks' = callbacks \ {m}
  /\ UNCHANGED <<hotel, provider, attempts, late, faults>>

FinishDeclined(m) ==
  /\ m.kind = "finish" /\ m.status = "declined"
  /\ Owns(m)
  /\ LET b == m.booking
         pending == bk[b].status = "PENDING"
     IN  /\ reserved' = IF pending THEN Freed({b}) ELSE reserved
         /\ bk' = [bk EXCEPT ![b] = [(IF pending THEN Released(b, "REJECTED") ELSE bk[b])
                                       EXCEPT !.payment = "DECLINED"]]
  /\ job' = Done(m)
  /\ callbacks' = callbacks \ {m}
  /\ UNCHANGED <<overdue, limit, provider, attempts, late, faults>>

Confirmable_AnyStatus(b) == bk[b].status # "REJECTED" /\ b \notin overdue
Confirmable(b) == bk[b].status = "PENDING" /\ b \notin overdue

FinishPaid_ConfirmAndRefund(m) ==
  /\ m.kind = "finish" /\ m.status = "paid"
  /\ Owns(m)
  /\ LET b == m.booking
     IN  /\ bk' = [bk EXCEPT ![b] = [@ EXCEPT !.payment = "PAID",
                                        !.status = IF @ = "PENDING" THEN "CONFIRMED" ELSE @]]
         /\ job' = IF Confirmable(b) THEN Done(m) ELSE WithRefundJob(Done(m), b)
  /\ callbacks' = callbacks \ {m}
  /\ UNCHANGED <<overdue, reserved, limit, provider, attempts, late, faults>>

\* Confirm, or compensate a payment that came too late.
FinishPaid(m) ==
  /\ m.kind = "finish" /\ m.status = "paid"
  /\ Owns(m)
  /\ LET b == m.booking
     IN  IF Confirmable(b)
         THEN /\ bk' = [bk EXCEPT ![b].status = "CONFIRMED", ![b].payment = "PAID"]
              /\ job' = Done(m)
              /\ UNCHANGED reserved
         ELSE /\ reserved' = IF bk[b].status = "PENDING" THEN Freed({b}) ELSE reserved
              /\ bk' = [bk EXCEPT ![b] = [(IF bk[b].status = "PENDING" THEN Released(b, "EXPIRED") ELSE bk[b])
                                            EXCEPT !.payment = "REFUND_PENDING"]]
              /\ job' = WithRefundJob(Done(m), b)
  /\ callbacks' = callbacks \ {m}
  /\ UNCHANGED <<overdue, limit, provider, attempts, late, faults>>

FinishRefunded(m) ==
  /\ m.kind = "finish" /\ m.status = "refunded"
  /\ Owns(m)
  /\ bk' = [bk EXCEPT ![m.booking].payment = "REFUNDED"]
  /\ job' = Done(m)
  /\ callbacks' = callbacks \ {m}
  /\ UNCHANGED <<overdue, reserved, limit, provider, attempts, late, faults>>

Finish(m) == FinishStale(m) \/ FinishDeclined(m) \/ FinishPaid(m) \/ FinishRefunded(m)

-----------------------------------------------------------------------------

Init ==
  /\ bk = [b \in Bookings |-> [status |-> "NONE", payment |-> "NONE", held |-> FALSE]]
  /\ overdue = {}
  /\ reserved = [d \in Days |-> 0]
  /\ limit \in [Days -> Limits]
  /\ job = [a \in Actions |-> [b \in Bookings |-> NoJob]]
  /\ ledger = [b \in Bookings |-> "none"]
  /\ receipt = [a \in Actions |-> [b \in Bookings |-> "none"]]
  /\ attempts = {}
  /\ late = {}
  /\ callbacks = {}
  /\ faults = 0

Next ==
  \/ \E b \in Bookings : Reserve(b) \/ Cancel(b) \/ PassDeadline(b) \/ ClaimUncharged(b)
  \/ Sweep
  \/ \E d \in Days, n \in Limits : SetDays(d, n)
  \/ \E a \in Actions, b \in Bookings : LeaseExpires(a, b) \/ Claim(a, b, TRUE) \/ Claim(a, b, FALSE)
  \/ \E r \in late : ExecuteLate(r)
  \/ \E x \in attempts : CallProvider(x) \/ ProviderFails(x, TRUE) \/ ProviderFails(x, FALSE)
  \/ \E m \in callbacks : FinishUnanswered(m) \/ LoseCallback(m) \/ Retry(m) \/ Finish(m)

Spec == Init /\ [][Next]_vars

\* Workers poll without end; a claimed job is executed, its callbacks reach the
\* shard, and the lease of a worker that is gone runs out.
Fairness ==
  /\ \A b \in Bookings :
       /\ WF_vars(ClaimUncharged(b))
       /\ \A a \in Actions :
            /\ SF_vars(Claim(a, b, TRUE))
            /\ WF_vars(LeaseExpires(a, b) /\ ~Working(a, b))
            /\ WF_vars(\E x \in attempts : x.action = a /\ x.booking = b /\ CallProvider(x))
            /\ WF_vars(\E m \in callbacks : m.action = a /\ m.booking = b /\ (Retry(m) \/ Finish(m)))
  /\ WF_vars(Sweep)

FairSpec == Spec /\ Fairness

-----------------------------------------------------------------------------
(***************************************************************************)
(* Properties.                                                             *)
(***************************************************************************)

BookingRow ==
  [status : {"NONE", "PENDING", "CONFIRMED", "CANCELLED", "EXPIRED", "REJECTED"},
   payment : {"NONE", "CHARGING", "PAID", "DECLINED", "REFUND_PENDING", "REFUNDED"},
   held : BOOLEAN]
JobRow == [status : {"none", "pending", "inflight", "done"}, token : Nat, lapsed : BOOLEAN]

Request == [action : Actions, booking : Bookings]
CallbackRow ==
  [kind : {"finish", "retry"}, action : Actions, booking : Bookings, token : Nat,
   status : {"none", "paid", "declined", "refunded"}]

TypeOK ==
  /\ bk \in [Bookings -> BookingRow]
  /\ overdue \subseteq Bookings
  /\ reserved \in [Days -> Nat]
  /\ limit \in [Days -> Nat]
  /\ job \in [Actions -> [Bookings -> JobRow]]
  /\ ledger \in [Bookings -> {"none", "paid", "declined", "refunded"}]
  /\ receipt \in [Actions -> [Bookings -> {"none", "paid", "declined", "refunded"}]]
  /\ attempts \subseteq Attempt
  /\ late \subseteq Request
  /\ callbacks \subseteq CallbackRow
  /\ faults \in 0..MaxFaults

Occupied(d) ==
  SumFunctionOnSet(Quantity, {b \in Bookings : bk[b].status \in {"PENDING", "CONFIRMED"} /\ d \in NightsOf[b]})

\* Inventory is exactly what pending and confirmed stays occupy and never above
\* the limit: cancel, sweep, a decline and a late claim release a stay once.
InventoryExact == \A d \in Days : reserved[d] = Occupied(d) /\ reserved[d] <= limit[d]

\* A confirmed guest has paid and was not refunded, whatever callbacks and
\* provider requests arrive late (finish).
ConfirmedIsPaid == \A b \in Bookings : bk[b].status = "CONFIRMED" => ledger[b] = "paid"

\* Nobody keeps money for a stay that does not take place: with no job left,
\* only a confirmed booking has a charge that was not refunded.
MoneyMatchesStays ==
  \A b \in Bookings :
    /\ job["charge"][b].status \in {"none", "done"}
    /\ job["refund"][b].status \in {"none", "done"}
    => (ledger[b] = "paid" <=> bk[b].status = "CONFIRMED")

\* The ledger never refuses an operation of a worker: every refund finds its paid
\* charge, and no charge finds one without a receipt (409 in SimulatedLedger.execute).
ProviderNeverRefuses ==
  /\ \A x \in attempts : Outcome(x.action, x.booking) # "error"
  /\ \A r \in late : Outcome(r.action, r.booking) # "error"

\* Types, and: the inventory is what pending and confirmed stays occupy, a
\* confirmed guest has paid, nobody keeps money for a stay that does not take
\* place, and the provider never refuses a worker (bookings.py, saga.py).
StaysExact ==
  TypeOK /\ InventoryExact /\ ConfirmedIsPaid /\ MoneyMatchesStays /\ ProviderNeverRefuses

Ended == {"CANCELLED", "EXPIRED", "REJECTED"}

\* A booking that ended stays ended, and money that was refunded stays refunded.
EndIsFinal ==
  [][\A b \in Bookings :
       /\ bk[b].status \in Ended => bk'[b].status = bk[b].status
       /\ ledger[b] \in {"refunded", "declined"} => ledger'[b] = ledger[b]]_vars

\* A hold is always resolved, and a charge of a stay that ended is refunded.
EventuallySettled ==
  \A b \in Bookings :
    /\ bk[b].status = "PENDING" ~> bk[b].status # "PENDING"
    /\ ledger[b] = "paid" /\ bk[b].status \notin {"PENDING", "CONFIRMED"} ~> ledger[b] = "refunded"

-----------------------------------------------------------------------------
(***************************************************************************)
(* Proofs.  What one booking, its two jobs, its charge and its two         *)
(* receipts may be together is one predicate, Sound, of these six values;  *)
(* a step changes them for one booking, except Sweep, which only releases. *)
(* What is on its way is bound to the claims and receipts behind it, and   *)
(* the inventory is a sum over the bookings that hold rooms.               *)
(***************************************************************************)

Holding == {"PENDING", "CONFIRMED"}

\* The charge is the last receipt, and a refund has a paid charge before it.
LedgerSound(l, rc, rr) ==
  /\ rc \in {"none", "paid", "declined"}
  /\ rr \in {"none", "refunded"}
  /\ rc # "paid" => rr = "none"
  /\ l = IF rr = "none" THEN rc ELSE rr

\* The charge job c, its receipt rc and booking k; the refund job r and rr.
Sound(k, c, r, l, rc, rr) ==
  /\ LedgerSound(l, rc, rr)
  /\ k.held <=> k.status \in Holding
  /\ k.payment = "PAID" <=> k.status = "CONFIRMED"
  /\ c.status = "none" <=> k.status = "NONE"
  /\ c.status = "none" => c.token = 0
  /\ r.status = "none" => r = NoJob
  /\ c.token = 0 => rc = "none"
  /\ r.token = 0 => rr = "none"
  /\ c.status = "done" /\ c.token # 0 => rc # "none"
  /\ r.status = "done" => rr # "none"
  /\ k.status = "CONFIRMED" => c.status = "done" /\ rc = "paid" /\ r.status = "none"
  /\ c.status = "done" /\ rc = "paid" /\ r.status = "none" => k.status = "CONFIRMED"
  /\ r.status # "none" => c.status = "done" /\ rc = "paid" /\ k.status \notin Holding

SoundAt(b) ==
  Sound(bk[b], job["charge"][b], job["refund"][b], ledger[b], receipt["charge"][b], receipt["refund"][b])

\* Only a claim makes a worker call the provider, and a finish callback carries
\* the provider's stored answer.
MessagesSound ==
  /\ \A x \in attempts : job[x.action][x.booking].token # 0
  /\ \A x \in late : job[x.action][x.booking].token # 0
  /\ \A m \in callbacks :
       /\ job[m.action][m.booking].token # 0
       /\ m.kind = "finish" => m.status # "none" /\ m.status = receipt[m.action][m.booking]

HotelIInv == TypeOK /\ InventoryExact /\ MessagesSound /\ \A b \in Bookings : SoundAt(b)

-----------------------------------------------------------------------------
(* The inventory. *)

\* The bookings that occupy a day.
Occupants(d) == {b \in Bookings : bk[b].status \in Holding /\ d \in NightsOf[b]}

\* The bookings of a set are finitely many, and so are their rooms.
LEMMA RoomsType ==
  ASSUME Assumption, NEW B, B \subseteq Bookings
  PROVE  /\ IsFiniteSet(B)
         /\ \A b \in B : Quantity[b] \in Int
         /\ SumFunctionOnSet(Quantity, B) \in Nat
<1>1. IsFiniteSet(B) /\ \A b \in B : Quantity[b] \in Nat
  BY FS_Subset DEF Assumption
<1>2. SumFunctionOnSet(Quantity, B) \in Nat
  BY <1>1, SumNat
<1> QED
  BY <1>1, <1>2

\* What occupies a day is the sum over its occupants.
LEMMA OccupiedSum ==
  ASSUME NEW d
  PROVE  Occupied(d) = SumFunctionOnSet(Quantity, Occupants(d))
BY DEF Occupied, Occupants, Holding

\* A step that releases nothing and books nothing.
LEMMA InventoryKept ==
  ASSUME TypeOK, InventoryExact, UNCHANGED <<reserved, limit>>,
         \A b \in Bookings : bk'[b].status \in Holding <=> bk[b].status \in Holding
  PROVE  InventoryExact'
<1>1. ASSUME NEW d \in Days PROVE Occupied(d)' = Occupied(d)
  <2>1. Occupants(d)' = Occupants(d)
    BY DEF Occupants
  <2> QED
    BY <2>1, OccupiedSum DEF Occupied, Occupants, Holding
<1> QED
  BY <1>1 DEF InventoryExact

\* A step that releases some of the bookings that hold rooms.
LEMMA InventoryFreed ==
  ASSUME Assumption, TypeOK, InventoryExact, NEW B, B \subseteq Bookings,
         reserved' = Freed(B), UNCHANGED limit,
         \A b \in B : bk[b].held /\ bk[b].status \in Holding /\ bk'[b].status \notin Holding,
         \A b \in Bookings : b \notin B => bk'[b].status = bk[b].status
  PROVE  InventoryExact' /\ reserved' \in [Days -> Nat]
<1>1. ASSUME NEW d \in Days
      PROVE  /\ reserved'[d] = Occupied(d)' /\ reserved'[d] \in Nat /\ reserved'[d] <= limit'[d]
  <2> DEFINE S == Occupants(d)
             T == {b \in B : bk[b].held /\ d \in NightsOf[b]}
  <2>1. T \subseteq S /\ S \subseteq Bookings /\ S \ T \subseteq Bookings /\ Occupants(d)' = S \ T
    BY DEF Occupants
  <2>2. reserved'[d] = reserved[d] - SumFunctionOnSet(Quantity, T)
    BY DEF Freed
  <2>3. reserved[d] = SumFunctionOnSet(Quantity, S) /\ reserved[d] <= limit[d] /\ limit[d] \in Nat
    BY OccupiedSum DEF InventoryExact, TypeOK
  <2>4. Occupied(d)' = SumFunctionOnSet(Quantity, S \ T)
    <3>1. (Occupied(d) = SumFunctionOnSet(Quantity, Occupants(d)))'
      BY OccupiedSum, PTL
    <3> QED
      BY <2>1, <3>1
  <2> HIDE DEF S, T
  <2>5. /\ IsFiniteSet(S) /\ (\A b \in S : Quantity[b] \in Int)
        /\ SumFunctionOnSet(Quantity, S) \in Nat /\ SumFunctionOnSet(Quantity, T) \in Nat
        /\ SumFunctionOnSet(Quantity, S \ T) \in Nat
    BY <2>1, RoomsType
  <2>6. SumFunctionOnSet(Quantity, S) = SumFunctionOnSet(Quantity, S \ T) + SumFunctionOnSet(Quantity, T)
    BY <2>1, <2>5, SumDifference
  <2> QED
    BY <2>2, <2>3, <2>4, <2>5, <2>6
<1>2. DOMAIN reserved' = Days /\ reserved' = [d \in Days |-> reserved'[d]]
  BY DEF Freed
<1> QED
  BY <1>1, <1>2 DEF InventoryExact

\* A booking that fits is added.
LEMMA InventoryAdded ==
  ASSUME Assumption, TypeOK, InventoryExact, NEW b \in Bookings, Fits(b), UNCHANGED limit,
         reserved' = [d \in Days |-> IF d \in NightsOf[b] THEN reserved[d] + Quantity[b] ELSE reserved[d]],
         bk[b].status \notin Holding, bk'[b].status \in Holding,
         \A q \in Bookings : q # b => bk'[q].status = bk[q].status
  PROVE  InventoryExact' /\ reserved' \in [Days -> Nat]
<1>0. Quantity[b] \in Nat
  BY DEF Assumption
<1>1. ASSUME NEW d \in Days
      PROVE  /\ reserved'[d] = Occupied(d)' /\ reserved'[d] \in Nat /\ reserved'[d] <= limit'[d]
  <2> DEFINE S == Occupants(d)
  <2>1. reserved[d] = SumFunctionOnSet(Quantity, S) /\ reserved[d] <= limit[d] /\ limit[d] \in Nat
        /\ reserved[d] \in Nat
    BY OccupiedSum DEF InventoryExact, TypeOK
  <2>2. (Occupied(d) = SumFunctionOnSet(Quantity, Occupants(d)))'
    BY OccupiedSum, PTL
  <2>3. S \subseteq Bookings /\ b \notin S /\ S \cup {b} \subseteq Bookings
    BY DEF Occupants
  <2>4. CASE d \in NightsOf[b]
    <3>1. Occupants(d)' = S \cup {b}
      BY <2>4 DEF Occupants
    <3>2. reserved'[d] = reserved[d] + Quantity[b] /\ reserved[d] + Quantity[b] <= limit[d]
      BY <2>4 DEF Fits
    <3> HIDE DEF S
    <3>3. IsFiniteSet(S) /\ \A q \in S \cup {b} : Quantity[q] \in Int
      BY <2>3, RoomsType
    <3>4. SumFunctionOnSet(Quantity, S \cup {b}) = Quantity[b] + SumFunctionOnSet(Quantity, S)
      BY <2>3, <3>3, SumAdd
    <3> QED
      BY <1>0, <2>1, <2>2, <3>1, <3>2, <3>4
  <2>5. CASE d \notin NightsOf[b]
    <3>1. Occupants(d)' = S
      BY <2>5 DEF Occupants
    <3>2. reserved'[d] = reserved[d]
      BY <2>5
    <3> QED
      BY <2>1, <2>2, <3>1, <3>2
  <2> QED
    BY <2>4, <2>5
<1>2. reserved' = [d \in Days |-> reserved'[d]]
  OBVIOUS
<1> QED
  BY <1>1, <1>2 DEF InventoryExact

-----------------------------------------------------------------------------
(* The provider. *)

\* The ledger executes every request whose job was claimed: a charge has no
\* charge before it, a refund finds a paid one.  The result is the receipt.
LEMMA OutcomeSound ==
  ASSUME HotelIInv, NEW a \in Actions, NEW b \in Bookings, job[a][b].token # 0
  PROVE  /\ Outcome(a, b) \in (IF a = "charge" THEN {"paid", "declined"} ELSE {"refunded"})
         /\ receipt[a][b] # "none" => Outcome(a, b) = receipt[a][b]
         /\ receipt[a][b] = "none" => ledger[b] = IF a = "charge" THEN "none" ELSE "paid"
         /\ receipt[a][b] = "none" /\ a = "charge" => job[a][b].status # "done" /\ job["refund"][b].status = "none"
         /\ a = "refund" => receipt["charge"][b] = "paid" /\ job["refund"][b].status # "none"
<1>1. SoundAt(b) /\ a \in {"charge", "refund"} /\ (job["refund"][b].token = 0 \/ job["refund"][b].status # "none")
  BY DEF HotelIInv, Actions, SoundAt, Sound, NoJob
<1>2. CASE a = "charge"
  BY <1>2 DEF HotelIInv, SoundAt, Sound, LedgerSound, Outcome
<1>3. CASE a = "refund"
  <2>1. job["refund"][b].status # "none"
    BY <1>1, <1>3 DEF HotelIInv, SoundAt, Sound, NoJob
  <2> QED
    BY <1>3, <2>1 DEF HotelIInv, SoundAt, Sound, LedgerSound, Outcome
<1> QED
  BY <1>2, <1>3 DEF Actions

\* The request executes: the booking stays sound, receipts are never replaced and
\* what was declined or refunded stays so.
LEMMA ExecuteSound ==
  ASSUME Assumption, HotelIInv, NEW a \in Actions, NEW b \in Bookings, job[a][b].token # 0,
         Execute(a, b), UNCHANGED hotel
  PROVE  /\ \A q \in Bookings : SoundAt(q)'
         /\ ledger' \in [Bookings -> {"none", "paid", "declined", "refunded"}]
         /\ receipt' \in [Actions -> [Bookings -> {"none", "paid", "declined", "refunded"}]]
         /\ receipt'[a][b] = Outcome(a, b)
         /\ \A c \in Actions, q \in Bookings : receipt[c][q] # "none" => receipt'[c][q] = receipt[c][q]
         /\ \A q \in Bookings : ledger[q] \in {"refunded", "declined"} => ledger'[q] = ledger[q]
<1> DEFINE o == Outcome(a, b)
<1>1. /\ o \in (IF a = "charge" THEN {"paid", "declined"} ELSE {"refunded"})
      /\ receipt[a][b] # "none" => o = receipt[a][b]
      /\ receipt[a][b] = "none" => ledger[b] = IF a = "charge" THEN "none" ELSE "paid"
      /\ receipt[a][b] = "none" /\ a = "charge" => job[a][b].status # "done" /\ job["refund"][b].status = "none"
      /\ a = "refund" => receipt["charge"][b] = "paid" /\ job["refund"][b].status # "none"
  BY OutcomeSound
<1>2. /\ receipt' = [receipt EXCEPT ![a][b] = o]
      /\ ledger' = IF receipt[a][b] = "none" THEN [ledger EXCEPT ![b] = o] ELSE ledger
  BY <1>1 DEF Execute
<1> HIDE DEF o
<1>3. UNCHANGED <<bk, job>> /\ a \in {"charge", "refund"}
  BY DEF hotel, Actions
<1>4. /\ ledger \in [Bookings -> {"none", "paid", "declined", "refunded"}]
      /\ receipt \in [Actions -> [Bookings -> {"none", "paid", "declined", "refunded"}]]
  BY DEF HotelIInv, TypeOK
<1>5. /\ receipt'[a][b] = o
      /\ \A c \in Actions, q \in Bookings : <<c, q>> # <<a, b>> => receipt'[c][q] = receipt[c][q]
      /\ "charge" \in Actions /\ "refund" \in Actions
  BY <1>2, <1>4 DEF Actions
<1>6. /\ ledger'[b] = IF receipt[a][b] = "none" THEN o ELSE ledger[b]
      /\ \A q \in Bookings : q # b => ledger'[q] = ledger[q]
  BY <1>2, <1>4
<1>7. ASSUME NEW q \in Bookings PROVE SoundAt(q)'
  <2>0. SoundAt(q)
    BY DEF HotelIInv
  <2>1. CASE q # b
    BY <2>0, <2>1, <1>3, <1>5, <1>6 DEF SoundAt
  <2>2. CASE q = b /\ receipt[a][b] # "none"
    <3>1. receipt'["charge"][b] = receipt["charge"][b] /\ receipt'["refund"][b] = receipt["refund"][b]
      BY <1>1, <1>3, <1>5, <2>2
    <3> QED
      BY <2>0, <2>2, <3>1, <1>3, <1>6 DEF SoundAt
  <2>3. CASE q = b /\ receipt[a][b] = "none" /\ a = "charge"
    <3>1. receipt'["charge"][b] = o /\ receipt'["refund"][b] = receipt["refund"][b] /\ ledger'[b] = o
      BY <1>5, <1>6, <2>3
    <3> QED
      BY <2>0, <2>3, <3>1, <1>1, <1>3 DEF SoundAt, Sound, LedgerSound
  <2>4. CASE q = b /\ receipt[a][b] = "none" /\ a = "refund"
    <3>1. receipt'["refund"][b] = o /\ receipt'["charge"][b] = receipt["charge"][b] /\ ledger'[b] = o
      BY <1>5, <1>6, <2>4
    <3> QED
      BY <2>0, <2>4, <3>1, <1>1, <1>3 DEF SoundAt, Sound, LedgerSound
  <2> QED
    BY <2>1, <2>2, <2>3, <2>4, <1>3
<1>8. /\ ledger' \in [Bookings -> {"none", "paid", "declined", "refunded"}]
      /\ receipt' \in [Actions -> [Bookings -> {"none", "paid", "declined", "refunded"}]]
  BY <1>1, <1>2, <1>4
<1>9. \A c \in Actions, q \in Bookings : receipt[c][q] # "none" => receipt'[c][q] = receipt[c][q]
  BY <1>1, <1>5
<1>10. \A q \in Bookings : ledger[q] \in {"refunded", "declined"} => ledger'[q] = ledger[q]
  BY <1>1, <1>6, <1>3
<1> QED
  BY <1>5, <1>7, <1>8, <1>9, <1>10 DEF o

-----------------------------------------------------------------------------
(* Steps. *)

\* A step at one booking leaves the others as they are.
LEMMA OneBooking ==
  ASSUME HotelIInv, NEW b \in Bookings, UNCHANGED provider,
         \A q \in Bookings : q # b => /\ bk'[q] = bk[q]
                                      /\ job'["charge"][q] = job["charge"][q]
                                      /\ job'["refund"][q] = job["refund"][q],
         SoundAt(b)'
  PROVE  \A q \in Bookings : SoundAt(q)'
<1>1. ASSUME NEW q \in Bookings, q # b PROVE SoundAt(q)'
  BY <1>1 DEF HotelIInv, SoundAt, provider
<1> QED
  BY <1>1

\* Messages on their way stay sound when claims only grow.
LEMMA MessagesKept ==
  ASSUME HotelIInv, UNCHANGED receipt, attempts' \subseteq attempts, late' \subseteq late, callbacks' \subseteq callbacks,
         \A a \in Actions, b \in Bookings : job[a][b].token # 0 => job'[a][b].token # 0
  PROVE  MessagesSound'
<1>1. /\ \A x \in attempts \cup late \cup callbacks : x.action \in Actions /\ x.booking \in Bookings
  BY DEF HotelIInv, TypeOK, Attempt, Request, CallbackRow
<1> QED
  BY <1>1 DEF HotelIInv, MessagesSound

\* The rows that a step writes.
LEMMA JobRows ==
  /\ NoJob \in JobRow /\ NoJob.status = "none" /\ NoJob.token = 0
  /\ [NoJob EXCEPT !.status = "pending"] \in JobRow
  /\ [NoJob EXCEPT !.status = "pending"].status = "pending"
  /\ [NoJob EXCEPT !.status = "pending"].token = 0
BY DEF NoJob, JobRow

\* What a release writes.
LEMMA ReleasedRow ==
  ASSUME TypeOK, NEW b \in Bookings, NEW s \in {"CANCELLED", "EXPIRED", "REJECTED"}
  PROVE  /\ Released(b, s) \in BookingRow
         /\ Released(b, s).status = s /\ ~Released(b, s).held /\ Released(b, s).payment = bk[b].payment
         /\ \A p \in {"DECLINED", "REFUND_PENDING"} :
              /\ [Released(b, s) EXCEPT !.payment = p] \in BookingRow
              /\ [Released(b, s) EXCEPT !.payment = p].status = s
              /\ ~[Released(b, s) EXCEPT !.payment = p].held
              /\ [Released(b, s) EXCEPT !.payment = p].payment = p
BY DEF TypeOK, BookingRow, Released

\* Nothing is booked at first.
LEMMA HotelInitIInv == ASSUME Assumption, Init PROVE HotelIInv
<1>1. TypeOK
  <2>0. [status |-> "NONE", payment |-> "NONE", held |-> FALSE] \in BookingRow
    BY DEF BookingRow
  <2>1. bk \in [Bookings -> BookingRow]
    BY <2>0 DEF Init
  <2>2. job \in [Actions -> [Bookings -> JobRow]]
    BY JobRows DEF Init
  <2>3. reserved \in [Days -> Nat] /\ limit \in [Days -> Nat] /\ faults \in 0..MaxFaults
    <3>1. limit \in [Days -> Limits] /\ Limits \subseteq Nat
      BY DEF Init, Assumption
    <3>2. \A d \in Days : limit[d] \in Nat
      BY <3>1
    <3>3. limit = [d \in Days |-> limit[d]]
      BY <3>1
    <3>4. limit \in [Days -> Nat]
      BY <3>2, <3>3
    <3>5. reserved \in [Days -> Nat] /\ faults \in 0..MaxFaults
      BY DEF Init, Assumption
    <3> QED
      BY <3>4, <3>5
  <2>4. /\ ledger \in [Bookings -> {"none", "paid", "declined", "refunded"}]
        /\ receipt \in [Actions -> [Bookings -> {"none", "paid", "declined", "refunded"}]]
    BY DEF Init
  <2>5. overdue = {} /\ attempts = {} /\ late = {} /\ callbacks = {}
    BY DEF Init
  <2> QED
    BY <2>1, <2>2, <2>3, <2>4, <2>5 DEF TypeOK
<1>2. MessagesSound
  BY DEF Init, MessagesSound
<1>3. ASSUME NEW b \in Bookings PROVE SoundAt(b)
  BY DEF Init, SoundAt, Sound, LedgerSound, Holding, NoJob, Actions
<1>4. InventoryExact
  <2>1. ASSUME NEW d \in Days PROVE reserved[d] = Occupied(d) /\ reserved[d] <= limit[d]
    <3>1. Occupants(d) = {}
      BY DEF Init, Occupants, Holding
    <3>2. Occupied(d) = 0
      BY <3>1, OccupiedSum, SumEmpty
    <3>3. reserved[d] = 0 /\ limit[d] \in Nat
      BY <1>1 DEF Init, TypeOK
    <3> QED
      BY <3>2, <3>3
  <2> QED
    BY <2>1 DEF InventoryExact
<1> QED
  BY <1>1, <1>2, <1>3, <1>4 DEF HotelIInv

\* A job row changes its status.
LEMMA StatusRow ==
  ASSUME NEW j \in JobRow, NEW s \in {"pending", "inflight", "done"}
  PROVE  /\ [j EXCEPT !.status = s] \in JobRow
         /\ [j EXCEPT !.status = s].status = s /\ [j EXCEPT !.status = s].token = j.token
BY DEF JobRow

\* One job row is replaced.
LEMMA JobUpdate ==
  ASSUME TypeOK, NEW a \in Actions, NEW b \in Bookings, NEW j \in JobRow, job' = [job EXCEPT ![a][b] = j]
  PROVE  /\ job' \in [Actions -> [Bookings -> JobRow]]
         /\ job'[a][b] = j
         /\ \A c \in Actions, q \in Bookings : c # a \/ q # b => job'[c][q] = job[c][q]
BY DEF TypeOK

\* One booking row is replaced.
LEMMA BookingUpdate ==
  ASSUME TypeOK, NEW b \in Bookings, NEW k \in BookingRow, bk' = [bk EXCEPT ![b] = k]
  PROVE  /\ bk' \in [Bookings -> BookingRow]
         /\ bk'[b] = k
         /\ \A q \in Bookings : q # b => bk'[q] = bk[q]
BY DEF TypeOK

\* A step at one booking that keeps it sound keeps the invariant.
LEMMA BookingStep ==
  ASSUME Assumption, HotelIInv, NEW b \in Bookings, UNCHANGED <<overdue, limit, provider>>,
         bk' \in [Bookings -> BookingRow], job' \in [Actions -> [Bookings -> JobRow]],
         \A q \in Bookings : q # b => bk'[q] = bk[q],
         \A a \in Actions, q \in Bookings : q # b => job'[a][q] = job[a][q],
         SoundAt(b)',
         \/ reserved' = reserved /\ (bk'[b].status \in Holding <=> bk[b].status \in Holding)
         \/ reserved' = Freed({b}) /\ bk[b].status \in Holding /\ bk'[b].status \notin Holding,
         faults' \in 0..MaxFaults, attempts' \subseteq Attempt, late' \subseteq Request,
         callbacks' \subseteq CallbackRow, MessagesSound'
  PROVE  HotelIInv'
<1>0. TypeOK /\ InventoryExact /\ SoundAt(b)
  BY DEF HotelIInv
<1>1. \A q \in Bookings : SoundAt(q)'
  BY OneBooking DEF Actions
<1>2. InventoryExact' /\ reserved' \in [Days -> Nat]
  <2>1. CASE reserved' = reserved /\ (bk'[b].status \in Holding <=> bk[b].status \in Holding)
    BY <1>0, <2>1, InventoryKept DEF TypeOK
  <2>2. CASE reserved' = Freed({b}) /\ bk[b].status \in Holding /\ bk'[b].status \notin Holding
    <3>1. bk[b].held
      BY <1>0, <2>2 DEF SoundAt, Sound
    <3>2. /\ {b} \subseteq Bookings
          /\ \A q \in {b} : bk[q].held /\ bk[q].status \in Holding /\ bk'[q].status \notin Holding
          /\ \A q \in Bookings : q \notin {b} => bk'[q].status = bk[q].status
      BY <2>2, <3>1
    <3> QED
      BY <1>0, <2>2, <3>2, InventoryFreed
  <2> QED
    BY <2>1, <2>2
<1>3. TypeOK'
  BY <1>0, <1>2 DEF TypeOK, provider
<1> QED
  BY <1>1, <1>2, <1>3 DEF HotelIInv

\* reserve.
LEMMA ReserveStep == ASSUME Assumption, HotelIInv, NEW b \in Bookings, Reserve(b) PROVE HotelIInv'
<1>0. TypeOK /\ InventoryExact /\ SoundAt(b)
  BY DEF HotelIInv
<1> DEFINE k == [status |-> "PENDING", payment |-> "NONE", held |-> TRUE]
           j == [NoJob EXCEPT !.status = "pending"]
<1>1. k \in BookingRow /\ k.status = "PENDING" /\ k.payment = "NONE" /\ k.held
  BY DEF BookingRow
<1>2. j \in JobRow /\ j.status = "pending" /\ j.token = 0
  BY JobRows
<1>3. /\ bk[b].status = "NONE" /\ Fits(b)
      /\ bk' = [bk EXCEPT ![b] = k] /\ job' = [job EXCEPT !["charge"][b] = j]
      /\ UNCHANGED <<overdue, limit, ledger, receipt, attempts, late, callbacks, faults>>
      /\ reserved' = [d \in Days |-> IF d \in NightsOf[b] THEN reserved[d] + Quantity[b] ELSE reserved[d]]
  BY DEF Reserve, provider
<1> HIDE DEF k, j
<1>4. bk' \in [Bookings -> BookingRow] /\ bk'[b] = k /\ \A q \in Bookings : q # b => bk'[q] = bk[q]
  BY <1>0, <1>1, <1>3, BookingUpdate
<1>5. /\ job' \in [Actions -> [Bookings -> JobRow]] /\ job'["charge"][b] = j
      /\ \A c \in Actions, q \in Bookings : c # "charge" \/ q # b => job'[c][q] = job[c][q]
      /\ "charge" \in Actions /\ "refund" \in Actions
  BY <1>0, <1>2, <1>3, JobUpdate DEF Actions
<1>6. job["charge"][b].token = 0 /\ job'["refund"][b] = job["refund"][b] /\ job["refund"][b].status = "none"
  BY <1>0, <1>3, <1>5 DEF SoundAt, Sound
<1>7. SoundAt(b)'
  BY <1>0, <1>1, <1>2, <1>3, <1>4, <1>5, <1>6 DEF SoundAt, Sound, Holding
<1>8. InventoryExact' /\ reserved' \in [Days -> Nat]
  BY <1>0, <1>1, <1>3, <1>4, InventoryAdded DEF Holding
<1>9. MessagesSound'
  <2>1. \A a \in Actions, q \in Bookings : job[a][q].token # 0 => job'[a][q].token # 0
    BY <1>5, <1>6
  <2> QED
    BY <1>3, <2>1, MessagesKept
<1>10. \A q \in Bookings : SoundAt(q)'
  BY <1>3, <1>4, <1>5, <1>7, OneBooking DEF provider
<1>11. TypeOK'
  BY <1>0, <1>3, <1>4, <1>5, <1>8 DEF TypeOK
<1> QED
  BY <1>8, <1>9, <1>10, <1>11 DEF HotelIInv

\* A refund job is added unless there is one.
LEMMA RefundJobAdded ==
  ASSUME NEW jobs \in [Actions -> [Bookings -> JobRow]], NEW b \in Bookings, jobs["refund"][b] = NoJob
  PROVE  /\ WithRefundJob(jobs, b) \in [Actions -> [Bookings -> JobRow]]
         /\ WithRefundJob(jobs, b)["refund"][b].status = "pending"
         /\ WithRefundJob(jobs, b)["refund"][b].token = 0
         /\ \A c \in Actions, q \in Bookings :
              c # "refund" \/ q # b => WithRefundJob(jobs, b)[c][q] = jobs[c][q]
<1> DEFINE j == [NoJob EXCEPT !.status = "pending"]
<1>1. j \in JobRow /\ j.status = "pending" /\ j.token = 0
  BY JobRows
<1>2. WithRefundJob(jobs, b) = [jobs EXCEPT !["refund"][b] = j] /\ "refund" \in Actions
  BY DEF WithRefundJob, Actions
<1> HIDE DEF j
<1> QED
  BY <1>1, <1>2

\* cancel.
LEMMA CancelStep == ASSUME Assumption, HotelIInv, NEW b \in Bookings, Cancel(b) PROVE HotelIInv'
<1>0. TypeOK /\ InventoryExact /\ SoundAt(b) /\ bk[b].status \in Holding
  BY DEF HotelIInv, Cancel, Holding
<1> DEFINE paid == bk[b].payment = "PAID"
           r    == Released(b, "CANCELLED")
           k    == IF paid THEN [r EXCEPT !.payment = "REFUND_PENDING"] ELSE r
<1>1. k \in BookingRow /\ k.status = "CANCELLED" /\ ~k.held /\ k.payment # "PAID"
  BY <1>0, ReleasedRow
<1>2. /\ bk' = [bk EXCEPT ![b] = k] /\ job' = IF paid THEN WithRefundJob(job, b) ELSE job
      /\ UNCHANGED <<overdue, limit, ledger, receipt, attempts, late, callbacks, faults>>
      /\ reserved' = Freed({b})
  BY DEF Cancel, provider
<1> HIDE DEF k
<1>3. bk' \in [Bookings -> BookingRow] /\ bk'[b] = k /\ \A q \in Bookings : q # b => bk'[q] = bk[q]
  BY <1>0, <1>1, <1>2, BookingUpdate
<1>4. paid <=> bk[b].status = "CONFIRMED"
  BY <1>0 DEF SoundAt, Sound
<1>5. /\ job' \in [Actions -> [Bookings -> JobRow]]
      /\ job'["charge"][b] = job["charge"][b]
      /\ job'["refund"][b].status = IF paid THEN "pending" ELSE job["refund"][b].status
      /\ paid => job'["refund"][b].token = 0
      /\ ~paid => job'["refund"][b] = job["refund"][b]
      /\ \A a \in Actions, q \in Bookings : a # "refund" \/ q # b => job'[a][q] = job[a][q]
  <2>1. CASE paid
    <3>1. job["refund"][b] = NoJob
      BY <1>0, <1>4, <2>1 DEF SoundAt, Sound
    <3> QED
      BY <1>0, <1>2, <2>1, <3>1, RefundJobAdded DEF TypeOK, Actions
  <2>2. CASE ~paid
    BY <1>0, <1>2, <2>2 DEF TypeOK
  <2> QED
    BY <2>1, <2>2
<1>6. SoundAt(b)'
  <2>1. CASE paid
    BY <1>0, <1>1, <1>2, <1>3, <1>4, <1>5, <2>1, JobRows DEF SoundAt, Sound, Holding
  <2>2. CASE ~paid
    BY <1>0, <1>1, <1>2, <1>3, <1>4, <1>5, <2>2 DEF SoundAt, Sound, Holding
  <2> QED
    BY <2>1, <2>2
<1>7. MessagesSound'
  <2>1. job["refund"][b].token # 0 => ~paid
    BY <1>0, <1>4 DEF SoundAt, Sound, NoJob
  <2>2. \A a \in Actions, q \in Bookings : job[a][q].token # 0 => job'[a][q].token # 0
    BY <1>5, <2>1
  <2> QED
    BY <1>2, <2>2, MessagesKept
<1>8. bk'[b].status \notin Holding
  BY <1>1, <1>3 DEF Holding
<1>9. \A a \in Actions, q \in Bookings : q # b => job'[a][q] = job[a][q]
  BY <1>5
<1>10. faults' \in 0..MaxFaults /\ attempts' \subseteq Attempt /\ late' \subseteq Request /\ callbacks' \subseteq CallbackRow
  BY <1>0, <1>2 DEF TypeOK
<1> QED
  BY <1>0, <1>2, <1>3, <1>5, <1>6, <1>7, <1>8, <1>9, <1>10, BookingStep DEF provider

\* claim, for a charge that was never attempted.
LEMMA UnchargedStep == ASSUME Assumption, HotelIInv, NEW b \in Bookings, ClaimUncharged(b) PROVE HotelIInv'
<1>0. TypeOK /\ SoundAt(b) /\ bk[b] \in BookingRow /\ job["charge"][b] \in JobRow /\ "charge" \in Actions /\ "refund" \in Actions
  BY DEF HotelIInv, TypeOK, Actions
<1> DEFINE due == bk[b].status = "PENDING"
           j   == [job["charge"][b] EXCEPT !.status = "done"]
           k   == IF due THEN Released(b, "EXPIRED") ELSE bk[b]
<1>1. j \in JobRow /\ j.status = "done" /\ j.token = job["charge"][b].token
  BY <1>0, StatusRow
<1>2. /\ k \in BookingRow /\ k.payment = bk[b].payment
      /\ due => k.status = "EXPIRED" /\ ~k.held
      /\ ~due => k = bk[b]
  BY <1>0, ReleasedRow
<1>3. /\ job["charge"][b].status \in {"pending", "inflight"} /\ job["charge"][b].token = 0
      /\ bk' = [bk EXCEPT ![b] = k] /\ job' = [job EXCEPT !["charge"][b] = j]
      /\ reserved' = IF due THEN Freed({b}) ELSE reserved
      /\ UNCHANGED <<overdue, limit, ledger, receipt, attempts, late, callbacks, faults>>
  <2>1. bk' = [bk EXCEPT ![b] = k]
    BY <1>0 DEF ClaimUncharged, TypeOK
  <2> QED
    BY <2>1 DEF ClaimUncharged, Claimable, Uncharged, provider
<1> HIDE DEF k, j
<1>4. bk' \in [Bookings -> BookingRow] /\ bk'[b] = k /\ \A q \in Bookings : q # b => bk'[q] = bk[q]
  BY <1>0, <1>2, <1>3, BookingUpdate
<1>5. /\ job' \in [Actions -> [Bookings -> JobRow]] /\ job'["charge"][b] = j
      /\ \A c \in Actions, q \in Bookings : c # "charge" \/ q # b => job'[c][q] = job[c][q]
  <2>1. TypeOK /\ "charge" \in Actions /\ j \in JobRow /\ job' = [job EXCEPT !["charge"][b] = j]
    BY <1>0, <1>1, <1>3
  <2> QED
    BY <2>1, JobUpdate
<1>6. job'["refund"][b] = job["refund"][b]
  BY <1>0, <1>5
<1>7. SoundAt(b)'
  BY <1>0, <1>1, <1>2, <1>3, <1>4, <1>5, <1>6 DEF SoundAt, Sound, Holding
<1>8. MessagesSound'
  <2>1. \A a \in Actions, q \in Bookings : job[a][q].token # 0 => job'[a][q].token # 0
    BY <1>1, <1>5
  <2> QED
    BY <1>3, <2>1, MessagesKept
<1>9. \/ reserved' = reserved /\ (bk'[b].status \in Holding <=> bk[b].status \in Holding)
      \/ reserved' = Freed({b}) /\ bk[b].status \in Holding /\ bk'[b].status \notin Holding
  BY <1>2, <1>3, <1>4 DEF Holding
<1>10. faults' \in 0..MaxFaults /\ attempts' \subseteq Attempt /\ late' \subseteq Request /\ callbacks' \subseteq CallbackRow
  BY <1>0, <1>3 DEF TypeOK
<1>11. \A a \in Actions, q \in Bookings : q # b => job'[a][q] = job[a][q]
  BY <1>5
<1> QED
  BY <1>3, <1>4, <1>5, <1>7, <1>8, <1>9, <1>10, <1>11, BookingStep DEF provider

\* The sweeper releases every hold whose deadline passed.
LEMMA SweepStep == ASSUME Assumption, HotelIInv, Sweep PROVE HotelIInv'
<1>0. TypeOK /\ InventoryExact /\ Overdue \subseteq Bookings
  BY DEF HotelIInv, TypeOK, Overdue
<1>1. /\ reserved' = Freed(Overdue)
      /\ bk' = [b \in Bookings |-> IF b \in Overdue THEN Released(b, "EXPIRED") ELSE bk[b]]
      /\ UNCHANGED <<overdue, limit, job, ledger, receipt, attempts, late, callbacks, faults>>
  BY DEF Sweep, provider
<1>2. ASSUME NEW b \in Overdue
      PROVE  /\ b \in Bookings /\ bk[b].status = "PENDING" /\ bk[b].held
             /\ bk'[b] = Released(b, "EXPIRED") /\ bk'[b] \in BookingRow
             /\ bk'[b].status = "EXPIRED" /\ ~bk'[b].held /\ bk'[b].payment = bk[b].payment
  <2>1. b \in Bookings /\ bk[b].status = "PENDING" /\ SoundAt(b)
    BY <1>0 DEF Overdue, HotelIInv
  <2>2. bk[b].held
    BY <2>1 DEF SoundAt, Sound, Holding
  <2>3. bk'[b] = Released(b, "EXPIRED")
    BY <1>1, <2>1
  <2>4. Released(b, "EXPIRED") \in BookingRow /\ Released(b, "EXPIRED").status = "EXPIRED"
        /\ ~Released(b, "EXPIRED").held /\ Released(b, "EXPIRED").payment = bk[b].payment
    BY <1>0, <2>1, ReleasedRow
  <2> QED
    BY <2>1, <2>2, <2>3, <2>4, Zenon
<1>3. ASSUME NEW b \in Bookings, b \notin Overdue PROVE bk'[b] = bk[b]
  BY <1>1, <1>3
<1>4. bk' \in [Bookings -> BookingRow]
  <2>1. \A b \in Bookings : bk'[b] \in BookingRow
    BY <1>0, <1>2, <1>3 DEF TypeOK
  <2>2. bk' = [b \in Bookings |-> bk'[b]]
    BY <1>1
  <2> QED
    BY <2>1, <2>2
<1>5. InventoryExact' /\ reserved' \in [Days -> Nat]
  <2>1. \A b \in Overdue : bk[b].held /\ bk[b].status \in Holding /\ bk'[b].status \notin Holding
    BY <1>2 DEF Holding
  <2> QED
    BY <1>0, <1>1, <1>3, <2>1, InventoryFreed
<1>6. ASSUME NEW b \in Bookings PROVE SoundAt(b)'
  <2>0. SoundAt(b)
    BY DEF HotelIInv
  <2>1. CASE b \in Overdue
    BY <2>0, <2>1, <1>1, <1>2 DEF SoundAt, Sound, Holding
  <2>2. CASE b \notin Overdue
    BY <2>0, <2>2, <1>1, <1>3 DEF SoundAt
  <2> QED
    BY <2>1, <2>2
<1>7. MessagesSound'
  BY <1>1, MessagesKept
<1>8. TypeOK'
  BY <1>0, <1>1, <1>4, <1>5 DEF TypeOK
<1> QED
  BY <1>5, <1>6, <1>7, <1>8 DEF HotelIInv

\* A deadline passes, or an administrator changes a limit.
LEMMA CalendarStep ==
  ASSUME Assumption, HotelIInv,
         (\E b \in Bookings : PassDeadline(b)) \/ (\E d \in Days, n \in Limits : SetDays(d, n))
  PROVE  HotelIInv'
<1>0. TypeOK /\ InventoryExact
  BY DEF HotelIInv
<1>1. UNCHANGED <<bk, reserved, job, ledger, receipt, attempts, late, callbacks, faults>>
  BY DEF PassDeadline, SetDays, provider
<1>2. \A b \in Bookings : SoundAt(b)'
  BY <1>1 DEF HotelIInv, SoundAt
<1>3. MessagesSound'
  BY <1>1, MessagesKept
<1>4. ASSUME NEW d \in Days PROVE Occupied(d)' = Occupied(d)
  BY <1>1 DEF Occupied
<1>5. CASE \E b \in Bookings : PassDeadline(b)
  <2>1. UNCHANGED limit /\ overdue' \subseteq Bookings
    BY <1>0, <1>5 DEF PassDeadline, TypeOK
  <2>2. TypeOK' /\ InventoryExact'
    BY <1>0, <1>1, <1>4, <2>1 DEF TypeOK, InventoryExact
  <2> QED
    BY <1>2, <1>3, <2>2 DEF HotelIInv
<1>6. ASSUME NEW d \in Days, NEW n \in Limits, SetDays(d, n) PROVE HotelIInv'
  <2>1. UNCHANGED overdue /\ limit' = [limit EXCEPT ![d] = n] /\ n >= reserved[d] /\ n \in Nat
    BY <1>6 DEF SetDays, Assumption
  <2>2. limit' \in [Days -> Nat] /\ limit'[d] = n /\ \A e \in Days : e # d => limit'[e] = limit[e]
    BY <1>0, <2>1 DEF TypeOK
  <2>3. TypeOK'
    BY <1>0, <1>1, <2>1, <2>2 DEF TypeOK
  <2>4. InventoryExact'
    BY <1>0, <1>1, <1>4, <2>1, <2>2 DEF InventoryExact, TypeOK
  <2> QED
    BY <1>2, <1>3, <2>3, <2>4 DEF HotelIInv
<1> QED
  BY <1>5, <1>6

\* A job row changes, and the booking at most its payment label from NONE to
\* CHARGING: a claim, an expired lease or a retry.
LEMMA JobStep ==
  ASSUME Assumption, HotelIInv, NEW a \in Actions, NEW b \in Bookings, NEW j \in JobRow, NEW k \in BookingRow,
         job' = [job EXCEPT ![a][b] = j], bk' = [bk EXCEPT ![b] = k],
         job[a][b].status \in {"pending", "inflight"}, j.status \in {"pending", "inflight"},
         job[a][b].token # 0 => j.token # 0,
         k.status = bk[b].status, k.held = bk[b].held,
         k.payment = "PAID" <=> bk[b].payment = "PAID",
         UNCHANGED <<overdue, reserved, limit, provider>>,
         faults' \in 0..MaxFaults, attempts' \subseteq Attempt, late' \subseteq Request,
         callbacks' \subseteq CallbackRow, MessagesSound'
  PROVE  HotelIInv'
<1>0. TypeOK /\ SoundAt(b) /\ "charge" \in Actions /\ "refund" \in Actions /\ a \in {"charge", "refund"}
  BY DEF HotelIInv, Actions
<1>1. bk' \in [Bookings -> BookingRow] /\ bk'[b] = k /\ \A q \in Bookings : q # b => bk'[q] = bk[q]
  BY <1>0, BookingUpdate
<1>2. /\ job' \in [Actions -> [Bookings -> JobRow]] /\ job'[a][b] = j
      /\ \A c \in Actions, q \in Bookings : c # a \/ q # b => job'[c][q] = job[c][q]
  <2>1. job \in [Actions -> [Bookings -> JobRow]]
    BY <1>0 DEF TypeOK
  <2>2. job[a] \in [Bookings -> JobRow] /\ [job[a] EXCEPT ![b] = j] \in [Bookings -> JobRow]
    BY <2>1
  <2>3. job' = [job EXCEPT ![a] = [job[a] EXCEPT ![b] = j]]
    OBVIOUS
  <2> QED
    BY <2>1, <2>2, <2>3
<1>3. UNCHANGED <<ledger, receipt>>
  BY DEF provider
<1>4. SoundAt(b)'
  <2>1. CASE a = "charge"
    <3>1. job'["charge"][b] = j /\ job'["refund"][b] = job["refund"][b]
      BY <1>0, <1>2, <2>1
    <3> QED
      BY <1>0, <1>1, <1>3, <2>1, <3>1 DEF SoundAt, Sound
  <2>2. CASE a = "refund"
    <3>1. job'["refund"][b] = j /\ job'["charge"][b] = job["charge"][b]
      BY <1>0, <1>2, <2>2
    <3> QED
      BY <1>0, <1>1, <1>3, <2>2, <3>1 DEF SoundAt, Sound
  <2> QED
    BY <1>0, <2>1, <2>2
<1>5. \A c \in Actions, q \in Bookings : q # b => job'[c][q] = job[c][q]
  BY <1>2
<1> QED
  BY <1>1, <1>2, <1>4, <1>5, BookingStep

\* A lease runs out.
LEMMA LeaseStep ==
  ASSUME Assumption, HotelIInv, NEW a \in Actions, NEW b \in Bookings, LeaseExpires(a, b) PROVE HotelIInv'
<1> DEFINE j == [job[a][b] EXCEPT !.lapsed = TRUE]
<1>0. TypeOK /\ bk \in [Bookings -> BookingRow] /\ job \in [Actions -> [Bookings -> JobRow]] /\ job[a][b] \in JobRow
  BY DEF HotelIInv, TypeOK
<1>1. /\ job' = [job EXCEPT ![a][b] = j] /\ job[a][b].status = "inflight"
      /\ UNCHANGED <<bk, overdue, reserved, limit, provider, attempts, late, callbacks>>
  BY <1>0 DEF LeaseExpires
<1>2. j \in JobRow /\ j.status = job[a][b].status /\ j.token = job[a][b].token
  BY <1>0 DEF JobRow
<1>3. bk' = [bk EXCEPT ![b] = bk[b]] /\ bk[b] \in BookingRow
  BY <1>0, <1>1
<1>4. /\ faults' \in 0..MaxFaults /\ attempts' \subseteq Attempt /\ late' \subseteq Request
      /\ callbacks' \subseteq CallbackRow
  BY <1>0, <1>1 DEF LeaseExpires, TypeOK, Assumption
<1> HIDE DEF j
<1>5. MessagesSound'
  <2>1. \A c \in Actions, q \in Bookings : job[c][q].token # 0 => job'[c][q].token # 0
    BY <1>0, <1>1, <1>2
  <2> QED
    BY <1>1, <2>1, MessagesKept DEF provider
<1>6. /\ job[a][b].status \in {"pending", "inflight"} /\ j.status \in {"pending", "inflight"}
      /\ job[a][b].token # 0 => j.token # 0
      /\ UNCHANGED <<overdue, reserved, limit, provider>>
  BY <1>1, <1>2
<1> QED
  BY <1>1, <1>2, <1>3, <1>4, <1>5, <1>6, JobStep, Zenon

\* claim.
LEMMA ClaimStep ==
  ASSUME Assumption, HotelIInv, NEW a \in Actions, NEW b \in Bookings, NEW received \in BOOLEAN, Claim(a, b, received)
  PROVE  HotelIInv'
<1> DEFINE j == [status |-> "inflight", token |-> job[a][b].token + 1, lapsed |-> FALSE]
           k == IF a = "charge" /\ bk[b].payment = "NONE" THEN [bk[b] EXCEPT !.payment = "CHARGING"] ELSE bk[b]
           x == [action |-> a, booking |-> b, token |-> job[a][b].token + 1]
<1>0. TypeOK /\ bk \in [Bookings -> BookingRow] /\ job \in [Actions -> [Bookings -> JobRow]] /\ bk[b] \in BookingRow
      /\ job[a][b] \in JobRow /\ job[a][b].token \in Nat
  BY DEF HotelIInv, TypeOK, JobRow
<1>1. j \in JobRow /\ j.status = "inflight" /\ j.token = job[a][b].token + 1 /\ j.token # 0
  BY <1>0 DEF JobRow
<1>2. k \in BookingRow /\ k.status = bk[b].status /\ k.held = bk[b].held /\ (k.payment = "PAID" <=> bk[b].payment = "PAID")
  BY <1>0 DEF BookingRow
<1>3. /\ job[a][b].status \in {"pending", "inflight"}
      /\ job' = [job EXCEPT ![a][b] = j]
      /\ bk' = [bk EXCEPT ![b] = k]
      /\ attempts' \subseteq attempts \cup {x}
      /\ UNCHANGED <<overdue, reserved, limit, provider, late, callbacks>>
  <2>1. bk' = [bk EXCEPT ![b] = k]
    BY <1>0 DEF Claim
  <2> QED
    BY <1>0, <2>1 DEF Claim, Claimable
<1>4. x \in Attempt /\ x.action = a /\ x.booking = b
  BY <1>0 DEF Attempt
<1> HIDE DEF j, k, x
<1>5. /\ faults' \in 0..MaxFaults /\ attempts' \subseteq Attempt /\ late' \subseteq Request
      /\ callbacks' \subseteq CallbackRow
  BY <1>0, <1>3, <1>4 DEF Claim, TypeOK, Assumption
<1>6. MessagesSound'
  <2>1. \A c \in Actions, q \in Bookings : job[c][q].token # 0 => job'[c][q].token # 0
    BY <1>0, <1>1, <1>3
  <2>2. \A y \in attempts \cup late \cup callbacks : y.action \in Actions /\ y.booking \in Bookings
    BY <1>0 DEF TypeOK, Attempt, Request, CallbackRow
  <2>3. job'[a][b].token # 0
    BY <1>0, <1>1, <1>3
  <2>4. UNCHANGED <<late, callbacks, receipt>>
    BY <1>3 DEF provider
  <2> QED
    BY <1>3, <1>4, <2>1, <2>2, <2>3, <2>4 DEF HotelIInv, MessagesSound
<1> QED
  BY <1>1, <1>2, <1>3, <1>5, <1>6, JobStep

\* Messages come and go, nothing else happens.
LEMMA MessageStep ==
  ASSUME Assumption, HotelIInv, UNCHANGED <<hotel, provider>>,
         faults' \in 0..MaxFaults, attempts' \subseteq Attempt, late' \subseteq Request,
         callbacks' \subseteq CallbackRow, MessagesSound'
  PROVE  HotelIInv'
<1>1. UNCHANGED <<bk, overdue, reserved, limit, job, ledger, receipt>>
  BY DEF hotel, provider
<1>2. \A b \in Bookings : SoundAt(b)'
  BY <1>1 DEF HotelIInv, SoundAt
<1>3. TypeOK'
  BY <1>1 DEF HotelIInv, TypeOK
<1>4. InventoryExact'
  BY <1>1 DEF HotelIInv, InventoryExact, Occupied
<1> QED
  BY <1>2, <1>3, <1>4 DEF HotelIInv

\* A call gets lost, is not answered, or comes too late.
LEMMA LostStep ==
  ASSUME Assumption, HotelIInv,
         \/ \E x \in attempts, stopped \in BOOLEAN : ProviderFails(x, stopped)
         \/ \E m \in callbacks : FinishUnanswered(m) \/ LoseCallback(m) \/ FinishStale(m)
  PROVE  HotelIInv'
<1>0. TypeOK /\ MessagesSound /\ MaxFaults \in Nat /\ faults \in 0..MaxFaults
      /\ attempts \subseteq Attempt /\ late \subseteq Request /\ callbacks \subseteq CallbackRow
  BY DEF HotelIInv, TypeOK, Assumption
<1>1. ASSUME NEW x \in attempts, NEW stopped \in BOOLEAN, ProviderFails(x, stopped) PROVE HotelIInv'
  <2> DEFINE r == [action |-> x.action, booking |-> x.booking]
             m == Callback("retry", x, "none")
  <2>1. r \in Request /\ r.action = x.action /\ r.booking = x.booking
    BY <1>0 DEF Attempt, Request
  <2>2. m \in CallbackRow /\ m.action = x.action /\ m.booking = x.booking /\ m.kind = "retry"
    BY <1>0 DEF Attempt, CallbackRow, Callback
  <2>3. /\ faults < MaxFaults /\ faults' = faults + 1 /\ attempts' \subseteq attempts
        /\ late' \subseteq late \cup {r} /\ callbacks' \subseteq callbacks \cup {m} /\ UNCHANGED <<hotel, provider>>
    BY <1>1 DEF ProviderFails
  <2> HIDE DEF r, m
  <2>4. /\ faults' \in 0..MaxFaults /\ attempts' \subseteq Attempt /\ late' \subseteq Request
        /\ callbacks' \subseteq CallbackRow
    BY <1>0, <2>1, <2>2, <2>3
  <2>5. MessagesSound'
    BY <1>0, <2>1, <2>2, <2>3 DEF MessagesSound, hotel, provider
  <2> QED
    BY <2>3, <2>4, <2>5, MessageStep
<1>2. ASSUME NEW m \in callbacks, FinishUnanswered(m) PROVE HotelIInv'
  <2> DEFINE n == [m EXCEPT !.kind = "retry", !.status = "none"]
  <2>1. n \in CallbackRow /\ n.action = m.action /\ n.booking = m.booking /\ n.kind = "retry"
    BY <1>0 DEF CallbackRow
  <2>2. /\ faults < MaxFaults /\ faults' = faults + 1 /\ callbacks' = callbacks \cup {n}
        /\ UNCHANGED <<hotel, provider, attempts, late>>
    BY <1>2 DEF FinishUnanswered
  <2> HIDE DEF n
  <2>3. /\ faults' \in 0..MaxFaults /\ attempts' \subseteq Attempt /\ late' \subseteq Request
        /\ callbacks' \subseteq CallbackRow
    BY <1>0, <2>1, <2>2
  <2>4. MessagesSound'
    BY <1>0, <2>1, <2>2 DEF MessagesSound, hotel, provider
  <2> QED
    BY <2>2, <2>3, <2>4, MessageStep
<1>3. ASSUME NEW m \in callbacks, LoseCallback(m) \/ FinishStale(m) PROVE HotelIInv'
  <2>1. /\ faults' \in 0..MaxFaults /\ callbacks' \subseteq callbacks /\ UNCHANGED <<hotel, provider, attempts, late>>
    BY <1>0, <1>3 DEF LoseCallback, FinishStale
  <2>2. MessagesSound'
    BY <1>0, <2>1 DEF MessagesSound, hotel, provider
  <2> QED
    BY <1>0, <2>1, <2>2, MessageStep
<1> QED
  BY <1>1, <1>2, <1>3

\* retry.
LEMMA RetryStep == ASSUME Assumption, HotelIInv, NEW m \in callbacks, Retry(m) PROVE HotelIInv'
<1> DEFINE a == m.action
           b == m.booking
           j == [job[a][b] EXCEPT !.status = "pending"]
<1>0. /\ TypeOK /\ bk \in [Bookings -> BookingRow] /\ job \in [Actions -> [Bookings -> JobRow]]
      /\ a \in Actions /\ b \in Bookings /\ job[a][b] \in JobRow
  BY DEF HotelIInv, TypeOK, CallbackRow
<1>1. /\ callbacks' \subseteq callbacks /\ job' = IF Owns(m) THEN [job EXCEPT ![a][b] = j] ELSE job
      /\ UNCHANGED <<bk, overdue, reserved, limit, provider, attempts, late, faults>>
  BY <1>0 DEF Retry
<1>2. j \in JobRow /\ j.status = "pending" /\ j.token = job[a][b].token
  BY <1>0, StatusRow
<1>3. /\ faults' \in 0..MaxFaults /\ attempts' \subseteq Attempt /\ late' \subseteq Request
      /\ callbacks' \subseteq CallbackRow
  BY <1>0, <1>1 DEF TypeOK
<1> HIDE DEF a, b, j
<1>4. MessagesSound'
  <2>1. \A c \in Actions, q \in Bookings : job[c][q].token # 0 => job'[c][q].token # 0
    BY <1>0, <1>1, <1>2
  <2> QED
    BY <1>1, <2>1, MessagesKept DEF provider
<1>5. CASE Owns(m)
  <2>1. job[a][b].status = "inflight" /\ job' = [job EXCEPT ![a][b] = j]
    BY <1>1, <1>5 DEF Owns, a, b
  <2>2. bk' = [bk EXCEPT ![b] = bk[b]] /\ bk[b] \in BookingRow
    BY <1>0, <1>1
  <2>3. /\ job[a][b].status \in {"pending", "inflight"} /\ j.status \in {"pending", "inflight"}
        /\ job[a][b].token # 0 => j.token # 0
        /\ UNCHANGED <<overdue, reserved, limit, provider>>
    BY <1>1, <1>2, <2>1
  <2> QED
    BY <1>0, <1>2, <1>3, <1>4, <2>1, <2>2, <2>3, JobStep, Zenon
<1>6. CASE ~Owns(m)
  BY <1>1, <1>3, <1>4, <1>6, MessageStep DEF hotel
<1> QED
  BY <1>5, <1>6

\* The provider executes a request that a worker waits for, or one that nobody
\* waits for any more.
LEMMA ProviderStep ==
  ASSUME Assumption, HotelIInv,
         (\E r \in late : ExecuteLate(r)) \/ (\E x \in attempts : CallProvider(x))
  PROVE  HotelIInv'
<1>0. TypeOK /\ MessagesSound /\ InventoryExact
      /\ attempts \subseteq Attempt /\ late \subseteq Request /\ callbacks \subseteq CallbackRow
  BY DEF HotelIInv, TypeOK
<1>1. PICK a \in Actions, b \in Bookings :
        /\ job[a][b].token # 0 /\ Execute(a, b) /\ UNCHANGED <<hotel, faults>>
        /\ attempts' \subseteq attempts /\ late' \subseteq late
        /\ \/ callbacks' = callbacks
           \/ \E x \in attempts : /\ x.action = a /\ x.booking = b
                                  /\ callbacks' = callbacks \cup {Callback("finish", x, Outcome(a, b))}
  <2>1. ASSUME NEW r \in late, ExecuteLate(r)
        PROVE  /\ r.action \in Actions /\ r.booking \in Bookings /\ job[r.action][r.booking].token # 0
               /\ Execute(r.action, r.booking) /\ UNCHANGED <<hotel, faults, attempts, callbacks>> /\ late' \subseteq late
    BY <1>0, <2>1 DEF ExecuteLate, MessagesSound, Request
  <2>2. ASSUME NEW x \in attempts, CallProvider(x)
        PROVE  /\ x.action \in Actions /\ x.booking \in Bookings /\ job[x.action][x.booking].token # 0
               /\ Execute(x.action, x.booking) /\ UNCHANGED <<hotel, faults, late>> /\ attempts' \subseteq attempts
               /\ callbacks' = callbacks \cup {Callback("finish", x, Outcome(x.action, x.booking))}
    BY <1>0, <2>2 DEF CallProvider, MessagesSound, Attempt
  <2>3. CASE \E r \in late : ExecuteLate(r)
    BY <2>1, <2>3
  <2>4. CASE \E x \in attempts : CallProvider(x)
    BY <2>2, <2>4
  <2> QED
    BY <2>3, <2>4
<1>2. /\ \A q \in Bookings : SoundAt(q)'
      /\ ledger' \in [Bookings -> {"none", "paid", "declined", "refunded"}]
      /\ receipt' \in [Actions -> [Bookings -> {"none", "paid", "declined", "refunded"}]]
      /\ receipt'[a][b] = Outcome(a, b)
      /\ \A c \in Actions, q \in Bookings : receipt[c][q] # "none" => receipt'[c][q] = receipt[c][q]
  BY <1>1, ExecuteSound
<1>3. Outcome(a, b) \in {"paid", "declined", "refunded"}
  BY <1>1, OutcomeSound
<1>4. UNCHANGED <<bk, overdue, reserved, limit, job>>
  BY <1>1 DEF hotel
<1>5. ASSUME NEW m \in callbacks'
      PROVE  /\ m \in CallbackRow /\ job[m.action][m.booking].token # 0
             /\ m.kind = "finish" => m.status # "none" /\ m.status = receipt'[m.action][m.booking]
  <2>1. CASE m \in callbacks
    <3>1. m.action \in Actions /\ m.booking \in Bookings
      BY <1>0, <2>1 DEF CallbackRow
    <3> QED
      BY <1>0, <1>2, <2>1, <3>1 DEF MessagesSound
  <2>2. ASSUME NEW x \in attempts, x.action = a, x.booking = b, m = Callback("finish", x, Outcome(a, b))
        PROVE  /\ m \in CallbackRow /\ job[m.action][m.booking].token # 0
               /\ m.kind = "finish" => m.status # "none" /\ m.status = receipt'[m.action][m.booking]
    <3>1. m.action = a /\ m.booking = b /\ m.status = Outcome(a, b) /\ m.kind = "finish" /\ m \in CallbackRow
      BY <1>0, <1>3, <2>2 DEF Callback, CallbackRow, Attempt
    <3> QED
      BY <1>1, <1>2, <1>3, <3>1
  <2> QED
    BY <1>1, <2>1, <2>2
<1>6. MessagesSound'
  BY <1>0, <1>1, <1>4, <1>5 DEF MessagesSound
<1>7. TypeOK'
  BY <1>0, <1>1, <1>2, <1>4, <1>5 DEF TypeOK
<1>8. InventoryExact'
  BY <1>0, <1>4 DEF InventoryExact, Occupied
<1> QED
  BY <1>2, <1>6, <1>7, <1>8 DEF HotelIInv

\* finish with the live claim: the rows it is about, its job and what the
\* provider stored.
LEMMA FinishFacts ==
  ASSUME Assumption, HotelIInv, NEW m \in callbacks, m.kind = "finish", Owns(m)
  PROVE  /\ m.action \in Actions /\ m.booking \in Bookings /\ SoundAt(m.booking)
         /\ m.status = receipt[m.action][m.booking]
         /\ m.action = IF m.status = "refunded" THEN "refund" ELSE "charge"
         /\ m.status \in {"paid", "declined", "refunded"}
         /\ job[m.action][m.booking].status = "inflight" /\ job[m.action][m.booking].token # 0
         /\ Done(m) \in [Actions -> [Bookings -> JobRow]]
         /\ Done(m)[m.action][m.booking].status = "done"
         /\ Done(m)[m.action][m.booking].token = job[m.action][m.booking].token
         /\ \A c \in Actions, q \in Bookings :
              c # m.action \/ q # m.booking => Done(m)[c][q] = job[c][q]
<1> DEFINE a == m.action
           b == m.booking
           j == [job[a][b] EXCEPT !.status = "done"]
<1>0. /\ a \in Actions /\ b \in Bookings /\ job \in [Actions -> [Bookings -> JobRow]] /\ job[a][b] \in JobRow
      /\ a \in {"charge", "refund"}
  BY DEF HotelIInv, TypeOK, CallbackRow, Actions
<1>1. SoundAt(b) /\ m.status = receipt[a][b] /\ m.status # "none" /\ job[a][b].token # 0
      /\ job[a][b].status = "inflight"
  BY <1>0 DEF HotelIInv, MessagesSound, Owns
<1>2. a = (IF m.status = "refunded" THEN "refund" ELSE "charge") /\ m.status \in {"paid", "declined", "refunded"}
  BY <1>0, <1>1 DEF SoundAt, Sound, LedgerSound
<1>3. j \in JobRow /\ j.status = "done" /\ j.token = job[a][b].token
  BY <1>0, StatusRow
<1>4. Done(m) = [job EXCEPT ![a] = [job[a] EXCEPT ![b] = j]]
  BY <1>0 DEF Done
<1> HIDE DEF j
<1>5. job[a] \in [Bookings -> JobRow] /\ [job[a] EXCEPT ![b] = j] \in [Bookings -> JobRow]
  BY <1>0, <1>3
<1>6. /\ Done(m) \in [Actions -> [Bookings -> JobRow]] /\ Done(m)[a][b] = j
      /\ \A c \in Actions, q \in Bookings : c # a \/ q # b => Done(m)[c][q] = job[c][q]
  BY <1>0, <1>4, <1>5
<1> QED
  BY <1>0, <1>1, <1>2, <1>3, <1>6

\* finish after a declined charge.
LEMMA DeclinedStep == ASSUME Assumption, HotelIInv, NEW m \in callbacks, FinishDeclined(m) PROVE HotelIInv'
<1> DEFINE b == m.booking
           pending == bk[b].status = "PENDING"
           k == [(IF pending THEN Released(b, "REJECTED") ELSE bk[b]) EXCEPT !.payment = "DECLINED"]
<1>0. TypeOK /\ m.kind = "finish" /\ m.status = "declined" /\ Owns(m)
  BY DEF HotelIInv, FinishDeclined
<1>1. /\ m.action = "charge" /\ "charge" \in Actions /\ "refund" \in Actions /\ b \in Bookings /\ SoundAt(b)
      /\ receipt["charge"][b] = "declined"
      /\ job["charge"][b].status = "inflight"
      /\ Done(m) \in [Actions -> [Bookings -> JobRow]]
      /\ Done(m)["charge"][b].status = "done" /\ Done(m)["charge"][b].token = job["charge"][b].token
      /\ \A c \in Actions, q \in Bookings : c # "charge" \/ q # b => Done(m)[c][q] = job[c][q]
  BY <1>0, FinishFacts DEF Actions
<1>2. bk[b] \in BookingRow
  BY <1>0, <1>1 DEF TypeOK
<1>3. /\ k \in BookingRow /\ k.payment = "DECLINED"
      /\ pending => k.status = "REJECTED" /\ ~k.held
      /\ ~pending => k.status = bk[b].status /\ k.held = bk[b].held
  <2>1. CASE pending
    BY <1>0, <1>1, <2>1, ReleasedRow
  <2>2. CASE ~pending
    BY <1>2, <2>2 DEF BookingRow
  <2> QED
    BY <2>1, <2>2
<1>4. /\ bk' = [bk EXCEPT ![b] = k] /\ job' = Done(m)
      /\ reserved' = IF pending THEN Freed({b}) ELSE reserved
      /\ callbacks' \subseteq callbacks
      /\ UNCHANGED <<overdue, limit, ledger, receipt, attempts, late, faults>>
  BY DEF FinishDeclined, provider
<1> HIDE DEF k
<1>5. bk' \in [Bookings -> BookingRow] /\ bk'[b] = k /\ \A q \in Bookings : q # b => bk'[q] = bk[q]
  BY <1>0, <1>1, <1>3, <1>4, BookingUpdate
<1>6. bk[b].status # "CONFIRMED" /\ job["refund"][b].status = "none"
  BY <1>1 DEF SoundAt, Sound
<1>7. SoundAt(b)'
  <2>1. job'["charge"][b].status = "done" /\ job'["charge"][b].token = job["charge"][b].token
        /\ job'["refund"][b] = job["refund"][b]
    BY <1>1, <1>4
  <2>2. CASE pending
    BY <1>1, <1>3, <1>4, <1>5, <1>6, <2>1, <2>2 DEF SoundAt, Sound, Holding
  <2>3. CASE ~pending
    BY <1>1, <1>3, <1>4, <1>5, <1>6, <2>1, <2>3 DEF SoundAt, Sound, Holding
  <2> QED
    BY <2>2, <2>3
<1>8. MessagesSound'
  <2>1. \A c \in Actions, q \in Bookings : job[c][q].token # 0 => job'[c][q].token # 0
    BY <1>1, <1>4
  <2> QED
    BY <1>4, <2>1, MessagesKept
<1>9. \/ reserved' = reserved /\ (bk'[b].status \in Holding <=> bk[b].status \in Holding)
      \/ reserved' = Freed({b}) /\ bk[b].status \in Holding /\ bk'[b].status \notin Holding
  BY <1>3, <1>4, <1>5 DEF Holding
<1>10. faults' \in 0..MaxFaults /\ attempts' \subseteq Attempt /\ late' \subseteq Request /\ callbacks' \subseteq CallbackRow
  BY <1>0, <1>4 DEF TypeOK
<1>11. job' \in [Actions -> [Bookings -> JobRow]] /\ \A a \in Actions, q \in Bookings : q # b => job'[a][q] = job[a][q]
  BY <1>1, <1>4
<1> QED
  BY <1>1, <1>4, <1>5, <1>7, <1>8, <1>9, <1>10, <1>11, BookingStep DEF provider

\* finish after a paid charge: the stay is confirmed, or the payment compensated.
LEMMA PaidStep == ASSUME Assumption, HotelIInv, NEW m \in callbacks, FinishPaid(m) PROVE HotelIInv'
<1> DEFINE b == m.booking
           pending == bk[b].status = "PENDING"
           confirm == Confirmable(b)
           k == IF confirm THEN [bk[b] EXCEPT !.status = "CONFIRMED", !.payment = "PAID"]
                ELSE [(IF pending THEN Released(b, "EXPIRED") ELSE bk[b]) EXCEPT !.payment = "REFUND_PENDING"]
<1>0. TypeOK /\ m.kind = "finish" /\ m.status = "paid" /\ Owns(m) /\ bk \in [Bookings -> BookingRow]
  BY DEF HotelIInv, TypeOK, FinishPaid
<1>1. /\ m.action = "charge" /\ "charge" \in Actions /\ "refund" \in Actions /\ b \in Bookings /\ SoundAt(b)
      /\ receipt["charge"][b] = "paid"
      /\ job["charge"][b].status = "inflight" /\ job["charge"][b].token # 0
      /\ Done(m) \in [Actions -> [Bookings -> JobRow]]
      /\ Done(m)["charge"][b].status = "done" /\ Done(m)["charge"][b].token = job["charge"][b].token
      /\ \A c \in Actions, q \in Bookings : c # "charge" \/ q # b => Done(m)[c][q] = job[c][q]
  BY <1>0, FinishFacts DEF Actions
<1>2. bk[b] \in BookingRow /\ (confirm => pending)
  BY <1>0, <1>1 DEF TypeOK, Confirmable
<1>3. /\ k \in BookingRow
      /\ confirm => k.status = "CONFIRMED" /\ k.payment = "PAID" /\ k.held = bk[b].held
      /\ ~confirm /\ pending => k.status = "EXPIRED" /\ ~k.held /\ k.payment = "REFUND_PENDING"
      /\ ~confirm /\ ~pending => k.status = bk[b].status /\ k.held = bk[b].held /\ k.payment = "REFUND_PENDING"
  <2>1. CASE confirm
    <3> DEFINE r == [bk[b] EXCEPT !.status = "CONFIRMED", !.payment = "PAID"]
    <3>1. r \in BookingRow /\ r.status = "CONFIRMED" /\ r.payment = "PAID" /\ r.held = bk[b].held
      BY <1>2 DEF BookingRow
    <3>2. k = r
      BY <2>1
    <3> HIDE DEF r, k, confirm
    <3> QED
      BY <2>1, <3>1, <3>2
  <2>2. CASE ~confirm /\ pending
    <3> DEFINE e == Released(b, "EXPIRED")
               r == [e EXCEPT !.payment = "REFUND_PENDING"]
    <3>1. e \in BookingRow /\ e.status = "EXPIRED" /\ ~e.held
      BY <1>0, <1>1, ReleasedRow
    <3>2. k = r
      BY <2>2
    <3> HIDE DEF e
    <3>3. r \in BookingRow /\ r.status = "EXPIRED" /\ ~r.held /\ r.payment = "REFUND_PENDING"
      BY <3>1 DEF BookingRow
    <3> HIDE DEF r, k, confirm
    <3> QED
      BY <2>2, <3>2, <3>3
  <2>3. CASE ~confirm /\ ~pending
    BY <1>2, <2>3 DEF BookingRow
  <2> QED
    BY <2>1, <2>2, <2>3
<1>4. /\ bk' = [bk EXCEPT ![b] = k] /\ job' = (IF confirm THEN Done(m) ELSE WithRefundJob(Done(m), b))
      /\ reserved' = IF ~confirm /\ pending THEN Freed({b}) ELSE reserved
      /\ callbacks' \subseteq callbacks
      /\ UNCHANGED <<overdue, limit, ledger, receipt, attempts, late, faults>>
  <2>1. CASE confirm
    <3>1. bk' = [bk EXCEPT ![b] = k]
      BY <1>0, <1>1, <2>1 DEF FinishPaid
    <3> QED
      BY <2>1, <3>1 DEF FinishPaid, provider
  <2>2. CASE ~confirm
    BY <2>2 DEF FinishPaid, provider
  <2> QED
    BY <2>1, <2>2
<1> HIDE DEF k, confirm
<1>5. bk' \in [Bookings -> BookingRow] /\ bk'[b] = k /\ \A q \in Bookings : q # b => bk'[q] = bk[q]
  BY <1>0, <1>1, <1>3, <1>4, BookingUpdate
<1>6. bk[b].status # "CONFIRMED" /\ bk[b].status # "NONE" /\ job["refund"][b].status = "none" /\ job["refund"][b] = NoJob
  BY <1>1 DEF SoundAt, Sound
<1>7. /\ job' \in [Actions -> [Bookings -> JobRow]]
      /\ job'["charge"][b].status = "done" /\ job'["charge"][b].token = job["charge"][b].token
      /\ confirm => job'["refund"][b] = job["refund"][b]
      /\ ~confirm => job'["refund"][b].status = "pending" /\ job'["refund"][b].token = 0
      /\ \A c \in Actions, q \in Bookings : q # b => job'[c][q] = job[c][q]
  <2>1. CASE confirm
    BY <1>1, <1>4, <2>1
  <2>2. CASE ~confirm
    <3>1. Done(m)["refund"][b] = NoJob
      BY <1>1, <1>6
    <3>2. /\ WithRefundJob(Done(m), b) \in [Actions -> [Bookings -> JobRow]]
          /\ WithRefundJob(Done(m), b)["refund"][b].status = "pending"
          /\ WithRefundJob(Done(m), b)["refund"][b].token = 0
          /\ \A c \in Actions, q \in Bookings :
               c # "refund" \/ q # b => WithRefundJob(Done(m), b)[c][q] = Done(m)[c][q]
      BY <1>1, <3>1, RefundJobAdded
    <3> QED
      BY <1>1, <1>4, <2>2, <3>2
  <2> QED
    BY <2>1, <2>2
<1>8. SoundAt(b)'
  <2>0. job["refund"][b].token = 0
    BY <1>6, JobRows
  <2>1. CASE confirm
    BY <1>1, <1>2, <1>3, <1>4, <1>5, <1>6, <1>7, <2>1 DEF SoundAt, Sound, Holding
  <2>2. CASE ~confirm /\ pending
    BY <1>1, <1>3, <1>4, <1>5, <1>6, <1>7, <2>0, <2>2 DEF SoundAt, Sound, Holding
  <2>3. CASE ~confirm /\ ~pending
    BY <1>1, <1>3, <1>4, <1>5, <1>6, <1>7, <2>0, <2>3 DEF SoundAt, Sound, Holding
  <2> QED
    BY <2>1, <2>2, <2>3
<1>9. MessagesSound'
  <2>0. job["refund"][b].token = 0
    BY <1>6, JobRows
  <2>1. ASSUME NEW c \in Actions, NEW q \in Bookings, job[c][q].token # 0 PROVE job'[c][q].token # 0
    BY <1>1, <1>7, <2>0, <2>1 DEF Actions
  <2> QED
    BY <1>4, <2>1, MessagesKept
<1>10. \/ reserved' = reserved /\ (bk'[b].status \in Holding <=> bk[b].status \in Holding)
       \/ reserved' = Freed({b}) /\ bk[b].status \in Holding /\ bk'[b].status \notin Holding
  BY <1>2, <1>3, <1>4, <1>5 DEF Holding
<1>11. faults' \in 0..MaxFaults /\ attempts' \subseteq Attempt /\ late' \subseteq Request /\ callbacks' \subseteq CallbackRow
  BY <1>0, <1>4 DEF TypeOK
<1> QED
  BY <1>1, <1>4, <1>5, <1>7, <1>8, <1>9, <1>10, <1>11, BookingStep DEF provider

\* finish after a refund.
LEMMA RefundedStep == ASSUME Assumption, HotelIInv, NEW m \in callbacks, FinishRefunded(m) PROVE HotelIInv'
<1> DEFINE b == m.booking
           k == [bk[b] EXCEPT !.payment = "REFUNDED"]
<1>0. TypeOK /\ m.kind = "finish" /\ m.status = "refunded" /\ Owns(m) /\ bk \in [Bookings -> BookingRow]
  BY DEF HotelIInv, TypeOK, FinishRefunded
<1>1. /\ m.action = "refund" /\ "charge" \in Actions /\ "refund" \in Actions /\ b \in Bookings /\ SoundAt(b)
      /\ receipt["refund"][b] = "refunded"
      /\ job["refund"][b].status = "inflight"
      /\ Done(m) \in [Actions -> [Bookings -> JobRow]]
      /\ Done(m)["refund"][b].status = "done" /\ Done(m)["refund"][b].token = job["refund"][b].token
      /\ \A c \in Actions, q \in Bookings : c # "refund" \/ q # b => Done(m)[c][q] = job[c][q]
  BY <1>0, FinishFacts DEF Actions
<1>2. bk[b] \in BookingRow
  BY <1>0, <1>1
<1>3. k \in BookingRow /\ k.status = bk[b].status /\ k.held = bk[b].held /\ k.payment = "REFUNDED"
  BY <1>2 DEF BookingRow
<1>4. /\ bk' = [bk EXCEPT ![b] = k] /\ job' = Done(m)
      /\ callbacks' \subseteq callbacks
      /\ UNCHANGED <<overdue, reserved, limit, ledger, receipt, attempts, late, faults>>
  BY <1>0, <1>1 DEF FinishRefunded, provider
<1> HIDE DEF k
<1>5. bk' \in [Bookings -> BookingRow] /\ bk'[b] = k /\ \A q \in Bookings : q # b => bk'[q] = bk[q]
  BY <1>0, <1>1, <1>3, <1>4, BookingUpdate
<1>6. SoundAt(b)'
  <2>1. job'["refund"][b].status = "done" /\ job'["refund"][b].token = job["refund"][b].token
        /\ job'["charge"][b] = job["charge"][b]
    BY <1>1, <1>4
  <2> QED
    BY <1>1, <1>3, <1>4, <1>5, <2>1 DEF SoundAt, Sound, Holding
<1>7. MessagesSound'
  <2>1. \A c \in Actions, q \in Bookings : job[c][q].token # 0 => job'[c][q].token # 0
    BY <1>1, <1>4
  <2> QED
    BY <1>4, <2>1, MessagesKept
<1>8. reserved' = reserved /\ (bk'[b].status \in Holding <=> bk[b].status \in Holding)
  BY <1>3, <1>4, <1>5
<1>9. faults' \in 0..MaxFaults /\ attempts' \subseteq Attempt /\ late' \subseteq Request /\ callbacks' \subseteq CallbackRow
  BY <1>0, <1>4 DEF TypeOK
<1>10. job' \in [Actions -> [Bookings -> JobRow]] /\ \A a \in Actions, q \in Bookings : q # b => job'[a][q] = job[a][q]
  BY <1>1, <1>4
<1> QED
  BY <1>1, <1>4, <1>5, <1>6, <1>7, <1>8, <1>9, <1>10, BookingStep DEF provider

\* Every step preserves the invariant.
LEMMA HotelNextIInv == ASSUME Assumption, HotelIInv, [Next]_vars PROVE HotelIInv'
<1>1. CASE UNCHANGED vars
  <2>1. UNCHANGED <<hotel, provider, attempts, late, callbacks, faults>>
    BY <1>1 DEF vars
  <2>2. MessagesSound'
    BY <2>1 DEF HotelIInv, MessagesSound, hotel, provider
  <2> QED
    BY <2>1, <2>2, MessageStep DEF HotelIInv, TypeOK
<1>2. CASE \E b \in Bookings : Reserve(b) \/ Cancel(b) \/ PassDeadline(b) \/ ClaimUncharged(b)
  BY <1>2, ReserveStep, CancelStep, CalendarStep, UnchargedStep
<1>3. CASE Sweep
  BY <1>3, SweepStep
<1>4. CASE \E d \in Days, n \in Limits : SetDays(d, n)
  BY <1>4, CalendarStep
<1>5. CASE \E a \in Actions, b \in Bookings : LeaseExpires(a, b) \/ Claim(a, b, TRUE) \/ Claim(a, b, FALSE)
  BY <1>5, LeaseStep, ClaimStep
<1>6. CASE (\E r \in late : ExecuteLate(r)) \/ (\E x \in attempts : CallProvider(x))
  BY <1>6, ProviderStep
<1>7. CASE \E x \in attempts : ProviderFails(x, TRUE) \/ ProviderFails(x, FALSE)
  BY <1>7, LostStep
<1>8. CASE \E m \in callbacks : FinishUnanswered(m) \/ LoseCallback(m) \/ FinishStale(m)
  BY <1>8, LostStep
<1>9. CASE \E m \in callbacks : Retry(m) \/ FinishDeclined(m) \/ FinishPaid(m) \/ FinishRefunded(m)
  BY <1>9, RetryStep, DeclinedStep, PaidStep, RefundedStep
<1> QED
  BY <1>1, <1>2, <1>3, <1>4, <1>5, <1>6, <1>7, <1>8, <1>9 DEF Next, Finish

-----------------------------------------------------------------------------
(* What the invariant is for. *)

\* The inductive invariant holds in every reachable state.
THEOREM HotelInvariant == ASSUME Assumption PROVE Spec => []HotelIInv
<1>1. Init => HotelIInv
  BY HotelInitIInv
<1>2. HotelIInv /\ [Next]_vars => HotelIInv'
  BY HotelNextIInv
<1> QED
  BY <1>1, <1>2, PTL DEF Spec

\* For any bookings, days, quantities, limits and faults: rooms are released
\* exactly once and never overbooked, a confirmed guest has paid, nobody keeps
\* money for a stay that does not take place, and the provider never refuses a
\* worker, whatever answers are lost, leases expire and requests execute late
\* (bookings.py, saga.py, worker.py, payment.py).
THEOREM StaysAreExact == ASSUME Assumption PROVE Spec => []StaysExact
<1>1. ASSUME HotelIInv PROVE StaysExact
  <2>1. ASSUME NEW b \in Bookings PROVE SoundAt(b)
    BY <1>1 DEF HotelIInv
  <2>2. ConfirmedIsPaid
    BY <2>1 DEF ConfirmedIsPaid, SoundAt, Sound, LedgerSound, NoJob
  <2>3. MoneyMatchesStays
    BY <2>1 DEF MoneyMatchesStays, SoundAt, Sound, LedgerSound, NoJob
  <2>4. ASSUME NEW a \in Actions, NEW b \in Bookings, job[a][b].token # 0 PROVE Outcome(a, b) # "error"
    BY <1>1, <2>4, OutcomeSound
  <2>5. ProviderNeverRefuses
    BY <1>1, <2>4 DEF ProviderNeverRefuses, HotelIInv, MessagesSound, TypeOK, Attempt, Request
  <2> QED
    BY <1>1, <2>2, <2>3, <2>5 DEF StaysExact, HotelIInv
<1>2. HotelIInv => StaysExact
  BY SMTT(60), <1>1
<1> QED
  BY <1>2, HotelInvariant, PTL

\* A step keeps the status of a booking that ended: cancel, sweep, a claim and a
\* callback release or confirm only what is pending or confirmed.
LEMMA EndedKept ==
  ASSUME Assumption, HotelIInv, [Next]_vars, NEW q \in Bookings, bk[q].status \in Ended
  PROVE  bk'[q].status = bk[q].status
<1>0. /\ bk \in [Bookings -> BookingRow] /\ bk[q] \in BookingRow
      /\ \A m \in callbacks : m.booking \in Bookings
      /\ bk[q].status # "NONE" /\ bk[q].status # "PENDING" /\ bk[q].status # "CONFIRMED"
  BY DEF HotelIInv, TypeOK, CallbackRow, Ended
<1>1. CASE UNCHANGED bk
  BY <1>1
<1>2. CASE \E b \in Bookings : Reserve(b) \/ Cancel(b) \/ ClaimUncharged(b)
  <2>1. PICK b \in Bookings : Reserve(b) \/ Cancel(b) \/ ClaimUncharged(b)
    BY <1>2
  <2>2. CASE Reserve(b)
    BY <1>0, <2>2 DEF Reserve
  <2>3. CASE Cancel(b)
    BY <1>0, <2>3 DEF Cancel
  <2>4. CASE ClaimUncharged(b)
    BY <1>0, <2>4 DEF ClaimUncharged
  <2> QED
    BY <2>1, <2>2, <2>3, <2>4
<1>3. CASE Sweep
  BY <1>0, <1>3 DEF Sweep, Overdue
<1>4. CASE \E a \in Actions, b \in Bookings : Claim(a, b, TRUE) \/ Claim(a, b, FALSE)
  <2>1. PICK a \in Actions, b \in Bookings : Claim(a, b, TRUE) \/ Claim(a, b, FALSE)
    BY <1>4
  <2>2. \/ bk' = bk
        \/ bk' = [bk EXCEPT ![b] = [bk[b] EXCEPT !.payment = "CHARGING"]]
    BY <2>1 DEF Claim
  <2>3. [bk[q] EXCEPT !.payment = "CHARGING"].status = bk[q].status
    BY <1>0 DEF BookingRow
  <2> QED
    BY <1>0, <2>2, <2>3
<1>5. CASE \E m \in callbacks : FinishDeclined(m) \/ FinishPaid(m) \/ FinishRefunded(m)
  <2>1. PICK m \in callbacks : FinishDeclined(m) \/ FinishPaid(m) \/ FinishRefunded(m)
    BY <1>5
  <2>2. CASE m.booking # q
    BY <1>0, <2>1, <2>2 DEF FinishDeclined, FinishPaid, FinishRefunded
  <2>3. CASE m.booking = q
    <3>1. PICK p \in {"DECLINED", "REFUND_PENDING", "REFUNDED"} :
            bk' = [bk EXCEPT ![q] = [bk[q] EXCEPT !.payment = p]]
      BY <1>0, <2>1, <2>3 DEF FinishDeclined, FinishPaid, FinishRefunded, Confirmable
    <3>2. [bk[q] EXCEPT !.payment = p].status = bk[q].status
      BY <1>0 DEF BookingRow
    <3> QED
      BY <1>0, <3>1, <3>2
  <2> QED
    BY <2>2, <2>3
<1> QED
  BY <1>1, <1>2, <1>3, <1>4, <1>5
  DEF Next, Finish, vars, hotel, PassDeadline, SetDays, LeaseExpires, ExecuteLate, CallProvider,
      ProviderFails, FinishUnanswered, LoseCallback, Retry, FinishStale

\* A step keeps a refund and a decline: the provider answers a repeated request
\* from its receipt (SimulatedLedger.execute).
LEMMA RefundKept ==
  ASSUME Assumption, HotelIInv, [Next]_vars, NEW q \in Bookings, ledger[q] \in {"refunded", "declined"}
  PROVE  ledger'[q] = ledger[q]
<1>1. CASE UNCHANGED ledger
  BY <1>1
<1>2. ASSUME NEW a \in Actions, NEW b \in Bookings, job[a][b].token # 0, Execute(a, b), UNCHANGED hotel
      PROVE  ledger'[q] = ledger[q]
  BY <1>2, ExecuteSound
<1>3. CASE \E r \in late : ExecuteLate(r)
  <2>1. PICK r \in late : ExecuteLate(r)
    BY <1>3
  <2>2. /\ r.action \in Actions /\ r.booking \in Bookings /\ job[r.action][r.booking].token # 0
        /\ Execute(r.action, r.booking) /\ UNCHANGED hotel
    BY <2>1 DEF HotelIInv, TypeOK, Request, MessagesSound, ExecuteLate
  <2> QED
    BY <1>2, <2>2
<1>4. CASE \E x \in attempts : CallProvider(x)
  <2>1. PICK x \in attempts : CallProvider(x)
    BY <1>4
  <2>2. /\ x.action \in Actions /\ x.booking \in Bookings /\ job[x.action][x.booking].token # 0
        /\ Execute(x.action, x.booking) /\ UNCHANGED hotel
    BY <2>1 DEF HotelIInv, TypeOK, Attempt, MessagesSound, CallProvider
  <2> QED
    BY <1>2, <2>2
<1> QED
  BY <1>1, <1>3, <1>4
  DEF Next, Finish, vars, provider, Reserve, Cancel, ClaimUncharged, Sweep, Claim, PassDeadline, SetDays,
      LeaseExpires, ProviderFails, FinishUnanswered, LoseCallback, Retry, FinishStale, FinishDeclined,
      FinishPaid, FinishRefunded

\* For any bookings and faults: a stay that ended never comes back, and a charge
\* that was declined or refunded is never collected again, whatever is repeated
\* or arrives late (saga.py, payment.py).
THEOREM EndsAreFinal == ASSUME Assumption PROVE Spec => EndIsFinal
<1>1. HotelIInv /\ [Next]_vars =>
        [\A b \in Bookings :
           /\ bk[b].status \in Ended => bk'[b].status = bk[b].status
           /\ ledger[b] \in {"refunded", "declined"} => ledger'[b] = ledger[b]]_vars
  BY EndedKept, RefundKept
<1> QED
  BY <1>1, HotelInvariant, PTL DEF Spec, EndIsFinal

=============================================================================
