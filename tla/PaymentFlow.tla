----------------------------- MODULE PaymentFlow ----------------------------
(***************************************************************************)
(* Pay-ins, payouts and refunds of one merchant: the payment store         *)
(* (payment_system/operations.py, ledger.py, jobs.py, checkouts.py), its   *)
(* workers (worker.py), the payment service provider (provider.py,         *)
(* provider_delivery.py) and the consumer of terminal events (receiver.py). *)
(*                                                                         *)
(* Every step of the store, the provider and the consumer is one SQLite    *)
(* transaction; between them are HTTP calls.  A call may be lost before or *)
(* after it took effect, a worker may stop, a lease may run out under a    *)
(* working owner, and a callback may arrive late, twice or out of order.   *)
(* Due times and leases are not measured: they run out at any moment.      *)
(***************************************************************************)
EXTENDS Integers, FiniteSets, FiniteSetsExt, TLC

CONSTANTS
  Ops,          \* operations: one request key and body each
  Kind,         \* Kind[o]: "payin", "payout" or "refund"
  Amount,       \* Amount[o]: cents
  Parent,       \* Parent[o]: the pay-in a refund gives back, o itself otherwise
  Order,        \* Order[o]: the merchant order of a pay-in
  Declined,     \* payouts to the destination that declines
  Checkouts,    \* batches of pay-ins created by one checkout each
  Workers,
  MaxFailures,  \* counted failures that make a job dead (5 in the code)
  MaxFaults,    \* bound: lost calls, worker stops, early lease expiries, repeated callbacks
  MaxRetries    \* bound: administrative retries

\* What the constants may be.
Assumption ==
  /\ Kind \in [Ops -> {"payin", "payout", "refund"}]
  /\ Amount \in [Ops -> Nat \ {0}]
  /\ Parent \in [Ops -> Ops]
  /\ Declined \subseteq Ops
  /\ Checkouts \subseteq SUBSET Ops
  /\ MaxFailures \in Nat \ {0}
  /\ MaxFaults \in Nat
  /\ MaxRetries \in Nat

VARIABLES
  op,        \* op[o]: local status and provider revision
  versions,  \* provider versions seen by the store, as receipts
  inbox,     \* callbacks the store has answered
  wallet,    \* available and held cents of the merchant
  posted,    \* ledger transactions, as <<kind, operation>>
  reviews,   \* manual reviews, as <<reason, operation>>
  job,       \* job[k][o] for k in execute, notify
  worker,    \* worker[w]: phase, claimed job, last receipt
  psp,       \* psp[o]: status and revision at the provider
  expired,   \* pay-ins whose hosted checkout is past its deadline
  webhooks,  \* callbacks of the provider: receipt -> pending or done
  events,    \* terminal events the consumer stored
  faults,
  retries

store    == <<op, versions, inbox, wallet, posted, reviews>>
provider == <<psp, expired, webhooks>>
vars     == <<store, job, worker, provider, events, faults, retries>>

Terminal == {"SUCCEEDED", "FAILED"}
Open     == {"CREATED", "PENDING", "UNKNOWN"}
Jobs     == {"execute", "notify"} \X Ops
Receipts == [op : Ops, status : {"PENDING"} \cup Terminal, rev : 1..2]
Idle     == [phase |-> "idle"]
NoJob    == [status |-> "none", failures |-> 0, token |-> "none", lapsed |-> FALSE]
Total(S) == MapThenSumSet(LAMBDA o : Amount[o], S)

-----------------------------------------------------------------------------
(***************************************************************************)
(* The ledger and the job table.                                           *)
(***************************************************************************)

\* post: the change of the wallet a ledger transaction makes.
Delta_SettleKeepsHold(kind, o) ==
  CASE kind = "reserve"  -> [available |-> -Amount[o], held |-> Amount[o]]
    [] kind = "release"  -> [available |-> Amount[o], held |-> -Amount[o]]
    [] kind = "settle"   -> [available |-> IF Kind[o] = "payin" THEN Amount[o] ELSE 0, held |-> 0]
Delta(kind, o) ==
  CASE kind = "reserve"                      -> [available |-> -Amount[o], held |-> Amount[o]]
    [] kind = "release"                      -> [available |-> Amount[o], held |-> -Amount[o]]
    [] kind = "settle" /\ Kind[o] = "payin"  -> [available |-> Amount[o], held |-> 0]
    [] kind = "settle" /\ Kind[o] # "payin"  -> [available |-> 0, held |-> -Amount[o]]

\* post is idempotent by its identity, and fails its transaction when an
\* account would become negative.
After(kind, o) ==
  IF <<kind, o>> \in posted THEN wallet
  ELSE [a \in {"available", "held"} |-> wallet[a] + Delta(kind, o)[a]]

CanPost_Unchecked(kind, o) == TRUE
CanPost(kind, o) == \A a \in {"available", "held"} : After(kind, o)[a] >= 0

\* enqueue: INSERT OR IGNORE.
Enqueued(j) == IF j.status = "none" THEN [NoJob EXCEPT !.status = "pending"] ELSE j

-----------------------------------------------------------------------------
(***************************************************************************)
(* Operations.                                                             *)
(***************************************************************************)

OrderFree(o) ==
  \A q \in Ops : ~(/\ Kind[q] = "payin"
                   /\ Order[q] = Order[o]
                   /\ op[q].status # "none")

\* Refunds of a payment that are open or paid out.
Refunding_Settled(p) ==
  {q \in Ops : Kind[q] = "refund" /\ Parent[q] = p /\ op[q].status = "SUCCEEDED"}
Refunding(p) ==
  {q \in Ops : Kind[q] = "refund" /\ Parent[q] = p /\ op[q].status \notin {"none", "FAILED"}}

Refundable(o) ==
  /\ op[Parent[o]].status = "SUCCEEDED"
  /\ Total(Refunding(Parent[o])) + Amount[o] <= Amount[Parent[o]]

Created == [status |-> "CREATED", rev |-> 0]

\* create.  A request key that exists answers the stored operation and
\* changes nothing.
Create(o) ==
  /\ op[o].status = "none"
  /\ \A c \in Checkouts : o \notin c
  /\ Kind[o] = "payin" => OrderFree(o)
  /\ Kind[o] = "refund" => Refundable(o)
  /\ Kind[o] # "payin" => CanPost("reserve", o)
  /\ op' = [op EXCEPT ![o] = Created]
  /\ IF Kind[o] = "payin"
     THEN UNCHANGED <<wallet, posted>>
     ELSE /\ wallet' = After("reserve", o)
          /\ posted' = posted \cup {<<"reserve", o>>}
  /\ job' = [job EXCEPT !["execute"][o] = Enqueued(@)]
  /\ UNCHANGED <<versions, inbox, reviews, worker, provider, events, faults, retries>>

\* create_checkout: all pay-ins of the batch or, when one order is taken, none.
CreateCheckout_SkipTaken(c) ==
  /\ \A o \in c : op[o].status = "none"
  /\ op' = [o \in Ops |-> IF o \in c /\ OrderFree(o) THEN Created ELSE op[o]]
  /\ job' = [job EXCEPT !["execute"] =
              [o \in Ops |-> IF o \in c /\ OrderFree(o) THEN Enqueued(@[o]) ELSE @[o]]]
  /\ UNCHANGED <<versions, inbox, wallet, posted, reviews, worker, provider, events, faults, retries>>

CreateCheckout(c) ==
  /\ \A o \in c : op[o].status = "none" /\ OrderFree(o)
  /\ op' = [o \in Ops |-> IF o \in c THEN Created ELSE op[o]]
  /\ job' = [job EXCEPT !["execute"] = [o \in Ops |-> IF o \in c THEN Enqueued(@[o]) ELSE @[o]]]
  /\ UNCHANGED <<versions, inbox, wallet, posted, reviews, worker, provider, events, faults, retries>>

\* Another content was seen under the same revision.
Conflicting(r) == \E v \in versions : v.op = r.op /\ v.rev = r.rev /\ v # r

\* What apply makes of a receipt: the reason of a review, or ignored, or applied.
Verdict_LastWins(r) == IF Conflicting(r) THEN "REVISION_CONFLICT" ELSE "applied"
Verdict(r) ==
  LET row == op[r.op] IN
  CASE Conflicting(r)                                               -> "REVISION_CONFLICT"
    [] ~Conflicting(r) /\ r.rev < row.rev                           -> "ignored"
    [] ~Conflicting(r) /\ r.rev >= row.rev /\ row.status \in Terminal ->
         IF r.status # row.status THEN "TERMINAL_CONFLICT" ELSE "ignored"
    [] ~Conflicting(r) /\ r.rev = row.rev /\ row.status = "PENDING" ->
         IF r.status # row.status THEN "REVISION_CONFLICT" ELSE "ignored"
    [] OTHER                                                        -> "applied"

Posting_NoRelease(r) == IF r.status = "SUCCEEDED" THEN {"settle"} ELSE {}
Posting(r) ==
  CASE r.status = "SUCCEEDED"                           -> {"settle"}
    [] r.status = "FAILED" /\ Kind[r.op] # "payin"      -> {"release"}
    [] OTHER                                            -> {}

\* A terminal result ends the execution and queues the event of the outcome.
JobsAfter(r) ==
  IF r.status = "PENDING" THEN job
  ELSE [job EXCEPT !["execute"][r.op].status = "done", !["notify"][r.op] = Enqueued(@)]

\* apply without the inbox.
Apply(r) ==
  LET v == Verdict(r) IN
  /\ \A k \in Posting(r) : v = "applied" => CanPost(k, r.op)
  /\ IF v = "applied"
     THEN /\ \A k \in Posting(r) : wallet' = After(k, r.op)
          /\ Posting(r) = {} => wallet' = wallet
          /\ posted' = posted \cup {<<k, r.op>> : k \in Posting(r)}
          /\ op' = [op EXCEPT ![r.op] = [status |-> r.status, rev |-> r.rev]]
          /\ job' = JobsAfter(r)
     ELSE UNCHANGED <<wallet, posted, op, job>>
  /\ IF v \in {"applied", "ignored"}
     THEN versions' = versions \cup {r} /\ UNCHANGED reviews
     ELSE reviews' = reviews \cup {<<v, r.op>>} /\ UNCHANGED versions

-----------------------------------------------------------------------------
(***************************************************************************)
(* The provider.                                                           *)
(***************************************************************************)

Receipt(o, p) == [op |-> o, status |-> p.status, rev |-> p.rev]
Queued(o, p)  == webhooks @@ (Receipt(o, p) :> "pending")

\* MockPSP.create: a known identity answers its row.
Admitted(o) ==
  Kind[o] = "refund" =>
    /\ psp[Parent[o]].status = "SUCCEEDED"
    /\ Total({q \in Ops : Kind[q] = "refund" /\ Parent[q] = Parent[o] /\ psp[q].status = "SUCCEEDED"})
         + Amount[o] <= Amount[Parent[o]]

Inserted(o) ==
  [rev |-> 1, status |-> IF Kind[o] = "payin" THEN "PENDING"
                         ELSE IF o \in Declined THEN "FAILED" ELSE "SUCCEEDED"]

\* The row a query of the provider leaves: an overdue checkout fails now.
Observed(o) ==
  IF psp[o].status = "PENDING" /\ o \in expired
  THEN [status |-> "FAILED", rev |-> psp[o].rev + 1]
  ELSE psp[o]

\* The provider stores a row and, when it changed, queues its callback.
StoreRow_NoCallback(o, p) == psp' = [psp EXCEPT ![o] = p] /\ UNCHANGED <<webhooks, expired>>
StoreRow(o, p) ==
  /\ psp' = [psp EXCEPT ![o] = p]
  /\ webhooks' = IF p = psp[o] THEN webhooks ELSE Queued(o, p)
  /\ UNCHANGED expired

\* The customer submits the hosted checkout page.
Chosen_SameRevision(o, choice) ==
  IF Observed(o).status = "PENDING" THEN [status |-> choice, rev |-> psp[o].rev] ELSE Observed(o)
Chosen(o, choice) ==
  IF Observed(o).status = "PENDING" THEN [status |-> choice, rev |-> psp[o].rev + 1] ELSE Observed(o)

SubmitCheckout(o, choice) ==
  /\ Kind[o] = "payin"
  /\ psp[o].status = "PENDING"
  /\ StoreRow(o, Chosen(o, choice))
  /\ UNCHANGED <<store, job, worker, events, faults, retries>>

CheckoutExpires(o) ==
  /\ psp[o].status = "PENDING"
  /\ o \notin expired
  /\ expired' = expired \cup {o}
  /\ UNCHANGED <<store, job, worker, psp, webhooks, events, faults, retries>>

\* dispatch_once: the callback r reaches the store, which answers a known
\* one from its inbox.  The acknowledgement may be lost, and an acknowledged
\* callback may still have an earlier request of its own on the way.
Pending(r) == r \in DOMAIN webhooks /\ webhooks[r] = "pending"

Callback(r, acked) ==
  /\ r \in DOMAIN webhooks
  /\ (Pending(r) /\ acked) \/ faults < MaxFaults
  /\ IF r \in inbox
     THEN UNCHANGED <<store, job>>
     ELSE Apply(r) /\ inbox' = inbox \cup {r}
  /\ webhooks' = IF acked THEN [webhooks EXCEPT ![r] = "done"] ELSE webhooks
  /\ faults' = IF Pending(r) /\ acked THEN faults ELSE faults + 1
  /\ UNCHANGED <<worker, psp, expired, events, retries>>

-----------------------------------------------------------------------------
(***************************************************************************)
(* Workers.                                                                *)
(***************************************************************************)

Claimable_NoTakeover(j) == j.status = "pending"
Claimable(j) == j.status = "pending" \/ (j.status = "inflight" /\ j.lapsed)

Claim(w, k, o) ==
  /\ worker[w] = Idle
  /\ Claimable(job[k][o])
  /\ job' = [job EXCEPT ![k][o].status = "inflight", ![k][o].token = w, ![k][o].lapsed = FALSE]
  /\ worker' = [worker EXCEPT ![w] =
                 [phase |-> IF k = "execute" THEN "read" ELSE "deliver", kind |-> k, op |-> o]]
  /\ UNCHANGED <<store, provider, events, faults, retries>>

Step(w, phase) ==
  /\ worker[w].phase = phase
  /\ UNCHANGED <<retries, faults>>

Enter(w, phase) == worker' = [worker EXCEPT ![w] = [kind |-> @.kind, op |-> @.op, phase |-> phase]]

\* The worker reads the operation it claimed.
ReadOperation(w) ==
  /\ Step(w, "read")
  /\ Enter(w, IF op[worker[w].op].status \in Terminal THEN "finish" ELSE "query")
  /\ UNCHANGED <<store, job, provider, events>>

Answered(w, p) ==
  worker' = [worker EXCEPT ![w] = [kind |-> @.kind, op |-> @.op, phase |-> "apply",
                                   receipt |-> Receipt(@.op, p)]]

\* Only a 404 of the query leads to a creation.
QueryProvider(w) ==
  LET o == worker[w].op IN
  /\ Step(w, "query")
  /\ IF psp[o].status = "none"
     THEN Enter(w, "create") /\ UNCHANGED provider
     ELSE Answered(w, Observed(o)) /\ StoreRow(o, Observed(o))
  /\ UNCHANGED <<store, job, events>>

CreateAtProvider_NotIdempotent(w) ==
  LET o == worker[w].op IN
  /\ Step(w, "create")
  /\ Answered(w, Inserted(o)) /\ StoreRow(o, Inserted(o))
  /\ UNCHANGED <<store, job, events>>

CreateAtProvider(w) ==
  LET o == worker[w].op
      p == IF psp[o].status = "none" THEN Inserted(o) ELSE psp[o]
  IN
  /\ Step(w, "create")
  /\ IF psp[o].status = "none" /\ ~Admitted(o)
     THEN Enter(w, "fail") /\ UNCHANGED provider
     ELSE Answered(w, p) /\ StoreRow(o, p)
  /\ UNCHANGED <<store, job, events>>

ApplyReceipt(w) ==
  LET r == worker[w].receipt IN
  /\ Step(w, "apply")
  /\ Apply(r)
  /\ Enter(w, IF Verdict(r) \notin {"applied", "ignored"} THEN "fail"
              ELSE IF r.status = "PENDING" THEN "poll" ELSE "finish")
  /\ UNCHANGED <<inbox, provider, events>>

\* Receiver.receive: one stored event per identity.
DeliverEvent(w) ==
  LET o == worker[w].op IN
  /\ Step(w, "deliver")
  /\ events' = events \cup {[op |-> o, status |-> op[o].status]}
  /\ Enter(w, "finish")
  /\ UNCHANGED <<store, job, provider>>

\* finish_job changes only a job the caller still owns.
Owns(w) ==
  LET j == job[worker[w].kind][worker[w].op] IN
  j.status = "inflight" /\ j.token = w /\ ~j.lapsed

Outcome_AlwaysDone(phase) == "done"
Outcome(phase) == IF phase = "finish" THEN "done" ELSE "pending"

Unknown(o) == IF op[o].status \in Terminal THEN op ELSE [op EXCEPT ![o].status = "UNKNOWN"]

FinishJob(w) ==
  LET k        == worker[w].kind
      o        == worker[w].op
      error    == worker[w].phase = "fail"
      failures == job[k][o].failures + IF error THEN 1 ELSE 0
      dead     == failures >= MaxFailures
  IN
  /\ worker[w].phase \in {"finish", "poll", "fail"}
  /\ IF Owns(w)
     THEN /\ job' = [job EXCEPT ![k][o] =
                      [status |-> IF dead THEN "dead" ELSE Outcome(worker[w].phase),
                       failures |-> failures, token |-> "none", lapsed |-> FALSE]]
          /\ op' = IF error /\ k = "execute" THEN Unknown(o) ELSE op
          /\ reviews' = IF dead THEN reviews \cup {<<"RETRY_EXHAUSTED", o>>} ELSE reviews
     ELSE UNCHANGED <<job, op, reviews>>
  /\ worker' = [worker EXCEPT ![w] = Idle]
  /\ UNCHANGED <<versions, inbox, wallet, posted, provider, events, faults, retries>>

\* A call raises, before or after it took effect: the worker reports the error.
CallFails(w) ==
  /\ worker[w].phase \notin {"idle", "fail"}
  /\ faults < MaxFaults
  /\ faults' = faults + 1
  /\ Enter(w, "fail")
  /\ UNCHANGED <<store, job, provider, events, retries>>

\* The worker stops or runs out of its I/O budget without a report.
WorkerStops(w) ==
  /\ worker[w] # Idle
  /\ faults < MaxFaults
  /\ faults' = faults + 1
  /\ worker' = [worker EXCEPT ![w] = Idle]
  /\ UNCHANGED <<store, job, provider, events, retries>>

Working(k, o) ==
  \E w \in Workers : worker[w] # Idle /\ worker[w].kind = k /\ worker[w].op = o /\ job[k][o].token = w

LeaseExpires(k, o) ==
  /\ job[k][o].status = "inflight"
  /\ ~job[k][o].lapsed
  /\ Working(k, o) => faults < MaxFaults
  /\ faults' = IF Working(k, o) THEN faults + 1 ELSE faults
  /\ job' = [job EXCEPT ![k][o].lapsed = TRUE]
  /\ UNCHANGED <<store, worker, provider, events, retries>>

\* retry: an administrator requeues the execution of an open operation.
RetryOperation(o) ==
  /\ op[o].status \in Open
  /\ retries < MaxRetries
  /\ retries' = retries + 1
  /\ job' = [job EXCEPT !["execute"][o] = [NoJob EXCEPT !.status = "pending"]]
  /\ UNCHANGED <<store, worker, provider, events, faults>>

\* retry_job: an administrator requeues a dead job.
RetryJob(k, o) ==
  /\ job[k][o].status = "dead"
  /\ retries < MaxRetries
  /\ retries' = retries + 1
  /\ job' = [job EXCEPT ![k][o] = [NoJob EXCEPT !.status = "pending"]]
  /\ UNCHANGED <<store, worker, provider, events, faults>>

-----------------------------------------------------------------------------

Init ==
  /\ op = [o \in Ops |-> [status |-> "none", rev |-> 0]]
  /\ versions = {} /\ inbox = {} /\ posted = {} /\ reviews = {}
  /\ wallet = [a \in {"available", "held"} |-> 0]
  /\ job = [k \in {"execute", "notify"} |-> [o \in Ops |-> NoJob]]
  /\ worker = [w \in Workers |-> Idle]
  /\ psp = [o \in Ops |-> [status |-> "none", rev |-> 0]]
  /\ expired = {} /\ events = {}
  /\ webhooks = <<>>
  /\ faults = 0 /\ retries = 0

WorkerStep(w) ==
  \/ ReadOperation(w)
  \/ QueryProvider(w)
  \/ CreateAtProvider(w)
  \/ ApplyReceipt(w)
  \/ DeliverEvent(w)
  \/ FinishJob(w)

Next ==
  \/ \E o \in Ops : Create(o)
  \/ \E c \in Checkouts : CreateCheckout(c)
  \/ \E o \in Ops, choice \in Terminal : SubmitCheckout(o, choice)
  \/ \E o \in Ops : CheckoutExpires(o)
  \/ \E r \in Receipts, acked \in BOOLEAN : Callback(r, acked)
  \/ \E w \in Workers, k \in {"execute", "notify"}, o \in Ops : Claim(w, k, o)
  \/ \E w \in Workers : WorkerStep(w)
  \/ \E w \in Workers : CallFails(w) \/ WorkerStops(w)
  \/ \E k \in {"execute", "notify"}, o \in Ops : LeaseExpires(k, o) \/ RetryJob(k, o)
  \/ \E o \in Ops : RetryOperation(o)

Spec == Init /\ [][Next]_vars

\* Idle executors keep claiming, a claimed job proceeds, abandoned leases and
\* checkouts run out, and the dispatcher retries a callback until it is
\* acknowledged.  Due jobs are claimed in the order of their due times, so
\* each of them gets its turn.  Customers and administrators owe nothing.
Fairness ==
  /\ \A k \in {"execute", "notify"}, o \in Ops :
       /\ SF_vars(\E w \in Workers : Claim(w, k, o))
       /\ WF_vars(LeaseExpires(k, o) /\ ~Working(k, o))
  /\ \A w \in Workers : WF_vars(WorkerStep(w))
  /\ \A o \in Ops : WF_vars(CheckoutExpires(o))
  /\ \A r \in Receipts : WF_vars(Pending(r) /\ Callback(r, TRUE))

FairSpec == Spec /\ Fairness

-----------------------------------------------------------------------------
(***************************************************************************)
(* Properties.                                                             *)
(***************************************************************************)

\* The type invariant of the store, the workers and the provider.
TypeOK ==
  /\ op \in [Ops -> [status : {"none"} \cup Open \cup Terminal, rev : 0..2]]
  /\ versions \subseteq Receipts /\ inbox \subseteq Receipts
  /\ wallet \in [{"available", "held"} -> Nat]
  /\ posted \subseteq ({"reserve", "settle", "release"} \X Ops)
  /\ job \in [{"execute", "notify"} -> [Ops ->
       [status : {"none", "pending", "inflight", "done", "dead"}, failures : 0..MaxFailures,
        token : Workers \cup {"none"}, lapsed : BOOLEAN]]]
  /\ psp \in [Ops -> [status : {"none", "PENDING"} \cup Terminal, rev : 0..2]]
  /\ expired \subseteq Ops
  /\ DOMAIN webhooks \subseteq Receipts
  /\ faults \in 0..MaxFaults /\ retries \in 0..MaxRetries

\* The wallet is what the operations say: held covers exactly the payouts and
\* refunds whose outcome is still open, also when it is unknown or their job
\* is dead, and available is what settled in, less what settled out, less held.
WalletMatchesOperations ==
  LET Of(kinds, statuses) == {o \in Ops : Kind[o] \in kinds /\ op[o].status \in statuses} IN
  /\ wallet.held = Total(Of({"payout", "refund"}, Open))
  /\ wallet.available = Total(Of({"payin"}, {"SUCCEEDED"}))
                        - Total(Of({"payout", "refund"}, {"SUCCEEDED"})) - wallet.held

\* The store ends an operation only with the outcome the provider has for it,
\* and never runs ahead of the provider's revision.
LocalFollowsProvider ==
  \A o \in Ops : /\ op[o].status \in Terminal => psp[o].status = op[o].status
                 /\ op[o].rev <= psp[o].rev

\* Reordered, repeated and late answers of an honest provider never look like
\* a contradiction: the only review this system opens is an exhausted retry.
NoFalseConflict == \A v \in reviews : v[1] = "RETRY_EXHAUSTED"

\* An operation without an outcome always has an execution that is queued,
\* running or dead for an administrator to requeue; one with an outcome has
\* none, and has its notification queued or behind it.
ExecutionMatchesOutcome ==
  \A o \in Ops :
    /\ op[o].status \in Open => job["execute"][o].status \in {"pending", "inflight", "dead"}
    /\ op[o].status \in Terminal => /\ job["execute"][o].status = "done"
                                    /\ job["notify"][o].status # "none"

\* The store accepts a refund only if the provider will: whatever the order in
\* which accepted refunds reach it, each still fits the captured payment.
RefundsAlwaysAdmitted ==
  \A o \in Ops : Kind[o] = "refund" /\ op[o].status # "none" /\ psp[o].status = "none" => Admitted(o)

\* A notification that is settled was stored by the consumer, with the outcome
\* of the operation, and the consumer never sees two outcomes of one operation.
ConsumerAgrees ==
  /\ \A e \in events : op[e.op].status = e.status
  /\ \A o \in Ops : job["notify"][o].status = "done" => \E e \in events : e.op = o

\* A checkout's pay-ins exist together or not at all.
CheckoutWhole ==
  \A c \in Checkouts : \A o, q \in c : op[o].status = "none" <=> op[q].status = "none"

\* An outcome is final, and a posted transaction is never taken back.
FinalStep ==
  /\ \A o \in Ops : op[o].status \in Terminal => op'[o] = op[o]
  /\ posted \subseteq posted'
OutcomeIsFinal == [][FinalStep]_vars

\* What the provider decided reaches the wallet through its callback, whatever
\* became of the job that executes the operation.
ProviderOutcomeArrives ==
  \A o \in Ops : psp[o].status \in Terminal ~> op[o].status \in Terminal

\* Every operation gets an outcome and its consumer hears of it, as long as
\* no job dies of its failures.
EventuallyNotified ==
  \A o \in Ops : op[o].status # "none" ~>
    \/ \E e \in events : e.op = o
    \/ \E k \in {"execute", "notify"} : job[k][o].status = "dead"
=============================================================================
