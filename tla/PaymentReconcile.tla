-------------------------- MODULE PaymentReconcile --------------------------
(***************************************************************************)
(* Reconciliation of the payment store with the statement of the provider  *)
(* (payment_system/reconciliation.py, jobs.py, worker.py, provider.py).    *)
(*                                                                         *)
(* A worker fetches the statement, then the store compares it with its own *)
(* rows in one transaction.  Operations move on between the two.  They are *)
(* abstracted to what module PaymentFlow establishes of them: the store    *)
(* learns outcomes from the provider and from nowhere else, and posts the  *)
(* settlement with the outcome.                                            *)
(***************************************************************************)
EXTENDS Integers, FiniteSets, TLAPS

CONSTANTS
  Ops,          \* operations
  Workers,
  MaxFailures,  \* counted failures that make a job dead (5 in the code)
  MaxRunFaults, \* bound: lost calls, worker stops, early lease expiries
  MaxRetries    \* bound: administrative retries of the dead job

\* What the constants may be.
ReconcileAssumption ==
  /\ MaxFailures \in Nat \ {0}
  /\ MaxRunFaults \in Nat
  /\ MaxRetries \in Nat

VARIABLES
  local,    \* local[o]: status of the operation in the store
  psp,      \* psp[o]: status at the provider
  run,      \* the reconciliation run: status and result
  rjob,     \* its job
  worker,   \* worker[w]: phase and fetched statement
  reviews,  \* manual reviews: reason, operation, both statuses
  rfaults,
  retries

rows == <<local, psp>>
rvars == <<rows, run, rjob, worker, reviews, rfaults, retries>>

Terminal  == {"SUCCEEDED", "FAILED"}
Idle      == [phase |-> "idle"]
Claims_CountsAttempt(w) == [status |-> "inflight", failures |-> rjob.failures + 1, token |-> w, lapsed |-> FALSE]
Claims(w) == [status |-> "inflight", failures |-> rjob.failures, token |-> w, lapsed |-> FALSE]
Requeued  == [status |-> "pending", failures |-> 0, token |-> "none", lapsed |-> FALSE]

-----------------------------------------------------------------------------
(***************************************************************************)
(* Operations of the payment system, meanwhile.                            *)
(***************************************************************************)

Accept(o) ==
  /\ local[o] = "none"
  /\ local' = [local EXCEPT ![o] = "CREATED"]
  /\ UNCHANGED <<psp, run, rjob, worker, reviews, rfaults, retries>>

ProviderMoves(o, status) ==
  /\ local[o] # "none"
  /\ psp[o] \notin Terminal \cup {status}
  /\ psp' = [psp EXCEPT ![o] = status]
  /\ UNCHANGED <<local, run, rjob, worker, reviews, rfaults, retries>>

Learns_Guess(o) ==
  /\ local[o] \notin Terminal \cup {"none"}
  /\ local' = [local EXCEPT ![o] = IF psp[o] \in Terminal THEN psp[o] ELSE "FAILED"]
  /\ UNCHANGED <<psp, run, rjob, worker, reviews, rfaults, retries>>

Learns(o) ==
  /\ local[o] \notin Terminal \cup {"none"}
  /\ psp[o] # "none"
  /\ local' = [local EXCEPT ![o] = psp[o]]
  /\ local' # local
  /\ UNCHANGED <<psp, run, rjob, worker, reviews, rfaults, retries>>

BecomesUnknown(o) ==
  /\ local[o] \in {"CREATED", "PENDING"}
  /\ local' = [local EXCEPT ![o] = "UNKNOWN"]
  /\ UNCHANGED <<psp, run, rjob, worker, reviews, rfaults, retries>>

-----------------------------------------------------------------------------
(***************************************************************************)
(* The run.                                                                *)
(***************************************************************************)

\* schedule_reconcile.
Schedule ==
  /\ run.status = "none"
  /\ run' = [run EXCEPT !.status = "pending"]
  /\ rjob' = Requeued
  /\ UNCHANGED <<rows, worker, reviews, rfaults, retries>>

RunClaimable_NoTakeover == rjob.status = "pending"
RunClaimable == rjob.status = "pending" \/ (rjob.status = "inflight" /\ rjob.lapsed)

ClaimRun(w) ==
  /\ worker[w] = Idle
  /\ RunClaimable
  /\ rjob' = Claims(w)
  /\ worker' = [worker EXCEPT ![w] = [phase |-> "fetch"]]
  /\ UNCHANGED <<rows, run, reviews, rfaults, retries>>

FetchStatement(w) ==
  /\ worker[w].phase = "fetch"
  /\ worker' = [worker EXCEPT ![w] = [phase |-> "compare", statement |-> psp]]
  /\ UNCHANGED <<rows, run, rjob, reviews, rfaults, retries>>

\* The reason one operation differs, if it does.
Reason(o, statement) ==
  CASE local[o] # "none" /\ statement[o] = "none" /\ local[o] = "SUCCEEDED" -> "MISSING_PROVIDER_TRANSACTION"
    [] local[o] # "none" /\ statement[o] # "none" /\ local[o] # statement[o] -> "PROVIDER_AHEAD_OR_STATUS_MISMATCH"
    [] local[o] = "none" /\ statement[o] # "none"                            -> "ORPHAN_PROVIDER_OPERATION"
    [] OTHER                                                                 -> "none"

Differences(statement) ==
  {[reason |-> Reason(o, statement), op |-> o, local |-> local[o], provider |-> statement[o]] :
     o \in {p \in Ops : Reason(p, statement) # "none"}}

OwnsRun(w) == rjob.status = "inflight" /\ rjob.token = w /\ ~rjob.lapsed

Compare_NoFence(w) ==
  /\ worker[w].phase = "compare"
  /\ LET d == Differences(worker[w].statement) IN
     /\ run' = [status |-> "done", result |-> d]
     /\ reviews' = reviews \cup d
  /\ worker' = [worker EXCEPT ![w] = [phase |-> "finish"]]
  /\ UNCHANGED <<rows, rjob, rfaults, retries>>

\* reconcile: a finished run answers its result; any other one needs the
\* live claim.
Compare(w) ==
  /\ worker[w].phase = "compare"
  /\ IF run.status # "done" /\ OwnsRun(w)
     THEN LET d == Differences(worker[w].statement) IN
          /\ run' = [status |-> "done", result |-> d]
          /\ reviews' = reviews \cup d
     ELSE UNCHANGED <<run, reviews>>
  /\ worker' = [worker EXCEPT ![w] = [phase |-> IF run.status = "done" \/ OwnsRun(w) THEN "finish" ELSE "fail"]]
  /\ UNCHANGED <<rows, rjob, rfaults, retries>>

Failed_KeepsRun == run
Failed == [status |-> "failed", result |-> {}]

Exhausted == [reason |-> "RETRY_EXHAUSTED", op |-> "run", local |-> "none", provider |-> "none"]

\* finish_job.
FinishJob(w) ==
  LET error    == worker[w].phase = "fail"
      failures == rjob.failures + IF error THEN 1 ELSE 0
      dead     == failures >= MaxFailures
  IN
  /\ worker[w].phase \in {"finish", "fail"}
  /\ IF OwnsRun(w)
     THEN /\ rjob' = [Requeued EXCEPT !.failures = failures,
                                     !.status = IF dead THEN "dead" ELSE IF error THEN "pending" ELSE "done"]
          /\ run' = IF dead THEN Failed ELSE run
          /\ reviews' = IF dead THEN reviews \cup {Exhausted} ELSE reviews
     ELSE UNCHANGED <<rjob, run, reviews>>
  /\ worker' = [worker EXCEPT ![w] = Idle]
  /\ UNCHANGED <<rows, rfaults, retries>>

\* A call raises, before or after it took effect.
CallFails(w) ==
  /\ worker[w].phase \notin {"idle", "fail"}
  /\ rfaults < MaxRunFaults
  /\ rfaults' = rfaults + 1
  /\ worker' = [worker EXCEPT ![w] = [phase |-> "fail"]]
  /\ UNCHANGED <<rows, run, rjob, reviews, retries>>

WorkerStops(w) ==
  /\ worker[w] # Idle
  /\ rfaults < MaxRunFaults
  /\ rfaults' = rfaults + 1
  /\ worker' = [worker EXCEPT ![w] = Idle]
  /\ UNCHANGED <<rows, run, rjob, reviews, retries>>

RunWorking == \E w \in Workers : worker[w] # Idle /\ rjob.token = w

RunLeaseExpires ==
  /\ rjob.status = "inflight"
  /\ ~rjob.lapsed
  /\ RunWorking => rfaults < MaxRunFaults
  /\ rfaults' = IF RunWorking THEN rfaults + 1 ELSE rfaults
  /\ rjob' = [rjob EXCEPT !.lapsed = TRUE]
  /\ UNCHANGED <<rows, run, worker, reviews, retries>>

\* retry_job: the dead job and its run start over.
RetryJob_KeepsRun ==
  /\ rjob.status = "dead"
  /\ retries < MaxRetries
  /\ retries' = retries + 1
  /\ rjob' = Requeued
  /\ UNCHANGED <<rows, run, worker, reviews, rfaults>>

RetryJob ==
  /\ rjob.status = "dead"
  /\ retries < MaxRetries
  /\ retries' = retries + 1
  /\ rjob' = Requeued
  /\ run' = [status |-> "pending", result |-> {}]
  /\ UNCHANGED <<rows, worker, reviews, rfaults>>

-----------------------------------------------------------------------------

ReconcileInit ==
  /\ local = [o \in Ops |-> "none"]
  /\ psp = [o \in Ops |-> "none"]
  /\ run = [status |-> "none", result |-> {}]
  /\ rjob = [Requeued EXCEPT !.status = "none"]
  /\ worker = [w \in Workers |-> Idle]
  /\ reviews = {} /\ rfaults = 0 /\ retries = 0

WorkerStep(w) == FetchStatement(w) \/ Compare(w) \/ FinishJob(w)

ReconcileNext ==
  \/ \E o \in Ops : Accept(o) \/ Learns(o) \/ BecomesUnknown(o)
  \/ \E o \in Ops, status \in {"PENDING"} \cup Terminal : ProviderMoves(o, status)
  \/ Schedule \/ RunLeaseExpires \/ RetryJob
  \/ \E w \in Workers : ClaimRun(w) \/ WorkerStep(w) \/ CallFails(w) \/ WorkerStops(w)

ReconcileSpec == ReconcileInit /\ [][ReconcileNext]_rvars

\* Idle executors claim, a worker that is not stopped proceeds, and an
\* abandoned lease runs out.
ReconcileFairness ==
  /\ WF_rvars(\E w \in Workers : ClaimRun(w))
  /\ \A w \in Workers : WF_rvars(WorkerStep(w))
  /\ WF_rvars(RunLeaseExpires /\ ~RunWorking)

ReconcileFairSpec == ReconcileSpec /\ ReconcileFairness

-----------------------------------------------------------------------------
(***************************************************************************)
(* Properties.                                                             *)
(***************************************************************************)

\* The type invariant of the run, its job and the reviews.
ReconcileTypeOK ==
  /\ run.status \in {"none", "pending", "done", "failed"}
  /\ rjob.status \in {"none", "pending", "inflight", "done", "dead"}
  /\ rjob.failures \in 0..MaxFailures
  /\ local \in [Ops -> {"none", "CREATED", "PENDING", "UNKNOWN"} \cup Terminal]
  /\ psp \in [Ops -> {"none", "PENDING"} \cup Terminal]

\* What GET /admin/reconciliations answers agrees with the job behind it: a
\* run is failed exactly while its job is dead, and a settled job has a result.
RunFollowsJob ==
  /\ run.status = "failed" <=> rjob.status = "dead"
  /\ rjob.status = "done" => run.status = "done"

\* Although the statement may be older than the rows it is compared with, no
\* review of an honest provider shows two different outcomes: each is an
\* operation that one side had not finished.
DifferencesAreUnfinished ==
  \A v \in reviews : ~(v.local \in Terminal /\ v.provider \in Terminal)

\* Types and both, as the run checks them.
ReviewsSound == ReconcileTypeOK /\ RunFollowsJob /\ DifferencesAreUnfinished

\* Only the worker with the live claim completes a run.
OnlyOwnerCompletes ==
  [][run.status # "done" /\ run'.status = "done" =>
       \E w \in Workers : OwnsRun(w) /\ worker[w].phase = "compare"]_rvars

\* A scheduled run ends with a result or as failed.
RunEnds == run.status = "pending" ~> run.status \in {"done", "failed"}

-----------------------------------------------------------------------------
(***************************************************************************)
(* Proofs about the reconciliation of the payment system                   *)
(* (PaymentReconcile): what the run reports agrees with its job, no review *)
(* shows two different outcomes of one operation, and only the worker with *)
(* the live claim completes a run.                                         *)
(***************************************************************************)

Statuses   == {"none", "CREATED", "PENDING", "UNKNOWN"} \cup Terminal
Statements == [Ops -> {"none", "PENDING"} \cup Terminal]

-----------------------------------------------------------------------------
(***************************************************************************)
(* The inductive invariant.                                                *)
(***************************************************************************)

ReconcileShapes ==
  /\ local \in [Ops -> Statuses]
  /\ psp \in Statements
  /\ run.status \in {"none", "pending", "done", "failed"}
  /\ rjob \in [status : {"none", "pending", "inflight", "done", "dead"}, failures : 0..MaxFailures,
              token : Workers \cup {"none"}, lapsed : BOOLEAN]
  /\ worker \in [Workers -> [phase : {"idle", "fetch", "finish", "fail"}]
                              \cup [phase : {"compare"}, statement : Statements]]

\* The run is behind its job by at most the step of the worker that owns it.
JobAndRun ==
  /\ RunFollowsJob
  /\ rjob.status = "none" <=> run.status = "none"
  /\ rjob.status \in {"pending", "inflight"} => rjob.failures < MaxFailures
  /\ \A w \in Workers : worker[w].phase = "finish" /\ rjob.status = "inflight" /\ rjob.token = w
                          => run.status = "done"

\* Outcomes come from the provider, where they are final: a fetched statement may
\* be old, but never says another outcome.
OutcomesAgree ==
  /\ \A o \in Ops : local[o] \in Terminal => psp[o] = local[o]
  /\ \A w \in Workers : worker[w].phase = "compare" =>
       \A o \in Ops : worker[w].statement[o] \in Terminal => psp[o] = worker[w].statement[o]

ReconcileIInv == ReconcileShapes /\ JobAndRun /\ OutcomesAgree /\ DifferencesAreUnfinished

-----------------------------------------------------------------------------

\* Nothing is scheduled, nothing is learned.
LEMMA ReconcileInitIInv ==
  ASSUME ReconcileAssumption, ReconcileInit
  PROVE  ReconcileIInv
<1>1. ReconcileShapes
  <2>0. 0 \in 0..MaxFailures
    BY DEF ReconcileAssumption
  <2>1. rjob = [status |-> "none", failures |-> 0, token |-> "none", lapsed |-> FALSE]
    BY Zenon DEF ReconcileInit, Requeued
  <2>j. rjob \in [status : {"none", "pending", "inflight", "done", "dead"}, failures : 0..MaxFailures,
                 token : Workers \cup {"none"}, lapsed : BOOLEAN]
    BY <2>0, <2>1
  <2>r. run.status = "none"
    BY DEF ReconcileInit
  <2>2. local \in [Ops -> Statuses] /\ psp \in Statements
    BY DEF ReconcileInit, Statuses, Statements
  <2>3. worker \in [Workers -> [phase : {"idle", "fetch", "finish", "fail"}]
                               \cup [phase : {"compare"}, statement : Statements]]
    BY DEF ReconcileInit, Idle
  <2> QED
    BY <2>j, <2>r, <2>2, <2>3 DEF ReconcileShapes
<1>2. JobAndRun
  BY DEF ReconcileInit, JobAndRun, RunFollowsJob, Requeued, Idle, ReconcileAssumption
<1>3. OutcomesAgree
  BY DEF ReconcileInit, OutcomesAgree, Terminal, Idle
<1>4. DifferencesAreUnfinished
  BY DEF ReconcileInit, DifferencesAreUnfinished
<1> QED
  BY <1>1, <1>2, <1>3, <1>4 DEF ReconcileIInv

\* A comparison with an old statement finds no two outcomes of one operation.
LEMMA NoContradiction ==
  ASSUME ReconcileShapes, OutcomesAgree, NEW w \in Workers, worker[w].phase = "compare",
         NEW v \in Differences(worker[w].statement)
  PROVE  ~(v.local \in Terminal /\ v.provider \in Terminal)
<1> DEFINE st == worker[w].statement
<1>1. PICK o \in Ops : /\ Reason(o, st) # "none"
                       /\ v = [reason |-> Reason(o, st), op |-> o, local |-> local[o], provider |-> st[o]]
  BY DEF Differences
<1>2. SUFFICES ASSUME local[o] \in Terminal, st[o] \in Terminal PROVE FALSE
  BY <1>1
<1>3. local[o] = st[o]
  BY <1>2 DEF OutcomesAgree
<1>4. local[o] # "none" /\ st[o] # "none"
  BY <1>2 DEF Terminal
<1> QED
  BY <1>1, <1>3, <1>4 DEF Reason

\* Steps of the operations and of the provider.
LEMMA RowsStep ==
  ASSUME ReconcileAssumption, ReconcileIInv, UNCHANGED <<run, rjob, worker, reviews>>,
         \/ \E o \in Ops : Accept(o) \/ Learns(o) \/ BecomesUnknown(o)
         \/ \E o \in Ops, status \in {"PENDING"} \cup Terminal : ProviderMoves(o, status)
  PROVE  ReconcileIInv'
<1>t. ReconcileShapes /\ JobAndRun /\ OutcomesAgree /\ DifferencesAreUnfinished
  BY DEF ReconcileIInv
<1>1. JobAndRun' /\ DifferencesAreUnfinished'
  BY <1>t DEF JobAndRun, RunFollowsJob, DifferencesAreUnfinished
<1>2. ASSUME NEW o \in Ops, Accept(o) PROVE ReconcileShapes' /\ OutcomesAgree'
  BY <1>2, <1>t DEF Accept, ReconcileShapes, OutcomesAgree, Statuses, Terminal
<1>3. ASSUME NEW o \in Ops, Learns(o) PROVE ReconcileShapes' /\ OutcomesAgree'
  <2>1. local' = [local EXCEPT ![o] = psp[o]] /\ psp' = psp
    BY <1>3 DEF Learns
  <2>2. psp[o] \in Statuses
    BY <1>t DEF ReconcileShapes, Statements, Statuses
  <2>3. ReconcileShapes'
    BY <2>1, <2>2, <1>t DEF ReconcileShapes
  <2>4. OutcomesAgree'
    BY <2>1, <1>t DEF OutcomesAgree, ReconcileShapes
  <2> QED
    BY <2>3, <2>4
<1>4. ASSUME NEW o \in Ops, BecomesUnknown(o) PROVE ReconcileShapes' /\ OutcomesAgree'
  BY <1>4, <1>t DEF BecomesUnknown, ReconcileShapes, OutcomesAgree, Statuses, Terminal
<1>5. ASSUME NEW o \in Ops, NEW status \in {"PENDING"} \cup Terminal, ProviderMoves(o, status)
      PROVE ReconcileShapes' /\ OutcomesAgree'
  <2>1. psp' = [psp EXCEPT ![o] = status] /\ local' = local /\ psp[o] \notin Terminal
    BY <1>5 DEF ProviderMoves
  <2>2. ReconcileShapes'
    BY <2>1, <1>t DEF ReconcileShapes, Statements
  <2>3. \A q \in Ops : psp[q] \in Terminal => psp'[q] = psp[q]
    BY <2>1, <1>t DEF ReconcileShapes, Statements
  <2>4. OutcomesAgree'
    BY <2>1, <2>3, <1>t DEF OutcomesAgree
  <2> QED
    BY <2>2, <2>4
<1> QED
  BY <1>1, <1>2, <1>3, <1>4, <1>5 DEF ReconcileIInv

\* Every step keeps the invariant.
LEMMA ReconcileNextIInv ==
  ASSUME ReconcileAssumption, ReconcileIInv, [ReconcileNext]_rvars
  PROVE  ReconcileIInv'
<1>t. ReconcileShapes /\ JobAndRun /\ OutcomesAgree /\ DifferencesAreUnfinished
  BY DEF ReconcileIInv
<1>m. MaxFailures \in Nat \ {0}
  BY DEF ReconcileAssumption
<1>j. /\ rjob.status \in {"none", "pending", "inflight", "done", "dead"} /\ rjob.failures \in 0..MaxFailures
      /\ rjob.token \in Workers \cup {"none"} /\ rjob.lapsed \in BOOLEAN
  BY <1>t DEF ReconcileShapes
<1>a. ASSUME UNCHANGED <<local, psp>>,
             \A w \in Workers : worker'[w] = worker[w] \/ worker'[w].phase # "compare"
                                \/ worker'[w].statement = psp
      PROVE  OutcomesAgree'
  BY <1>a, <1>t DEF OutcomesAgree
<1>1. ASSUME NEW o \in Ops, Accept(o) \/ Learns(o) \/ BecomesUnknown(o) PROVE ReconcileIInv'
  BY <1>1, RowsStep DEF Accept, Learns, BecomesUnknown
<1>2. ASSUME NEW o \in Ops, NEW status \in {"PENDING"} \cup Terminal, ProviderMoves(o, status) PROVE ReconcileIInv'
  BY <1>2, RowsStep DEF ProviderMoves
<1>3. CASE Schedule
  <2>1. /\ run.status = "none" /\ run'.status = "pending" /\ rjob' = Requeued
        /\ UNCHANGED <<local, psp, worker, reviews>>
    BY <1>3 DEF Schedule, rows
  <2>2. ReconcileShapes'
    BY <2>1, <1>t, <1>m DEF ReconcileShapes, Requeued
  <2>3. JobAndRun'
    BY <2>1, <1>t, <1>m DEF JobAndRun, RunFollowsJob, Requeued
  <2> QED
    BY <2>1, <2>2, <2>3, <1>a, <1>t DEF ReconcileIInv, DifferencesAreUnfinished
<1>4. CASE RunLeaseExpires
  <2>1. /\ rjob' = [rjob EXCEPT !.lapsed = TRUE] /\ UNCHANGED <<local, psp, run, worker, reviews>>
    BY <1>4 DEF RunLeaseExpires, rows
  <2>2. ReconcileShapes'
    BY <2>1, <1>t DEF ReconcileShapes
  <2>3. rjob'.status = rjob.status /\ rjob'.failures = rjob.failures /\ rjob'.token = rjob.token
    BY <2>1, <1>t DEF ReconcileShapes
  <2>4. JobAndRun'
    BY <2>1, <2>3, <1>t DEF JobAndRun, RunFollowsJob
  <2> QED
    BY <2>1, <2>2, <2>4, <1>a, <1>t DEF ReconcileIInv, DifferencesAreUnfinished
<1>5. CASE RetryJob
  <2>1. /\ rjob.status = "dead" /\ rjob' = Requeued /\ run'.status = "pending"
        /\ UNCHANGED <<local, psp, worker, reviews>>
    BY <1>5 DEF RetryJob, rows
  <2>2. ReconcileShapes'
    BY <2>1, <1>t, <1>m DEF ReconcileShapes, Requeued
  <2>3. JobAndRun'
    BY <2>1, <1>t, <1>m DEF JobAndRun, RunFollowsJob, Requeued
  <2> QED
    BY <2>1, <2>2, <2>3, <1>a, <1>t DEF ReconcileIInv, DifferencesAreUnfinished
<1>6. ASSUME NEW w \in Workers, ClaimRun(w) PROVE ReconcileIInv'
  <2>1. /\ rjob' = Claims(w) /\ worker' = [worker EXCEPT ![w] = [phase |-> "fetch"]]
        /\ rjob.status \in {"pending", "inflight"} /\ UNCHANGED <<local, psp, run, reviews>>
    BY <1>6 DEF ClaimRun, RunClaimable, rows
  <2>2. ReconcileShapes'
    BY <2>1, <1>t, <1>j DEF ReconcileShapes, Claims
  <2>3. \A x \in Workers : worker'[x] = IF x = w THEN [phase |-> "fetch"] ELSE worker[x]
    BY <2>1, <1>t DEF ReconcileShapes
  <2>4. rjob'.status = "inflight" /\ rjob'.failures = rjob.failures /\ rjob'.token = w
    BY <2>1 DEF Claims
  <2>5. JobAndRun'
    BY <2>1, <2>3, <2>4, <1>t DEF JobAndRun, RunFollowsJob
  <2> QED
    BY <2>1, <2>2, <2>3, <2>5, <1>a, <1>t DEF ReconcileIInv, DifferencesAreUnfinished
<1>7. ASSUME NEW w \in Workers, FetchStatement(w) PROVE ReconcileIInv'
  <2>1. /\ worker' = [worker EXCEPT ![w] = [phase |-> "compare", statement |-> psp]]
        /\ UNCHANGED <<local, psp, run, rjob, reviews>>
    BY <1>7 DEF FetchStatement, rows
  <2>2. ReconcileShapes'
    BY <2>1, <1>t DEF ReconcileShapes
  <2>3. \A x \in Workers : worker'[x] = IF x = w THEN [phase |-> "compare", statement |-> psp] ELSE worker[x]
    BY <2>1, <1>t DEF ReconcileShapes
  <2>4. JobAndRun'
    BY <2>1, <2>3, <1>t DEF JobAndRun, RunFollowsJob
  <2> QED
    BY <2>1, <2>2, <2>3, <2>4, <1>a, <1>t DEF ReconcileIInv, DifferencesAreUnfinished
<1>8. ASSUME NEW w \in Workers, Compare(w) PROVE ReconcileIInv'
  <2>1. /\ worker[w].phase = "compare"
        /\ worker' = [worker EXCEPT ![w] = [phase |-> IF run.status = "done" \/ OwnsRun(w) THEN "finish" ELSE "fail"]]
        /\ UNCHANGED <<local, psp, rjob>>
    BY <1>8 DEF Compare, rows
  <2>2. \/ UNCHANGED <<run, reviews>> /\ (run.status = "done" \/ ~OwnsRun(w))
        \/ OwnsRun(w) /\ run'.status = "done" /\ reviews' = reviews \cup Differences(worker[w].statement)
    BY <1>8 DEF Compare
  <2>3. ReconcileShapes'
    BY <2>1, <2>2, <1>t DEF ReconcileShapes
  <2>4. \A x \in Workers : worker'[x] = IF x = w
             THEN [phase |-> IF run.status = "done" \/ OwnsRun(w) THEN "finish" ELSE "fail"] ELSE worker[x]
    BY <2>1, <1>t DEF ReconcileShapes
  <2>5. JobAndRun'
    <3>1. CASE UNCHANGED run /\ (run.status = "done" \/ ~OwnsRun(w))
      BY <3>1, <2>1, <2>4, <1>t DEF JobAndRun, RunFollowsJob
    <3>2. CASE OwnsRun(w) /\ run'.status = "done"
      BY <3>2, <2>1, <2>4, <1>t DEF JobAndRun, RunFollowsJob, OwnsRun
    <3> QED
      BY <2>2, <3>1, <3>2
  <2>6. DifferencesAreUnfinished'
    BY <2>1, <2>2, <1>t, NoContradiction DEF DifferencesAreUnfinished
  <2> QED
    BY <2>1, <2>3, <2>4, <2>5, <2>6, <1>a DEF ReconcileIInv
<1>9. ASSUME NEW w \in Workers, FinishJob(w) PROVE ReconcileIInv'
  <2> DEFINE error    == worker[w].phase = "fail"
             failures == rjob.failures + IF error THEN 1 ELSE 0
             dead     == failures >= MaxFailures
  <2>1. /\ worker[w].phase \in {"finish", "fail"}
        /\ worker' = [worker EXCEPT ![w] = Idle]
        /\ UNCHANGED <<local, psp>>
    BY <1>9 DEF FinishJob, rows
  <2>2. \/ UNCHANGED <<rjob, run, reviews>>
        \/ /\ OwnsRun(w)
           /\ rjob' = [Requeued EXCEPT !.failures = failures,
                                      !.status = IF dead THEN "dead" ELSE IF error THEN "pending" ELSE "done"]
           /\ run' = IF dead THEN Failed ELSE run
           /\ reviews' = IF dead THEN reviews \cup {Exhausted} ELSE reviews
    BY <1>9 DEF FinishJob
  <2>3. \A x \in Workers : worker'[x] = IF x = w THEN Idle ELSE worker[x]
    BY <2>1, <1>t DEF ReconcileShapes
  <2>w. worker' \in [Workers -> [phase : {"idle", "fetch", "finish", "fail"}]
                              \cup [phase : {"compare"}, statement : Statements]]
    BY <2>1, <1>t DEF ReconcileShapes, Idle
  <2>4. CASE UNCHANGED <<rjob, run, reviews>>
    <3>1. ReconcileShapes'
      BY <2>1, <2>w, <2>4, <1>t DEF ReconcileShapes
    <3>2. JobAndRun'
      BY <2>1, <2>3, <2>4, <1>t DEF JobAndRun, RunFollowsJob, Idle
    <3> QED
      BY <2>1, <2>3, <2>4, <3>1, <3>2, <1>a, <1>t DEF ReconcileIInv, DifferencesAreUnfinished, Idle
  <2>5. CASE /\ OwnsRun(w)
             /\ rjob' = [Requeued EXCEPT !.failures = failures,
                                        !.status = IF dead THEN "dead" ELSE IF error THEN "pending" ELSE "done"]
             /\ run' = IF dead THEN Failed ELSE run
             /\ reviews' = IF dead THEN reviews \cup {Exhausted} ELSE reviews
    <3>1. rjob.status = "inflight" /\ rjob.token = w
      BY <2>5 DEF OwnsRun
    <3>2. rjob.failures < MaxFailures
      BY <3>1, <1>t DEF JobAndRun
    <3>3. failures \in 0..MaxFailures /\ (dead => error)
      BY <3>2, <1>j, <1>m
    <3>4. rjob' = [status |-> IF dead THEN "dead" ELSE IF error THEN "pending" ELSE "done",
                  failures |-> failures, token |-> "none", lapsed |-> FALSE]
      BY <2>5 DEF Requeued
    <3>5. /\ rjob'.status = IF dead THEN "dead" ELSE IF error THEN "pending" ELSE "done"
          /\ rjob'.failures = failures /\ rjob'.token = "none" /\ rjob'.lapsed = FALSE
      BY <3>4
    <3>6. rjob' \in [status : {"none", "pending", "inflight", "done", "dead"}, failures : 0..MaxFailures,
                    token : Workers \cup {"none"}, lapsed : BOOLEAN]
      BY <3>3, <3>4
    <3>7. run'.status = IF dead THEN "failed" ELSE run.status
      BY <2>5 DEF Failed
    <3>8. ReconcileShapes'
      BY <2>1, <2>w, <3>6, <3>7, <1>t DEF ReconcileShapes
    <3>9. run.status \in {"pending", "done"} /\ (~error => run.status = "done")
      BY <3>1, <2>1, <1>t DEF JobAndRun, RunFollowsJob, ReconcileShapes
    <3>10. JobAndRun'
      <4>1. RunFollowsJob'
        BY <3>3, <3>5, <3>7, <3>9 DEF RunFollowsJob
      <4>2. rjob'.status = "none" <=> run'.status = "none"
        BY <3>5, <3>7, <3>9
      <4>3. rjob'.status \in {"pending", "inflight"} => rjob'.failures < MaxFailures
        BY <3>3, <3>5, <1>m
      <4>4. rjob'.status # "inflight"
        BY <3>5
      <4> QED
        BY <4>1, <4>2, <4>3, <4>4 DEF JobAndRun
    <3>11. DifferencesAreUnfinished'
      BY <2>5, <1>t DEF DifferencesAreUnfinished, Exhausted, Terminal
    <3> QED
      BY <2>1, <2>3, <3>8, <3>10, <3>11, <1>a DEF ReconcileIInv, Idle
  <2> QED
    BY <2>2, <2>4, <2>5
<1>10. ASSUME NEW w \in Workers, CallFails(w) \/ WorkerStops(w) PROVE ReconcileIInv'
  <2>1. /\ worker' = [worker EXCEPT ![w] = [phase |-> "fail"]] \/ worker' = [worker EXCEPT ![w] = [phase |-> "idle"]]
        /\ UNCHANGED <<local, psp, run, rjob, reviews>>
    BY <1>10 DEF CallFails, WorkerStops, rows, Idle
  <2>2. ReconcileShapes'
    BY <2>1, <1>t DEF ReconcileShapes
  <2>3. \A x \in Workers : worker'[x] = worker[x] \/ worker'[x].phase \in {"fail", "idle"}
    BY <2>1, <1>t DEF ReconcileShapes
  <2>4. JobAndRun'
    BY <2>1, <2>3, <1>t DEF JobAndRun, RunFollowsJob
  <2> QED
    BY <2>1, <2>2, <2>3, <2>4, <1>a, <1>t DEF ReconcileIInv, DifferencesAreUnfinished
<1>11. CASE UNCHANGED rvars
  BY <1>11, <1>t DEF rvars, rows, ReconcileIInv, ReconcileShapes, JobAndRun, RunFollowsJob, OutcomesAgree, DifferencesAreUnfinished
<1> QED
  BY <1>1, <1>2, <1>3, <1>4, <1>5, <1>6, <1>7, <1>8, <1>9, <1>10, <1>11 DEF ReconcileNext, WorkerStep

\* A run is completed by a comparison of the worker that owns its job.
LEMMA CompletedByOwner ==
  ASSUME ReconcileIInv, [ReconcileNext]_rvars, run.status # "done", run'.status = "done"
  PROVE  \E w \in Workers : OwnsRun(w) /\ worker[w].phase = "compare"
<1>1. ASSUME NEW w \in Workers, Compare(w) PROVE OwnsRun(w) /\ worker[w].phase = "compare"
  BY <1>1 DEF Compare
<1>2. \A o \in Ops : Accept(o) \/ Learns(o) \/ BecomesUnknown(o) => run' = run
  BY DEF Accept, Learns, BecomesUnknown
<1>3. \A o \in Ops, status \in {"PENDING"} \cup Terminal : ProviderMoves(o, status) => run' = run
  BY DEF ProviderMoves
<1>4. ~Schedule
  <2>1. SUFFICES ASSUME Schedule PROVE FALSE
    OBVIOUS
  <2>2. run' = [run EXCEPT !.status = "pending"]
    BY <2>1 DEF Schedule
  <2> QED
    BY <2>2
<1>5. RunLeaseExpires \/ UNCHANGED rvars => run' = run
  BY DEF RunLeaseExpires, rvars
<1>6. RetryJob => run'.status = "pending"
  BY DEF RetryJob
<1>7. \A w \in Workers : ClaimRun(w) \/ FetchStatement(w) \/ CallFails(w) \/ WorkerStops(w) => run' = run
  BY DEF ClaimRun, FetchStatement, CallFails, WorkerStops
<1>8. ASSUME NEW w \in Workers, FinishJob(w) PROVE FALSE
  BY <1>8 DEF FinishJob, Failed
<1> QED
  BY <1>1, <1>2, <1>3, <1>4, <1>5, <1>6, <1>7, <1>8 DEF ReconcileNext, WorkerStep

-----------------------------------------------------------------------------

\* The inductive invariant holds in every reachable state.
THEOREM ReconcileInvariant ==
  ASSUME ReconcileAssumption
  PROVE  ReconcileSpec => []ReconcileIInv
<1>1. ReconcileInit => ReconcileIInv
  BY ReconcileInitIInv
<1>2. ReconcileIInv /\ [ReconcileNext]_rvars => ReconcileIInv'
  BY ReconcileNextIInv
<1> QED
  BY <1>1, <1>2, PTL DEF ReconcileSpec

\* What a reconciliation reports agrees with its job, and no review of an honest
\* provider shows two different outcomes, although the statement may be older
\* than the rows, two workers may work on one run, calls get lost after they took
\* effect and the dead job is retried (reconciliation.py, jobs.py).
THEOREM ReviewsAreSound ==
  ASSUME ReconcileAssumption
  PROVE  ReconcileSpec => []ReviewsSound
<1>1. ReconcileIInv => ReviewsSound
  BY DEF ReconcileIInv, ReconcileShapes, ReconcileTypeOK, JobAndRun, ReviewsSound, Statuses, Statements
<1> QED
  BY <1>1, ReconcileInvariant, PTL

\* Only the worker with the live claim completes a run (reconcile).
THEOREM OwnerCompletes ==
  ASSUME ReconcileAssumption
  PROVE  ReconcileSpec => OnlyOwnerCompletes
<1>1. ReconcileIInv /\ [ReconcileNext]_rvars =>
        [run.status # "done" /\ run'.status = "done" =>
           \E w \in Workers : OwnsRun(w) /\ worker[w].phase = "compare"]_rvars
  BY CompletedByOwner
<1> QED
  BY <1>1, ReconcileInvariant, PTL DEF ReconcileSpec, OnlyOwnerCompletes

=============================================================================
