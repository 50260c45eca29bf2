-------------------------- MODULE MetricsAlerts --------------------------
(***************************************************************************)
(* Alerting of the metrics monitor: rules and silences (alerts.py),        *)
(* evaluation from one read snapshot published under a version check       *)
(* (alert_evaluation.py), and grouped, leased notification delivery        *)
(* (alert_delivery.py) to an external provider (alert_providers.py).       *)
(*                                                                         *)
(* An alert is a pair of a rule and a series.  What a rule's aggregation   *)
(* reads from the recent samples of a series is abstracted to a level: no  *)
(* data, below or above the threshold.  The clock may step back.           *)
(***************************************************************************)
EXTENDS Integers, Sequences, FiniteSets, SequencesExt, FiniteSetsExt

CONSTANTS Rules,        \* rule ids
          Series,       \* time series the rules select
          GroupOf,      \* alert -> notification group
          For,          \* rule's for_seconds
          MaxAge,       \* rule's max_age
          Evaluators,   \* processes that evaluate
          Senders,      \* processes that deliver
          MaxAttempts,  \* delivery attempts
          Backoff,      \* delay after a failed attempt
          SilenceFor,   \* length of a silence
          MaxLevels,    \* changes of the samples
          MaxEvaluations, MaxTime, MaxSilences, MaxFaults

VARIABLES rules,        \* imported rules
          level,        \* series -> what its samples read now
          alerts,       \* alert -> {} or its row
          evaluations,  \* rule -> version and time of the last accepted evaluation
          evaluator,    \* evaluator -> its snapshot
          silences,     \* [match: set of series, start, end]
          events,       \* rows of the events table
          deliveries,   \* rows of the deliveries table, in seq order
          sender,       \* sender -> its claim
          received,     \* history: deliveries the provider took, in order
          now, levels, faults

vars == <<rules, level, alerts, evaluations, evaluator, silences, events, deliveries, sender,
          received, now, levels, faults>>

Alerts == Rules \X Series
Assumption == For >= 0 /\ MaxAge >= 0 /\ MaxAttempts > 0 /\ SilenceFor > 0 /\ Backoff >= 0

---------------------------------------------------------------------------
(* Rules, samples, silences *)

\* A known id with the same body changes nothing; with another body: 409.
PutRule(r) ==
    /\ r \notin rules
    /\ rules' = rules \cup {r}
    /\ UNCHANGED <<level, alerts, evaluations, evaluator, silences, events, deliveries, sender,
                   received, now, levels, faults>>

SamplesChange(s, v) ==
    /\ levels < MaxLevels
    /\ v # level[s]
    /\ level' = [level EXCEPT ![s] = v]
    /\ levels' = levels + 1
    /\ UNCHANGED <<rules, alerts, evaluations, evaluator, silences, events, deliveries, sender,
                   received, now, faults>>

Silence(S) ==
    /\ Cardinality(silences) < MaxSilences
    /\ silences' = silences \cup {[match |-> S, start |-> now, end |-> now + SilenceFor]}
    /\ UNCHANGED <<rules, level, alerts, evaluations, evaluator, events, deliveries, sender,
                   received, now, levels, faults>>

SilencedUntil(s, t) ==
    Max({0} \cup {q.end : q \in {x \in silences : s \in x.match /\ x.start <= t /\ t < x.end}})

Tick ==
    /\ now < MaxTime
    /\ now' = now + 1
    /\ UNCHANGED <<rules, level, alerts, evaluations, evaluator, silences, events, deliveries,
                   sender, received, levels, faults>>

ClockStepsBack ==
    /\ faults < MaxFaults
    /\ now > 0
    /\ now' = now - 1
    /\ faults' = faults + 1
    /\ UNCHANGED <<rules, level, alerts, evaluations, evaluator, silences, events, deliveries,
                   sender, received, levels>>

---------------------------------------------------------------------------
(* Evaluation *)

\* next_state: the row an alert gets at time t from its previous row ({} or
\* one) and the value read.
NextState(previous, value, t) ==
    LET p     == IF previous = {} THEN [state |-> "inactive", since |-> t, transition |-> 0,
                                        updated |-> t]
                 ELSE CHOOSE x \in previous : TRUE
        gap   == p.state = "pending" /\ t - p.updated > MaxAge
        old   == IF gap THEN "inactive" ELSE p.state
        start == IF gap THEN t ELSE p.since
        since == CASE value = "none" -> IF old = "firing" THEN start ELSE t
                   [] value = "low"  -> t
                   [] OTHER          -> IF old \in {"pending", "firing"} THEN start ELSE t
        state == CASE value = "none" -> IF old = "firing" THEN "firing" ELSE "inactive"
                   [] value = "low"  -> IF old = "firing" THEN "resolved" ELSE "inactive"
                   [] OTHER          -> IF old = "firing" \/ t - since >= For THEN "firing"
                                        ELSE "pending"
        emit  == \/ value = "high" /\ state = "firing" /\ old # "firing"
                 \/ value = "low" /\ old = "firing"
    IN [row |-> [state |-> state, since |-> since, updated |-> t,
                 transition |-> p.transition + (IF emit THEN 1 ELSE 0)],
        emit |-> emit]

Idle == [pc |-> "idle", rule |-> {}, at |-> 0, version |-> 0, tries |-> 0, updates |-> <<>>]

\* One read transaction pins samples, rows and version; a clock behind the
\* accepted time ends the rule's evaluation.
EvaluationSnapshot(e, r) ==
    /\ evaluations[r].version < MaxEvaluations
    /\ \/ evaluator[e].pc = "idle" /\ r \in rules
       \/ evaluator[e].pc = "again" /\ evaluator[e].rule = {r}
    /\ evaluator' = [evaluator EXCEPT ![e] =
          IF now < evaluations[r].updated THEN Idle
          ELSE [@ EXCEPT !.pc = "accept", !.rule = {r}, !.at = now,
                         !.version = evaluations[r].version,
                         !.updates = [s \in Series |-> NextState(alerts[<<r, s>>], level[s], now)]]]
    /\ UNCHANGED <<rules, level, alerts, evaluations, silences, events, deliveries, sender,
                   received, now, levels, faults>>

\* Mutant: only the clock is compared.
Current_TimeOnly(e, r) == evaluations[r].updated <= evaluator[e].at

\* The version check of the publishing transaction.
Current(e, r) ==
    /\ evaluations[r].version = evaluator[e].version
    /\ evaluations[r].updated <= evaluator[e].at

NewEvents(r, e) ==
    {[alert |-> <<r, s>>, transition |-> evaluator[e].updates[s].row.transition,
      state |-> evaluator[e].updates[s].row.state, at |-> evaluator[e].at,
      due |-> SilencedUntil(s, evaluator[e].at), batch |-> 0, status |-> "pending"]
        : s \in {x \in Series : evaluator[e].updates[x].emit}}

Key(ev) == <<ev.alert, ev.transition>>

AcceptEvaluation(e) ==
    \E r \in evaluator[e].rule :
       LET u == evaluator[e].updates IN
       /\ evaluator[e].pc = "accept"
       /\ IF Current(e, r)
          THEN /\ evaluations' = [evaluations EXCEPT
                        ![r] = [version |-> @.version + 1, updated |-> evaluator[e].at]]
               /\ alerts' = [a \in Alerts |-> IF a[1] = r THEN {u[a[2]].row} ELSE alerts[a]]
               /\ events' = events \cup
                     {n \in NewEvents(r, e) : ~\E v \in events : Key(v) = Key(n)}
               /\ evaluator' = [evaluator EXCEPT ![e] = Idle]
          ELSE /\ evaluator' = [evaluator EXCEPT ![e] =
                     IF @.tries = 2 THEN Idle
                     ELSE [Idle EXCEPT !.pc = "again", !.rule = {r},
                                       !.tries = evaluator[e].tries + 1]]
               /\ UNCHANGED <<evaluations, alerts, events>>
       /\ UNCHANGED <<rules, level, silences, deliveries, sender, received, now, levels, faults>>

---------------------------------------------------------------------------
(* Delivery *)

NoClaim == [pc |-> "idle", task |-> 0, token |-> 0, at |-> 0]

\* Due events that no batch holds: the ones their alert has moved past are
\* superseded, silenced ones wait, the rest become one batch per group.
Due(ev) == ev.status = "pending" /\ ev.batch = 0 /\ ev.due <= now
Moved(ev) == ~\E x \in alerts[ev.alert] : x.transition = ev.transition
Ready(ev) == Due(ev) /\ ~Moved(ev) /\ SilencedUntil(ev.alert[2], now) <= now

Materialized ==
    LET groups == SetToSeq({GroupOf[v.alert] : v \in {x \in events : Ready(x)}})
        base   == Len(deliveries)
        number(v) == base + CHOOSE n \in DOMAIN groups : groups[n] = GroupOf[v.alert]
    IN [events |-> {CASE Ready(v) -> [v EXCEPT !.batch = number(v)]
                      [] Due(v) /\ Moved(v) -> [v EXCEPT !.status = "superseded"]
                      [] Due(v) /\ ~Moved(v) /\ ~Ready(v) ->
                            [v EXCEPT !.due = SilencedUntil(v.alert[2], now)]
                      [] OTHER -> v : v \in events},
        deliveries |-> deliveries \o [n \in DOMAIN groups |->
            [group |-> groups[n], due |-> now, attempts |-> 0, lease |-> {}, live |-> FALSE,
             status |-> "pending"]]]

\* A delivery whose last attempt's lease passed is dead; so are its events.
Buried(m) ==
    LET dead(d) == d.status = "pending" /\ d.attempts >= MaxAttempts /\ ~d.live IN
    [deliveries |-> [i \in DOMAIN m.deliveries |->
        IF dead(m.deliveries[i])
        THEN [m.deliveries[i] EXCEPT !.status = "dead", !.lease = {}] ELSE m.deliveries[i]],
     events |-> {IF v.batch # 0 /\ dead(m.deliveries[v.batch])
                 THEN [v EXCEPT !.status = "dead"] ELSE v : v \in m.events}]

\* The oldest claimable delivery; an older pending one of the group holds back.
Tasks(D) ==
    {i \in DOMAIN D :
        /\ D[i].status = "pending" /\ D[i].attempts < MaxAttempts /\ D[i].due <= now /\ ~D[i].live
        /\ ~\E j \in 1..(i - 1) : D[j].group = D[i].group /\ D[j].status = "pending"}

NotifyClaim(w) ==
    LET m == Buried(Materialized)
        D == m.deliveries
        i == Min(Tasks(D))
        until == Max({now} \cup {SilencedUntil(v.alert[2], now) : v \in
                                    {x \in m.events : x.batch = i}})
    IN /\ sender[w].pc = "idle"
       /\ events' = m.events
       /\ IF Tasks(D) = {} THEN /\ deliveries' = D
                                /\ m # [events |-> events, deliveries |-> deliveries]
                                /\ UNCHANGED sender
          ELSE IF until > now THEN /\ deliveries' = [D EXCEPT ![i].due = until]
                                   /\ UNCHANGED sender
          ELSE /\ deliveries' = [D EXCEPT ![i].lease = {D[i].attempts + 1}, ![i].live = TRUE,
                                          ![i].attempts = @ + 1]
               /\ sender' = [sender EXCEPT ![w] = [pc |-> "claimed", task |-> i, at |-> now,
                                                   token |-> D[i].attempts + 1]]
       /\ UNCHANGED <<rules, level, alerts, evaluations, evaluator, silences, received, now,
                      levels, faults>>

\* outcome: confirmed, taken but the answer lost, or not taken.
Deliver(w, outcome) ==
    /\ sender[w].pc = "claimed"
    /\ outcome = "ok" \/ faults < MaxFaults
    /\ faults' = IF outcome = "ok" THEN faults ELSE faults + 1
    /\ received' = IF outcome = "failed" THEN received ELSE Append(received, sender[w].task)
    /\ sender' = [sender EXCEPT ![w].pc = IF outcome = "ok" THEN "sent" ELSE "failed"]
    /\ UNCHANGED <<rules, level, alerts, evaluations, evaluator, silences, events, deliveries,
                   now, levels>>

\* The result counts only under the claim's lease.
NotifySettle(w) ==
    LET i       == sender[w].task
        held    == sender[w].token \in deliveries[i].lease
        last    == sender[w].token >= MaxAttempts
        outcome == IF sender[w].pc = "sent" THEN "sent" ELSE IF last THEN "dead" ELSE "pending"
    IN /\ sender[w].pc \in {"sent", "failed"}
       /\ IF held
          THEN /\ deliveries' = [deliveries EXCEPT
                    ![i].status = outcome, ![i].lease = {}, ![i].live = FALSE,
                    ![i].due = IF outcome = "sent" THEN @
                               ELSE Max({sender[w].at, now}) + Backoff]
               /\ events' = {IF v.batch = i /\ outcome # "pending"
                             THEN [v EXCEPT !.status = outcome] ELSE v : v \in events}
          ELSE UNCHANGED <<deliveries, events>>
       /\ sender' = [sender EXCEPT ![w] = NoClaim]
       /\ UNCHANGED <<rules, level, alerts, evaluations, evaluator, silences, received, now,
                      levels, faults>>

\* 30 seconds pass, or the sender is gone; a sender that still runs goes on.
LeaseLapses(i) ==
    /\ faults < MaxFaults
    /\ deliveries[i].live
    /\ deliveries' = [deliveries EXCEPT ![i].live = FALSE]
    /\ faults' = faults + 1
    /\ UNCHANGED <<rules, level, alerts, evaluations, evaluator, silences, events, sender,
                   received, now, levels>>

SenderCrashes(w) ==
    /\ faults < MaxFaults
    /\ sender[w].pc # "idle"
    /\ sender' = [sender EXCEPT ![w] = NoClaim]
    /\ faults' = faults + 1
    /\ UNCHANGED <<rules, level, alerts, evaluations, evaluator, silences, events, deliveries,
                   received, now, levels>>

---------------------------------------------------------------------------
Init ==
    /\ rules = {} /\ level = [s \in Series |-> "none"]
    /\ alerts = [a \in Alerts |-> {}]
    /\ evaluations = [r \in Rules |-> [version |-> 0, updated |-> -1]]
    /\ evaluator = [e \in Evaluators |-> Idle]
    /\ silences = {} /\ events = {} /\ deliveries = <<>>
    /\ sender = [w \in Senders |-> NoClaim]
    /\ received = <<>> /\ now = 0 /\ levels = 0 /\ faults = 0

AlertsStep ==
    \/ \E r \in Rules : PutRule(r)
    \/ \E s \in Series : \E v \in {"none", "low", "high"} : SamplesChange(s, v)
    \/ \E S \in (SUBSET Series) \ {{}} : Silence(S)
    \/ Tick \/ ClockStepsBack

EvaluationStep ==
    \E e \in Evaluators : AcceptEvaluation(e) \/ \E r \in Rules : EvaluationSnapshot(e, r)

DeliveryStep ==
    \/ \E w \in Senders : NotifyClaim(w) \/ NotifySettle(w) \/ SenderCrashes(w)
    \/ \E w \in Senders, o \in {"ok", "lost", "failed"} : Deliver(w, o)
    \/ \E i \in DOMAIN deliveries : LeaseLapses(i)

Next == AlertsStep \/ EvaluationStep \/ DeliveryStep

Spec == Init /\ [][Next]_vars

---------------------------------------------------------------------------
(* Properties *)

TypeOK ==
    /\ \A a \in Alerts : \A x \in alerts[a] :
          x.state \in {"inactive", "pending", "firing", "resolved"} /\ x.since <= x.updated
    /\ \A i \in DOMAIN deliveries :
          /\ deliveries[i].status \in {"pending", "sent", "dead"}
          /\ deliveries[i].attempts \in 0..MaxAttempts
    /\ \A v \in events : v.status \in {"pending", "superseded", "sent", "dead"}

\* Whatever evaluators race and however the clock steps, an alert's
\* transitions are numbered without gap or repeat, each has one event,
\* firings and resolutions alternate, and the accepted times never go back.
TransitionsExact ==
    \A a \in Alerts : \A x \in alerts[a] :
        LET mine == {v \in events : v.alert = a} IN
        /\ {v.transition : v \in mine} = 1..x.transition
        /\ Cardinality(mine) = x.transition
        /\ x.state = "firing" <=> x.transition % 2 = 1
        /\ \A v \in mine : v.state = IF v.transition % 2 = 1 THEN "firing" ELSE "resolved"
        /\ \A v, u \in mine : v.transition < u.transition => v.at <= u.at
        /\ x.updated = evaluations[a[1]].updated

FirstTaken(i) == Min({n \in DOMAIN received : received[n] = i})

\* Every event has one fate: it waits, is superseded by a later transition of
\* its alert, or shares the status of the one delivery that carries it; a sent
\* delivery was taken by the provider, a dead one used its attempts; and
\* deliveries of a group are first taken in order, except one given up while
\* its last sender was still at it.
EventsAccounted ==
    /\ \A v \in events :
          /\ v.status = "superseded" =>
                v.batch = 0 /\ \A x \in alerts[v.alert] : x.transition > v.transition
          /\ v.batch # 0 => v.status = deliveries[v.batch].status
                            /\ GroupOf[v.alert] = deliveries[v.batch].group
          /\ v.batch = 0 => v.status \in {"pending", "superseded"}
    /\ \A i \in DOMAIN deliveries :
          /\ deliveries[i].status = "sent" => i \in Range(received)
          /\ deliveries[i].status = "dead" => deliveries[i].attempts = MaxAttempts
          /\ \E v \in events : v.batch = i
    /\ \A i, j \in Range(received) :
          (i < j /\ deliveries[i].group = deliveries[j].group /\ FirstTaken(i) > FirstTaken(j))
             => deliveries[i].status = "dead"

AlertsSound == TypeOK /\ TransitionsExact /\ EventsAccounted
===========================================================================
