-------------------------- MODULE PrivacyDeletion --------------------------
(***************************************************************************)
(* Privacy deletion requests: the rows of privacy_requests,                *)
(* privacy_request_steps and outbox_events, the outbox workers that        *)
(* deliver deletion events to Metric, and the privacy workers that erase   *)
(* the live YDB records once every Metric receipt is in.                   *)
(*                                                                         *)
(* Every store function runs in one serializable YDB transaction, so it is *)
(* one atomic step.  What is not atomic is a worker's loop: it claims a    *)
(* batch in one transaction, calls Metric, and settles each row in a later *)
(* transaction, by which time its five-minute lease may have lapsed and    *)
(* another worker may have claimed the same row.                           *)
(*                                                                         *)
(* Abstractions.  Time is one flag per row, "ready": available_at has come *)
(* for a waiting row, the lease has lapsed for a claimed one.  The version *)
(* column is kept as "holder", the worker whose claim wrote the row last:  *)
(* a row still has the version a worker's job carries exactly when that    *)
(* worker is still the holder.  Attempt counters saturate at MaxAttempts,  *)
(* the only value they are compared with.  A poll counter is only ever     *)
(* compared with zero, so it is a flag.                                    *)
(***************************************************************************)
EXTENDS Naturals, Sequences, FiniteSets, SequencesExt

CONSTANTS
    Requests,        \* identifiers of deletion requests
    Aliases,         \* pairwise product aliases that a request may fan out to
    OutboxWorkers,   \* concurrent executions of outbox.Worker.Process
    PrivacyWorkers,  \* concurrent executions of privacyworker.Worker.Process
    MaxAttempts,     \* the workers' maxAttempts
    OutboxBatch,     \* limit of ClaimOutbox (20 in the code)
    ErasureBatch,    \* limit of ClaimPrivacyErasures (10 in the code)
    Nobody           \* holder of an unclaimed row

ASSUME MaxAttemptsAssumption == MaxAttempts \in Nat \ {0}
ASSUME BatchAssumption == OutboxBatch \in Nat \ {0} /\ ErasureBatch \in Nat \ {0}
ASSUME NobodyAssumption == Nobody \notin OutboxWorkers \cup PrivacyWorkers

VARIABLES
    request,     \* privacy_requests.status
    order,       \* requests by created_at
    metricStep,  \* status of the "metric" step of a request for an alias
    event,       \* the outbox event of that step
    erasure,     \* the "ydb" step of a request
    batch,       \* events an outbox worker has claimed and not settled yet
    outcome,     \* what deliver returned for the head of the batch
    jobs,        \* erasure jobs a privacy worker has claimed and not settled
    failed,      \* ErasePrivacyJob returned an error for the head of the jobs
    posted,      \* events that have been POSTed to Metric
    metricDone,  \* events whose deletion Metric has completed
    erased       \* requests whose subject was erased from YDB

rows == <<request, order, metricStep, event, erasure>>
outboxVars == <<batch, outcome>>
privacyVars == <<jobs, failed>>
world == <<posted, metricDone, erased>>
vars == <<rows, outboxVars, privacyVars, world>>

-----------------------------------------------------------------------------
Events == Requests \X Aliases
Active == {"requested", "processing"}
Withdrawn == {"rejected", "cancelled"}
Terminal == Withdrawn \cup {"completed"}

NoEvent == [status |-> "absent", attempts |-> 0, polled |-> FALSE,
            ready |-> FALSE, holder |-> Nobody]
NewEvent == [NoEvent EXCEPT !.status = "pending", !.ready = TRUE]
NoErasure == [status |-> "absent", attempts |-> 0, ready |-> FALSE, holder |-> Nobody]
NewErasure == [NoErasure EXCEPT !.status = "pending", !.ready = TRUE]

\* Attempts counters only matter up to MaxAttempts.
OneMore(n) == IF n < MaxAttempts THEN n + 1 ELSE n

\* What the UPDATE statements do to an outbox event.
LeasedEvent(row, w) == [row EXCEPT !.status = "processing", !.ready = FALSE, !.holder = w]
DeliveredEvent(row) == [row EXCEPT !.status = "delivered", !.holder = Nobody]
CancelledEvent(row) == [row EXCEPT !.status = "cancelled", !.holder = Nobody]
PolledEvent(row) == [row EXCEPT !.status = "pending", !.polled = TRUE,
                                !.ready = FALSE, !.holder = Nobody]
\* Mutant: a retried event takes the status vocabulary of the steps.
RetriedEventAsStep(row) ==
    [row EXCEPT !.status = IF row.attempts + 1 >= MaxAttempts THEN "manual_dlq" ELSE "retry",
                !.attempts = OneMore(row.attempts), !.ready = FALSE, !.holder = Nobody]

RetriedEvent(row) ==
    [row EXCEPT !.status = IF row.attempts + 1 >= MaxAttempts THEN "manual_dlq" ELSE "pending",
                !.attempts = OneMore(row.attempts), !.ready = FALSE, !.holder = Nobody]

\* And to a ydb step.
LeasedErasure(row, p) == [row EXCEPT !.status = "processing", !.ready = FALSE, !.holder = p,
                                     !.attempts = OneMore(row.attempts)]
CompletedErasure(row) == [row EXCEPT !.status = "completed", !.holder = Nobody]
CancelledErasure(row) == [row EXCEPT !.status = "cancelled", !.holder = Nobody]
RetriedErasure(row) ==
    [row EXCEPT !.status = IF row.attempts >= MaxAttempts THEN "manual_dlq" ELSE "retry",
                !.ready = FALSE, !.holder = Nobody]

\* available_at has come, or the lease has lapsed.
Due(row) == [row EXCEPT !.ready = TRUE]

-----------------------------------------------------------------------------
(* ORDER BY created_at LIMIT n: the rows a claim looks at, and the order in *)
(* which the worker then goes through the ones it claimed.                  *)

Older(r, s) == \E i, j \in DOMAIN order : i < j /\ order[i] = r /\ order[j] = s
OlderEvent(e, f) == Older(e[1], f[1])

Oldest(candidates, n, Before(_, _)) ==
    {S \in SUBSET candidates :
        /\ Cardinality(S) <= n
        /\ Cardinality(S) = n \/ S = candidates
        /\ \A x \in S, y \in candidates \ S : ~Before(y, x)}

InOrder(S, n, Before(_, _)) ==
    {q \in SeqOf(S, n) :
        /\ \A x \in S : \E i \in DOMAIN q : q[i] = x
        /\ \A i, j \in DOMAIN q : i < j => q[i] # q[j] /\ ~Before(q[j], q[i])}

-----------------------------------------------------------------------------
Init ==
    /\ request = [r \in Requests |-> "absent"]
    /\ order = <<>>
    /\ metricStep = [e \in Events |-> "absent"]
    /\ event = [e \in Events |-> NoEvent]
    /\ erasure = [r \in Requests |-> NoErasure]
    /\ batch = [w \in OutboxWorkers |-> <<>>]
    /\ outcome = [w \in OutboxWorkers |-> "none"]
    /\ jobs = [p \in PrivacyWorkers |-> <<>>]
    /\ failed = [p \in PrivacyWorkers |-> FALSE]
    /\ posted = {}
    /\ metricDone = {}
    /\ erased = {}

(* CreatePrivacyRequest: the request, one metric step and one outbox event  *)
(* per alias with a registered audience (there may be none), and one ydb    *)
(* step.  A repeated idempotency key returns the existing request.          *)
CreatePrivacyRequest(r) ==
    /\ request[r] = "absent"
    /\ \E fanout \in SUBSET Aliases :
          LET own == {r} \X fanout IN
          /\ metricStep' = [e \in Events |-> IF e \in own THEN "pending" ELSE metricStep[e]]
          /\ event' = [e \in Events |-> IF e \in own THEN NewEvent ELSE event[e]]
    /\ request' = [request EXCEPT ![r] = "requested"]
    /\ order' = Append(order, r)
    /\ erasure' = [erasure EXCEPT ![r] = NewErasure]
    /\ UNCHANGED <<outboxVars, privacyVars, world>>

ValidPrivacyTransition(from, to) ==
    \/ from = "requested" /\ to \in {"processing", "rejected", "cancelled"}
    \/ from = "processing" /\ to \in {"completed", "rejected", "cancelled"}

\* Mutant: a poll that found Metric still working does not count as a start.
DeliveryStartedUnlessPolled(r) ==
    \/ erasure[r].status # "pending" \/ erasure[r].attempts > 0
    \/ \E e \in {r} \X Aliases :
          \/ metricStep[e] \notin {"absent", "pending"}
          \/ event[e].status \notin {"absent", "pending"}
          \/ event[e].attempts > 0

privacyDeliveryStarted(r) ==
    \/ erasure[r].status # "pending" \/ erasure[r].attempts > 0
    \/ \E e \in {r} \X Aliases :
          \/ metricStep[e] \notin {"absent", "pending"}
          \/ event[e].status \notin {"absent", "pending"}
          \/ event[e].attempts > 0 \/ event[e].polled

\* Only reached when delivery has not started, yet it rewrites every child
\* that is not finished, as the two UPDATE statements do.
cancelPrivacyChildren(r) ==
    LET own == {r} \X Aliases IN
    /\ metricStep' = [e \in Events |->
                        IF e \in own /\ metricStep[e] \notin {"absent", "completed"}
                        THEN "cancelled" ELSE metricStep[e]]
    /\ event' = [e \in Events |->
                   IF e \in own /\ event[e].status \in {"pending", "processing", "manual_dlq"}
                   THEN CancelledEvent(event[e])
                   ELSE event[e]]
    /\ erasure' = [erasure EXCEPT ![r] =
                     IF @.status # "completed" THEN CancelledErasure(@) ELSE @]

\* Mutant: a request can be withdrawn after delivery has started.
WithdrawAnyTime(r, status) ==
    /\ status # "completed"
    /\ ValidPrivacyTransition(request[r], status)
    /\ request' = [request EXCEPT ![r] = status]
    /\ IF status \in Withdrawn THEN cancelPrivacyChildren(r)
                               ELSE UNCHANGED <<metricStep, event, erasure>>
    /\ UNCHANGED <<order, outboxVars, privacyVars, world>>

(* UpdatePrivacyRequestStatus: an operator reviews, rejects or cancels.     *)
UpdatePrivacyRequestStatus(r, status) ==
    /\ status # "completed"
    /\ ValidPrivacyTransition(request[r], status)
    /\ status \in Withdrawn => ~privacyDeliveryStarted(r)
    /\ request' = [request EXCEPT ![r] = status]
    /\ IF status \in Withdrawn THEN cancelPrivacyChildren(r)
                               ELSE UNCHANGED <<metricStep, event, erasure>>
    /\ UNCHANGED <<order, outboxVars, privacyVars, world>>

-----------------------------------------------------------------------------
(* The outbox worker: claim a batch, deliver its head, settle its head.     *)

\* Mutant: a lapsed lease is never taken over.
ClaimableWhenPending(e) == event[e].status = "pending" /\ event[e].ready

ClaimableEvent(e) == event[e].status \in {"pending", "processing"} /\ event[e].ready

\* ClaimOutbox looks at the oldest claimable rows, skips the ones whose
\* request is no longer active and leases the others.  When the commit is not
\* acknowledged the rows stay leased and the worker has nothing.
ClaimOutbox(w) ==
    /\ batch[w] = <<>>
    /\ \E S \in Oldest({e \in Events : ClaimableEvent(e)}, OutboxBatch, OlderEvent) :
          LET claimed == {e \in S : request[e[1]] \in Active} IN
          /\ claimed # {}
          /\ event' = [e \in Events |->
                         IF e \in claimed THEN LeasedEvent(event[e], w) ELSE event[e]]
          /\ \/ \E q \in InOrder(claimed, OutboxBatch, OlderEvent) :
                   batch' = [batch EXCEPT ![w] = q]
             \/ UNCHANGED batch
    /\ UNCHANGED <<request, order, metricStep, erasure, outcome, privacyVars, world>>

\* deliver POSTs the head of the batch.  A completed outcome is a 2xx answer
\* whose receipt names this event and says "completed"; anything else that is
\* not a pending answer is a failure, whether the POST reached Metric or not.
Deliver(w, result) ==
    /\ batch[w] # <<>> /\ outcome[w] = "none"
    /\ LET e == Head(batch[w]) IN
       \/ result = "failed" /\ UNCHANGED <<posted, metricDone>>
       \/ /\ posted' = posted \cup {e}
          /\ metricDone' \in {metricDone, metricDone \cup {e}}
          /\ result = "completed" => e \in metricDone'
    /\ outcome' = [outcome EXCEPT ![w] = result]
    /\ UNCHANGED <<rows, batch, privacyVars, erased>>

\* Metric finishes a deletion it has been asked for.
MetricCompletes(e) ==
    /\ e \in posted \ metricDone
    /\ metricDone' = metricDone \cup {e}
    /\ UNCHANGED <<rows, outboxVars, privacyVars, posted, erased>>

\* The worker goes on to the next event, or, when the commit was not
\* acknowledged, the same transaction is run again.
NextEvent(w) ==
    \/ batch' = [batch EXCEPT ![w] = Tail(@)] /\ outcome' = [outcome EXCEPT ![w] = "none"]
    \/ UNCHANGED outboxVars

MarkOutboxDelivered(w) ==
    /\ batch[w] # <<>> /\ outcome[w] = "completed"
    /\ LET e == Head(batch[w]) IN
       /\ event[e].status = "processing"
       /\ event' = [event EXCEPT ![e] = DeliveredEvent(@)]
       /\ metricStep' = [metricStep EXCEPT ![e] = "completed"]
    /\ NextEvent(w)
    /\ UNCHANGED <<request, order, erasure, privacyVars, world>>

RetryOutbox(w) ==
    /\ batch[w] # <<>> /\ outcome[w] = "failed"
    /\ LET e == Head(batch[w]) IN
       /\ event[e].status = "processing"
       /\ event' = [event EXCEPT ![e] = RetriedEvent(@)]
    /\ NextEvent(w)
    /\ UNCHANGED <<request, order, metricStep, erasure, privacyVars, world>>

RescheduleOutbox(w) ==
    /\ batch[w] # <<>> /\ outcome[w] = "pending"
    /\ LET e == Head(batch[w]) IN
       /\ event[e].status = "processing"
       /\ event' = [event EXCEPT ![e] = PolledEvent(@)]
    /\ NextEvent(w)
    /\ UNCHANGED <<request, order, metricStep, erasure, privacyVars, world>>

\* Process returns without touching the rest of the batch: the row was no
\* longer "processing", the store failed, or the process was stopped.
AbandonBatch(w) ==
    /\ batch[w] # <<>>
    /\ batch' = [batch EXCEPT ![w] = <<>>]
    /\ outcome' = [outcome EXCEPT ![w] = "none"]
    /\ UNCHANGED <<rows, privacyVars, world>>

-----------------------------------------------------------------------------
(* The privacy worker: claim jobs, erase the head, or put it back.          *)

ClaimableErasure(r) ==
    erasure[r].status \in {"pending", "retry", "processing"} /\ erasure[r].ready

\* Mutant: one completed step is taken for all of them.
SomeMetricStepComplete(r) ==
    \/ \E e \in {r} \X Aliases : metricStep[e] = "completed"
    \/ \A e \in {r} \X Aliases : metricStep[e] = "absent"

metricStepsComplete(r) ==
    \A e \in {r} \X Aliases : metricStep[e] \in {"absent", "completed"}

\* ClaimPrivacyErasures applies its LIMIT first and skips the blocked rows
\* afterwards, so it may claim nothing although a newer row is ready.
ClaimPrivacyErasures(p) ==
    /\ jobs[p] = <<>>
    /\ \E S \in Oldest({r \in Requests : ClaimableErasure(r)}, ErasureBatch, Older) :
          LET claimed == {r \in S : request[r] \in Active /\ metricStepsComplete(r)} IN
          /\ claimed # {}
          /\ erasure' = [r \in Requests |->
                           IF r \in claimed THEN LeasedErasure(erasure[r], p)
                                            ELSE erasure[r]]
          /\ \/ \E q \in InOrder(claimed, ErasureBatch, Older) :
                   jobs' = [jobs EXCEPT ![p] = q]
             \/ UNCHANGED jobs
    /\ UNCHANGED <<request, order, metricStep, event, failed, outboxVars, world>>

EraseAllowed(p) ==
    LET r == Head(jobs[p]) IN
    /\ request[r] \in Active
    /\ erasure[r].status = "processing" /\ erasure[r].holder = p
    /\ metricStepsComplete(r)

\* ErasePrivacyJob erases the subject, completes the step and the request.
\* When the commit is not acknowledged the transaction is run again.
ErasePrivacyJob(p) ==
    /\ jobs[p] # <<>> /\ ~failed[p]
    /\ EraseAllowed(p)
    /\ LET r == Head(jobs[p]) IN
       /\ erased' = erased \cup {r}
       /\ erasure' = [erasure EXCEPT ![r] = CompletedErasure(@)]
       /\ request' = [request EXCEPT ![r] = "completed"]
    /\ jobs' \in {jobs, [jobs EXCEPT ![p] = Tail(@)]}
    /\ UNCHANGED <<order, metricStep, event, failed, outboxVars, posted, metricDone>>

\* Any error of ErasePrivacyJob, a failed check or a failed transaction, leads
\* to RetryPrivacyErasure.
ErasureFails(p) ==
    /\ jobs[p] # <<>> /\ ~failed[p]
    /\ failed' = [failed EXCEPT ![p] = TRUE]
    /\ UNCHANGED <<rows, jobs, outboxVars, world>>

\* Mutant: the step is put back whatever its status is.
RetryWhateverStatus(p) ==
    /\ jobs[p] # <<>> /\ failed[p]
    /\ LET r == Head(jobs[p]) IN
       erasure' = [erasure EXCEPT ![r] = RetriedErasure(@)]
    /\ jobs' = [jobs EXCEPT ![p] = Tail(@)]
    /\ failed' = [failed EXCEPT ![p] = FALSE]
    /\ UNCHANGED <<request, order, metricStep, event, outboxVars, world>>

\* RetryPrivacyErasure checks the status of the step, not the job's version.
RetryPrivacyErasure(p) ==
    /\ jobs[p] # <<>> /\ failed[p]
    /\ LET r == Head(jobs[p]) IN
       /\ erasure[r].status = "processing"
       /\ erasure' = [erasure EXCEPT ![r] = RetriedErasure(@)]
    /\ \/ /\ jobs' = [jobs EXCEPT ![p] = Tail(@)]
          /\ failed' = [failed EXCEPT ![p] = FALSE]
       \/ UNCHANGED privacyVars
    /\ UNCHANGED <<request, order, metricStep, event, outboxVars, world>>

AbandonJobs(p) ==
    /\ jobs[p] # <<>>
    /\ jobs' = [jobs EXCEPT ![p] = <<>>]
    /\ failed' = [failed EXCEPT ![p] = FALSE]
    /\ UNCHANGED <<rows, outboxVars, world>>

-----------------------------------------------------------------------------
(* Time: available_at comes, or a lease lapses.                             *)

EventDue(e) ==
    /\ event[e].status \in {"pending", "processing"} /\ ~event[e].ready
    /\ event' = [event EXCEPT ![e] = Due(@)]
    /\ UNCHANGED <<request, order, metricStep, erasure, outboxVars, privacyVars, world>>

ErasureDue(r) ==
    /\ erasure[r].status \in {"retry", "processing"} /\ ~erasure[r].ready
    /\ erasure' = [erasure EXCEPT ![r] = Due(@)]
    /\ UNCHANGED <<request, order, metricStep, event, outboxVars, privacyVars, world>>

-----------------------------------------------------------------------------
Results == {"completed", "pending", "failed"}

OutboxStep(w) ==
    \/ ClaimOutbox(w)
    \/ \E result \in Results : Deliver(w, result)
    \/ MarkOutboxDelivered(w)
    \/ RetryOutbox(w)
    \/ RescheduleOutbox(w)
    \/ AbandonBatch(w)

PrivacyStep(p) ==
    \/ ClaimPrivacyErasures(p)
    \/ ErasePrivacyJob(p)
    \/ ErasureFails(p)
    \/ RetryPrivacyErasure(p)
    \/ AbandonJobs(p)

Next ==
    \/ \E r \in Requests :
          \/ CreatePrivacyRequest(r)
          \/ \E status \in Active \cup Terminal : UpdatePrivacyRequestStatus(r, status)
          \/ ErasureDue(r)
    \/ \E e \in Events : MetricCompletes(e) \/ EventDue(e)
    \/ \E w \in OutboxWorkers : OutboxStep(w)
    \/ \E p \in PrivacyWorkers : PrivacyStep(p)

Spec == Init /\ [][Next]_vars

-----------------------------------------------------------------------------
(* Fairness.  Clocks advance and a worker's loop keeps going, by its own    *)
(* ticker or by the timer that calls /internal/workers/tick (weak           *)
(* fairness).  A worker may be stopped, lose its lease or lose an           *)
(* acknowledgement at any step and Metric may answer "pending", but none of *)
(* that happens every time (strong fairness): a delivery is cut off after   *)
(* ten seconds, a lease lasts five minutes.                                 *)

DeliverInTime(w) ==
    Deliver(w, "completed") /\ event[Head(batch[w])].status = "processing"

Fairness ==
    /\ \A e \in Events : WF_vars(EventDue(e))
    /\ \A r \in Requests : WF_vars(ErasureDue(r))
    /\ \A w \in OutboxWorkers : /\ WF_vars(OutboxStep(w))
                                /\ SF_vars(ClaimOutbox(w) /\ batch' # batch)
                                /\ SF_vars(DeliverInTime(w))
                                /\ SF_vars(MarkOutboxDelivered(w))
    /\ \A p \in PrivacyWorkers : /\ WF_vars(PrivacyStep(p))
                                 /\ SF_vars(ClaimPrivacyErasures(p) /\ jobs' # jobs)
                                 /\ SF_vars(ErasePrivacyJob(p))

FairSpec == Spec /\ Fairness

-----------------------------------------------------------------------------
EventRow == [status : {"absent", "pending", "processing", "delivered",
                       "manual_dlq", "cancelled"},
             attempts : 0..MaxAttempts, polled : BOOLEAN, ready : BOOLEAN,
             holder : OutboxWorkers \cup {Nobody}]
ErasureRow == [status : {"absent", "pending", "processing", "retry", "completed",
                         "manual_dlq", "cancelled"},
               attempts : 0..MaxAttempts, ready : BOOLEAN,
               holder : PrivacyWorkers \cup {Nobody}]

\* Every row and every worker's memory stays within the columns' vocabularies.
TypeOK ==
    /\ request \in [Requests -> {"absent"} \cup Active \cup Terminal]
    /\ order \in Seq(Requests)
    /\ metricStep \in [Events -> {"absent", "pending", "completed", "cancelled"}]
    /\ event \in [Events -> EventRow]
    /\ erasure \in [Requests -> ErasureRow]
    /\ batch \in [OutboxWorkers -> Seq(Events)]
    /\ outcome \in [OutboxWorkers -> {"none"} \cup Results]
    /\ jobs \in [PrivacyWorkers -> Seq(Requests)]
    /\ failed \in [PrivacyWorkers -> BOOLEAN]
    /\ posted \subseteq Events /\ metricDone \subseteq Events /\ erased \subseteq Requests

\* "Metric must return a matching completed deletion receipt before YDB erasure
\* can complete": whatever the workers' leases do, a request is completed or
\* erased only after Metric has really deleted every alias of its fan-out, and
\* the request row says "completed" exactly when the subject was erased.
ErasedAfterReceipts ==
    \A r \in Requests :
        /\ r \in erased <=> request[r] = "completed"
        /\ r \in erased => \A e \in {r} \X Aliases :
                               metricStep[e] # "absent" => e \in metricDone

\* A rejected or cancelled request has touched nothing and never will: its
\* subject is not erased, none of its events was ever sent to Metric, and no
\* worker still carries one of its events or its erasure job.
WithdrawnLeavesNoTrace ==
    \A r \in Requests : request[r] \in Withdrawn =>
        /\ r \notin erased
        /\ \A e \in {r} \X Aliases :
              /\ e \notin posted
              /\ \A w \in OutboxWorkers : \A i \in DOMAIN batch[w] : batch[w][i] # e
        /\ \A p \in PrivacyWorkers : \A i \in DOMAIN jobs[p] : jobs[p][i] # r

\* MarkOutboxDelivered and cancelPrivacyChildren write an event and its metric
\* step together, so the two tables never disagree on what was delivered or
\* cancelled, and an open step always has an event that is still owed.
StepFollowsEvent ==
    \A e \in Events :
        /\ metricStep[e] = "completed" <=> event[e].status = "delivered"
        /\ metricStep[e] = "cancelled" <=> event[e].status = "cancelled"
        /\ metricStep[e] = "pending" <=>
              event[e].status \in {"pending", "processing", "manual_dlq"}

\* Nothing revives a settled request: once it is completed, rejected or
\* cancelled, no late worker changes it, its steps or its events.
TerminalIsFinal ==
    [][\A r \in Requests : request[r] \in Terminal =>
          /\ request'[r] = request[r] /\ erasure'[r] = erasure[r]
          /\ \A e \in {r} \X Aliases :
                metricStep'[e] = metricStep[e] /\ event'[e] = event[e]]_vars

NeedsOperator(r) ==
    \/ erasure[r].status = "manual_dlq"
    \/ \E e \in {r} \X Aliases : event[e].status = "manual_dlq"

\* No deletion is forgotten: a request is settled in the end or has a row in the
\* manual dead-letter queue, whatever workers crash on the way.  This needs an
\* ErasureBatch that no requests parked in that queue can fill: the claim limits
\* its rows before it looks at the receipts.
DeletionSettles ==
    \A r \in Requests : request[r] \in Active ~> request[r] \in Terminal \/ NeedsOperator(r)

\* "Optimistic version checks reject stale workers": an outbox worker settles
\* an event only while its own claim on the event is the current one.
StaleDeliveryRejected ==
    [][\A w \in OutboxWorkers :
          MarkOutboxDelivered(w) \/ RetryOutbox(w) \/ RescheduleOutbox(w)
              => event[Head(batch[w])].holder = w]_vars

\* The same for privacy workers: a job whose claim was taken over by another
\* worker changes nothing any more.
StaleErasureRejected ==
    [][\A p \in PrivacyWorkers :
          ErasePrivacyJob(p) \/ RetryPrivacyErasure(p)
              => erasure[Head(jobs[p])].holder = p]_vars

\* Every change of a request's status is one ValidPrivacyTransition allows.
RequestFollowsFSM ==
    [][\A r \in Requests : request[r] # "absent" /\ request'[r] # request[r]
          => ValidPrivacyTransition(request[r], request'[r])]_vars

-----------------------------------------------------------------------------
(* The promise this component keeps.                                        *)

Phase(r) ==
    CASE request[r] = "absent" -> "none"
      [] request[r] \in Active -> "open"
      [] request[r] \in Withdrawn -> "withdrawn"
      [] request[r] = "completed" -> "erased"

Owed(r) == {a \in Aliases : metricStep[<<r, a>>] # "absent"}

Promise == INSTANCE DeletionPromise WITH
    phase <- [r \in Requests |-> Phase(r)],
    owed <- [r \in Requests |-> Owed(r)],
    asked <- posted,
    done <- metricDone

\* The tables, the workers and Metric together implement DeletionPromise: no
\* interleaving of stale workers, repeated transactions and operator decisions
\* shows in what a request owes, asks, withdraws or erases.
KeepsPromise == Promise!Spec
=============================================================================
