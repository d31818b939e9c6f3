----------------------- MODULE PrivacyDeletionProofs -----------------------
(* Proofs about PrivacyDeletion, for any sets of requests, aliases and      *)
(* workers, any batch limits and any number of attempts.                    *)
EXTENDS PrivacyDeletion, TLAPS

\* A worker's batch, read in created_at order, is a sequence of the claimed rows.
LEMMA SeqOfIsSeq ==
    ASSUME NEW S, NEW n \in Nat, NEW q \in SeqOf(S, n)
    PROVE  q \in Seq(S)
<1>1. PICK m \in 0..n : q \in [1..m -> S]
    BY DEF SeqOf
<1> QED BY <1>1

(* What the UPDATE statements do to the fields the invariants mention.      *)

\* The attempts column stays a counter within its bound.
LEMMA OneMoreFacts ==
    ASSUME NEW n \in 0..MaxAttempts
    PROVE  OneMore(n) \in 0..MaxAttempts /\ OneMore(n) > 0
BY MaxAttemptsAssumption DEF OneMore

\* ClaimOutbox leaves a well-formed "processing" row.
LEMMA LeasedEventFacts ==
    ASSUME NEW row \in EventRow, NEW w \in OutboxWorkers
    PROVE  LeasedEvent(row, w) \in EventRow /\ LeasedEvent(row, w).status = "processing"
BY DEF EventRow, LeasedEvent

\* MarkOutboxDelivered leaves a well-formed "delivered" row.
LEMMA DeliveredEventFacts ==
    ASSUME NEW row \in EventRow
    PROVE  DeliveredEvent(row) \in EventRow /\ DeliveredEvent(row).status = "delivered"
BY DEF EventRow, DeliveredEvent

\* cancelPrivacyChildren leaves a well-formed "cancelled" row.
LEMMA CancelledEventFacts ==
    ASSUME NEW row \in EventRow
    PROVE  CancelledEvent(row) \in EventRow /\ CancelledEvent(row).status = "cancelled"
BY DEF EventRow, CancelledEvent

\* RescheduleOutbox leaves the row "pending".
LEMMA PolledEventFacts ==
    ASSUME NEW row \in EventRow
    PROVE  /\ PolledEvent(row) \in EventRow
           /\ PolledEvent(row).status = "pending" /\ PolledEvent(row).polled
BY DEF EventRow, PolledEvent

\* RetryOutbox leaves the row "pending" or parks it in "manual_dlq".
LEMMA RetriedEventFacts ==
    ASSUME NEW row \in EventRow
    PROVE  /\ RetriedEvent(row) \in EventRow /\ RetriedEvent(row).attempts > 0
           /\ RetriedEvent(row).status \in {"pending", "manual_dlq"}
<1>1. OneMore(row.attempts) \in 0..MaxAttempts /\ OneMore(row.attempts) > 0
    BY OneMoreFacts DEF EventRow
<1> QED BY <1>1 DEF EventRow, RetriedEvent

\* Passing time changes neither the status nor the history of an event.
LEMMA DueEventFacts ==
    ASSUME NEW row \in EventRow
    PROVE  /\ Due(row) \in EventRow /\ Due(row).status = row.status
           /\ Due(row).attempts = row.attempts /\ Due(row).polled = row.polled
BY DEF EventRow, Due

\* ClaimPrivacyErasures leaves a well-formed "processing" step.
LEMMA LeasedErasureFacts ==
    ASSUME NEW row \in ErasureRow, NEW p \in PrivacyWorkers
    PROVE  LeasedErasure(row, p) \in ErasureRow /\ LeasedErasure(row, p).status = "processing"
<1>1. OneMore(row.attempts) \in 0..MaxAttempts
    BY OneMoreFacts DEF ErasureRow
<1> QED BY <1>1 DEF ErasureRow, LeasedErasure

\* ErasePrivacyJob leaves a well-formed "completed" step.
LEMMA CompletedErasureFacts ==
    ASSUME NEW row \in ErasureRow
    PROVE  CompletedErasure(row) \in ErasureRow /\ CompletedErasure(row).status = "completed"
BY DEF ErasureRow, CompletedErasure

\* cancelPrivacyChildren leaves a well-formed "cancelled" step.
LEMMA CancelledErasureFacts ==
    ASSUME NEW row \in ErasureRow
    PROVE  CancelledErasure(row) \in ErasureRow /\ CancelledErasure(row).status = "cancelled"
BY DEF ErasureRow, CancelledErasure

\* RetryPrivacyErasure leaves the step in "retry" or in "manual_dlq".
LEMMA RetriedErasureFacts ==
    ASSUME NEW row \in ErasureRow
    PROVE  /\ RetriedErasure(row) \in ErasureRow
           /\ RetriedErasure(row).status \in {"retry", "manual_dlq"}
BY DEF ErasureRow, RetriedErasure

\* Passing time does not change the status of a ydb step.
LEMMA DueErasureFacts ==
    ASSUME NEW row \in ErasureRow
    PROVE  Due(row) \in ErasureRow /\ Due(row).status = row.status
BY DEF ErasureRow, Due

-----------------------------------------------------------------------------
(* What a claim hands to a worker.                                          *)

\* ClaimOutbox hands the worker a sequence of the events it leased, or nothing.
LEMMA ClaimedBatch ==
    ASSUME TypeOK, NEW w \in OutboxWorkers, ClaimOutbox(w)
    PROVE  \E claimed \in SUBSET {e \in Events : ClaimableEvent(e) /\ request[e[1]] \in Active} :
              /\ event' = [e \in Events |->
                             IF e \in claimed THEN LeasedEvent(event[e], w) ELSE event[e]]
              /\ \/ \E q \in Seq(claimed) : batch' = [batch EXCEPT ![w] = q]
                 \/ UNCHANGED batch
<1>1. PICK S \in Oldest({e \in Events : ClaimableEvent(e)}, OutboxBatch, OlderEvent) :
          LET claimed == {e \in S : request[e[1]] \in Active} IN
          /\ event' = [e \in Events |->
                         IF e \in claimed THEN LeasedEvent(event[e], w) ELSE event[e]]
          /\ \/ \E q \in InOrder(claimed, OutboxBatch, OlderEvent) :
                   batch' = [batch EXCEPT ![w] = q]
             \/ UNCHANGED batch
    BY DEF ClaimOutbox
<1> DEFINE claimed == {e \in S : request[e[1]] \in Active}
<1>2. claimed \in SUBSET {e \in Events : ClaimableEvent(e) /\ request[e[1]] \in Active}
    BY DEF Oldest
<1>3. ASSUME NEW q \in InOrder(claimed, OutboxBatch, OlderEvent)
      PROVE  q \in Seq(claimed)
    <2>1. q \in SeqOf(claimed, OutboxBatch)
        BY <1>3 DEF InOrder
    <2> QED BY <2>1, SeqOfIsSeq, BatchAssumption
<1> QED BY <1>1, <1>2, <1>3

\* The same for ClaimPrivacyErasures.
LEMMA ClaimedJobs ==
    ASSUME TypeOK, NEW p \in PrivacyWorkers, ClaimPrivacyErasures(p)
    PROVE  \E claimed \in SUBSET {r \in Requests : /\ ClaimableErasure(r)
                                                   /\ request[r] \in Active
                                                   /\ metricStepsComplete(r)} :
              /\ erasure' = [r \in Requests |->
                               IF r \in claimed THEN LeasedErasure(erasure[r], p) ELSE erasure[r]]
              /\ \/ \E q \in Seq(claimed) : jobs' = [jobs EXCEPT ![p] = q]
                 \/ UNCHANGED jobs
<1>1. PICK S \in Oldest({r \in Requests : ClaimableErasure(r)}, ErasureBatch, Older) :
          LET claimed == {r \in S : request[r] \in Active /\ metricStepsComplete(r)} IN
          /\ erasure' = [r \in Requests |->
                           IF r \in claimed THEN LeasedErasure(erasure[r], p) ELSE erasure[r]]
          /\ \/ \E q \in InOrder(claimed, ErasureBatch, Older) :
                   jobs' = [jobs EXCEPT ![p] = q]
             \/ UNCHANGED jobs
    BY DEF ClaimPrivacyErasures
<1> DEFINE claimed == {r \in S : request[r] \in Active /\ metricStepsComplete(r)}
<1>2. claimed \in SUBSET {r \in Requests : /\ ClaimableErasure(r)
                                           /\ request[r] \in Active
                                           /\ metricStepsComplete(r)}
    BY DEF Oldest
<1>3. ASSUME NEW q \in InOrder(claimed, ErasureBatch, Older)
      PROVE  q \in Seq(claimed)
    <2>1. q \in SeqOf(claimed, ErasureBatch)
        BY <1>3 DEF InOrder
    <2> QED BY <2>1, SeqOfIsSeq, BatchAssumption
<1> QED BY <1>1, <1>2, <1>3

-----------------------------------------------------------------------------
(* Type correctness.                                                        *)

\* The empty tables are well-formed.
LEMMA InitTypeOK == Init => TypeOK
BY MaxAttemptsAssumption DEF Init, TypeOK, NoEvent, NoErasure, EventRow, ErasureRow, Active, Terminal, Withdrawn

\* Every transaction and every step of a worker keeps rows and memories well-formed.
LEMMA NextTypeOK == TypeOK /\ [Next]_vars => TypeOK'
<1> SUFFICES ASSUME TypeOK, [Next]_vars PROVE TypeOK'
    OBVIOUS
<1>1. ASSUME NEW r \in Requests, CreatePrivacyRequest(r) PROVE TypeOK'
    <2>1. NewEvent \in EventRow /\ NewErasure \in ErasureRow
        <3>1. NoEvent \in EventRow /\ NoErasure \in ErasureRow
            BY MaxAttemptsAssumption DEF NoEvent, NoErasure, EventRow, ErasureRow
        <3> QED BY <3>1 DEF NewEvent, NewErasure, EventRow, ErasureRow
    <2> QED BY <1>1, <2>1 DEF CreatePrivacyRequest, TypeOK, Active, outboxVars, privacyVars, world
<1>2. ASSUME NEW r \in Requests, NEW status \in Active \cup Terminal,
             UpdatePrivacyRequestStatus(r, status)
      PROVE  TypeOK'
    <2>1. request' \in [Requests -> {"absent"} \cup Active \cup Terminal]
        BY <1>2 DEF UpdatePrivacyRequestStatus, TypeOK
    <2>2. CASE cancelPrivacyChildren(r)
        <3>1. event' \in [Events -> EventRow]
            BY <2>2, CancelledEventFacts DEF cancelPrivacyChildren, TypeOK
        <3>2. erasure' \in [Requests -> ErasureRow]
            BY <2>2, CancelledErasureFacts DEF cancelPrivacyChildren, TypeOK
        <3> QED BY <1>2, <2>1, <2>2, <3>1, <3>2
                DEF UpdatePrivacyRequestStatus, cancelPrivacyChildren, TypeOK,
                    outboxVars, privacyVars, world
    <2>3. CASE UNCHANGED <<metricStep, event, erasure>>
        BY <1>2, <2>1, <2>3 DEF UpdatePrivacyRequestStatus, TypeOK, outboxVars, privacyVars, world
    <2> QED BY <1>2, <2>2, <2>3 DEF UpdatePrivacyRequestStatus
<1>3. ASSUME NEW w \in OutboxWorkers, ClaimOutbox(w) PROVE TypeOK'
    <2>1. PICK claimed \in SUBSET Events :
              /\ event' = [e \in Events |->
                             IF e \in claimed THEN LeasedEvent(event[e], w) ELSE event[e]]
              /\ \/ \E q \in Seq(claimed) : batch' = [batch EXCEPT ![w] = q]
                 \/ UNCHANGED batch
        BY <1>3, ClaimedBatch
    <2>2. event' \in [Events -> EventRow]
        BY <2>1, LeasedEventFacts DEF TypeOK
    <2>3. batch' \in [OutboxWorkers -> Seq(Events)]
        <3>1. Seq(claimed) \subseteq Seq(Events)
            OBVIOUS
        <3> QED BY <2>1, <3>1 DEF TypeOK
    <2> QED BY <1>3, <2>2, <2>3 DEF ClaimOutbox, TypeOK, privacyVars, world
<1>4. ASSUME NEW w \in OutboxWorkers, NEW result \in Results, Deliver(w, result) PROVE TypeOK'
    <2>1. Head(batch[w]) \in Events
        BY <1>4 DEF Deliver, TypeOK
    <2>2. posted' \subseteq Events /\ metricDone' \subseteq Events
        BY <1>4, <2>1 DEF Deliver, TypeOK
    <2> QED BY <1>4, <2>2 DEF Deliver, TypeOK, rows, privacyVars
<1>5. ASSUME NEW w \in OutboxWorkers, batch[w] # <<>>, NextEvent(w)
      PROVE  /\ batch' \in [OutboxWorkers -> Seq(Events)]
             /\ outcome' \in [OutboxWorkers -> {"none"} \cup Results]
    <2>1. Tail(batch[w]) \in Seq(Events)
        BY <1>5 DEF TypeOK
    <2>2. CASE UNCHANGED outboxVars
        BY <2>2 DEF TypeOK, outboxVars
    <2>3. CASE /\ batch' = [batch EXCEPT ![w] = Tail(@)]
               /\ outcome' = [outcome EXCEPT ![w] = "none"]
        BY <2>1, <2>3 DEF TypeOK
    <2> QED BY <1>5, <2>2, <2>3 DEF NextEvent
<1>6. ASSUME NEW w \in OutboxWorkers, batch[w] # <<>> PROVE Head(batch[w]) \in Events
    BY <1>6 DEF TypeOK
<1>7. ASSUME NEW w \in OutboxWorkers, MarkOutboxDelivered(w) PROVE TypeOK'
    <2>1. event' \in [Events -> EventRow]
        BY <1>6, <1>7, DeliveredEventFacts DEF MarkOutboxDelivered, TypeOK
    <2> QED BY <1>5, <1>6, <1>7, <2>1 DEF MarkOutboxDelivered, TypeOK, privacyVars, world
<1>8. ASSUME NEW w \in OutboxWorkers, RetryOutbox(w) PROVE TypeOK'
    <2>1. event' \in [Events -> EventRow]
        BY <1>6, <1>8, RetriedEventFacts DEF RetryOutbox, TypeOK
    <2> QED BY <1>5, <1>8, <2>1 DEF RetryOutbox, TypeOK, privacyVars, world
<1>9. ASSUME NEW w \in OutboxWorkers, RescheduleOutbox(w) PROVE TypeOK'
    <2>1. event' \in [Events -> EventRow]
        BY <1>6, <1>9, PolledEventFacts DEF RescheduleOutbox, TypeOK
    <2> QED BY <1>5, <1>9, <2>1 DEF RescheduleOutbox, TypeOK, privacyVars, world
<1>10. ASSUME NEW w \in OutboxWorkers, AbandonBatch(w) PROVE TypeOK'
    BY <1>10 DEF AbandonBatch, TypeOK, rows, privacyVars, world
<1>11. ASSUME NEW p \in PrivacyWorkers, ClaimPrivacyErasures(p) PROVE TypeOK'
    <2>1. PICK claimed \in SUBSET Requests :
              /\ erasure' = [r \in Requests |->
                               IF r \in claimed THEN LeasedErasure(erasure[r], p) ELSE erasure[r]]
              /\ \/ \E q \in Seq(claimed) : jobs' = [jobs EXCEPT ![p] = q]
                 \/ UNCHANGED jobs
        BY <1>11, ClaimedJobs
    <2>2. erasure' \in [Requests -> ErasureRow]
        BY <2>1, LeasedErasureFacts DEF TypeOK
    <2>3. jobs' \in [PrivacyWorkers -> Seq(Requests)]
        <3>1. Seq(claimed) \subseteq Seq(Requests)
            OBVIOUS
        <3> QED BY <2>1, <3>1 DEF TypeOK
    <2> QED BY <1>11, <2>2, <2>3 DEF ClaimPrivacyErasures, TypeOK, outboxVars, world
<1>12. ASSUME NEW p \in PrivacyWorkers, jobs[p] # <<>>
       PROVE  Head(jobs[p]) \in Requests /\ [jobs EXCEPT ![p] = Tail(@)] \in [PrivacyWorkers -> Seq(Requests)]
    BY <1>12 DEF TypeOK
<1>13. ASSUME NEW p \in PrivacyWorkers, ErasePrivacyJob(p) PROVE TypeOK'
    <2>1. erasure' \in [Requests -> ErasureRow]
        BY <1>12, <1>13, CompletedErasureFacts DEF ErasePrivacyJob, TypeOK
    <2> QED BY <1>12, <1>13, <2>1 DEF ErasePrivacyJob, TypeOK, Terminal, outboxVars
<1>14. ASSUME NEW p \in PrivacyWorkers, ErasureFails(p) PROVE TypeOK'
    BY <1>14 DEF ErasureFails, TypeOK, rows, outboxVars, world
<1>15. ASSUME NEW p \in PrivacyWorkers, RetryPrivacyErasure(p) PROVE TypeOK'
    <2>1. erasure' \in [Requests -> ErasureRow]
        BY <1>12, <1>15, RetriedErasureFacts DEF RetryPrivacyErasure, TypeOK
    <2> QED BY <1>12, <1>15, <2>1 DEF RetryPrivacyErasure, TypeOK, privacyVars, outboxVars, world
<1>16. ASSUME NEW p \in PrivacyWorkers, AbandonJobs(p) PROVE TypeOK'
    BY <1>16 DEF AbandonJobs, TypeOK, rows, outboxVars, world
<1>17. ASSUME NEW r \in Requests, ErasureDue(r) PROVE TypeOK'
    BY <1>17, DueErasureFacts DEF ErasureDue, TypeOK, privacyVars, outboxVars, world
<1>18. ASSUME NEW e \in Events, EventDue(e) PROVE TypeOK'
    BY <1>18, DueEventFacts DEF EventDue, TypeOK, privacyVars, outboxVars, world
<1>19. ASSUME NEW e \in Events, MetricCompletes(e) PROVE TypeOK'
    BY <1>19 DEF MetricCompletes, TypeOK, rows, privacyVars, outboxVars
<1>20. CASE UNCHANGED vars
    BY <1>20 DEF TypeOK, vars, rows, outboxVars, privacyVars, world
<1> QED BY <1>1, <1>2, <1>3, <1>4, <1>7, <1>8, <1>9, <1>10, <1>11,
        <1>13, <1>14, <1>15, <1>16, <1>17, <1>18, <1>19, <1>20 DEF Next, OutboxStep, PrivacyStep

\* Every row and every worker's memory is well-formed in every reachable state.
THEOREM TypeCorrect == Spec => []TypeOK
BY InitTypeOK, NextTypeOK, PTL DEF Spec

-----------------------------------------------------------------------------
(* The inductive invariant.                                                 *)

\* Delivery of an event has begun.  No update undoes this: a row that returns
\* to "pending" has been polled or has a failed attempt.
Begun(e) ==
    /\ event[e].status \notin {"absent", "cancelled"}
    /\ event[e].status = "pending" => event[e].polled \/ event[e].attempts > 0

\* A privacy worker has claimed the ydb step; no update undoes this either.
WasClaimed(r) == erasure[r].status \notin {"absent", "pending", "cancelled"}

\* Where the rows of a request stand, by its status.
RowsMatchRequest ==
    \A r \in Requests :
        /\ r \in erased <=> request[r] = "completed"
        /\ request[r] = "absent" => erasure[r].status = "absent"
        /\ request[r] \in Active =>
              erasure[r].status \in {"pending", "processing", "retry", "manual_dlq"}
        /\ request[r] \in Withdrawn => erasure[r].status = "cancelled"
        /\ request[r] = "completed" => erasure[r].status = "completed"

\* Where the events of a request stand, by its status.
EventsMatchRequest ==
    \A e \in Events :
        /\ request[e[1]] = "absent" => event[e].status = "absent"
        /\ request[e[1]] \in Active => event[e].status # "cancelled"
        /\ request[e[1]] \in Withdrawn => event[e].status \in {"absent", "cancelled"}
        /\ request[e[1]] = "completed" => event[e].status \in {"absent", "delivered"}

\* What a worker carries, and what was sent, has begun; a job's step was claimed.
CarriedHasBegun ==
    /\ \A w \in OutboxWorkers : \A i \in DOMAIN batch[w] : Begun(batch[w][i])
    /\ \A p \in PrivacyWorkers : \A i \in DOMAIN jobs[p] :
          WasClaimed(jobs[p][i])
    /\ \A e \in posted : Begun(e)

\* A receipt, in a worker's hands or recorded in a step, is one Metric gave.
ReceiptsAreReal ==
    /\ metricDone \subseteq posted
    /\ \A w \in OutboxWorkers : outcome[w] = "completed" =>
          batch[w] # <<>> /\ Head(batch[w]) \in metricDone
    /\ \A e \in Events : metricStep[e] = "completed" => e \in metricDone

\* The inductive invariant.
DeletionInv ==
    /\ TypeOK
    /\ StepFollowsEvent
    /\ RowsMatchRequest
    /\ EventsMatchRequest
    /\ CarriedHasBegun
    /\ ReceiptsAreReal

\* The invariant holds of the empty tables.
LEMMA InitInv == Init => DeletionInv
<1> SUFFICES ASSUME Init PROVE DeletionInv
    OBVIOUS
<1>1. TypeOK
    BY InitTypeOK
<1>2. \A e \in Events : metricStep[e] = "absent" /\ event[e].status = "absent"
    BY DEF Init, NoEvent
<1>3. \A r \in Requests : request[r] = "absent" /\ erasure[r].status = "absent"
    BY DEF Init, NoErasure
<1>4. \A e \in Events : e[1] \in Requests
    BY DEF Events
<1>5. StepFollowsEvent
    BY <1>2 DEF StepFollowsEvent
<1>6. RowsMatchRequest /\ EventsMatchRequest
    BY <1>2, <1>3, <1>4 DEF RowsMatchRequest, EventsMatchRequest, Active, Withdrawn, Init
<1>7. CarriedHasBegun /\ ReceiptsAreReal
    BY <1>2 DEF CarriedHasBegun, ReceiptsAreReal, Init
<1> QED BY <1>1, <1>5, <1>6, <1>7 DEF DeletionInv

\* When workers only drop what they carried and nothing that has begun is undone,
\* what they carry has still begun.
LEMMA CarriedStays ==
    ASSUME TypeOK, TypeOK', CarriedHasBegun,
           \A v \in OutboxWorkers : \A i \in DOMAIN batch'[v] :
               \E j \in DOMAIN batch[v] : batch'[v][i] = batch[v][j],
           \A p \in PrivacyWorkers : \A i \in DOMAIN jobs'[p] :
               \E j \in DOMAIN jobs[p] : jobs'[p][i] = jobs[p][j],
           posted' = posted,
           \A e \in Events : Begun(e) => Begun(e)',
           \A r \in Requests : WasClaimed(r) => WasClaimed(r)'
    PROVE  CarriedHasBegun'
<1>1. ASSUME NEW v \in OutboxWorkers, NEW i \in DOMAIN batch'[v]
      PROVE  \E e \in Events : e = batch'[v][i] /\ Begun(e)'
    <2>1. PICK j \in DOMAIN batch[v] : batch'[v][i] = batch[v][j]
        BY <1>1
    <2>2. batch[v] \in Seq(Events) /\ Begun(batch[v][j])
        BY <2>1 DEF CarriedHasBegun, TypeOK
    <2>3. batch[v][j] \in Events
        BY <2>1, <2>2
    <2> QED BY <2>1, <2>2, <2>3
<1>2. ASSUME NEW p \in PrivacyWorkers, NEW i \in DOMAIN jobs'[p]
      PROVE  \E r \in Requests : r = jobs'[p][i] /\ WasClaimed(r)'
    <2>1. PICK j \in DOMAIN jobs[p] : jobs'[p][i] = jobs[p][j]
        BY <1>2
    <2>2. jobs[p] \in Seq(Requests) /\ WasClaimed(jobs[p][j])
        BY <2>1 DEF CarriedHasBegun, TypeOK
    <2>3. jobs[p][j] \in Requests
        BY <2>1, <2>2
    <2> QED BY <2>1, <2>2, <2>3
<1>3. \A e \in posted' : Begun(e)'
    BY DEF CarriedHasBegun, TypeOK
<1> QED BY <1>1, <1>2, <1>3 DEF CarriedHasBegun

\* Every element of a tail is an element of the sequence.
LEMMA TailElements ==
    ASSUME NEW S, NEW s \in Seq(S), s # <<>>
    PROVE  \A i \in DOMAIN Tail(s) : \E j \in DOMAIN s : Tail(s)[i] = s[j]
<1> SUFFICES ASSUME NEW i \in DOMAIN Tail(s) PROVE \E j \in DOMAIN s : Tail(s)[i] = s[j]
    OBVIOUS
<1>1. i + 1 \in DOMAIN s /\ Tail(s)[i] = s[i + 1]
    OBVIOUS
<1> QED BY <1>1

\* Creating a request only adds rows for a request that had none.
LEMMA CreateInv ==
    ASSUME DeletionInv, TypeOK', NEW r \in Requests, CreatePrivacyRequest(r)
    PROVE  DeletionInv'
<1> USE DEF DeletionInv
<1>1. NewEvent.status = "pending" /\ NewErasure.status = "pending"
    BY DEF NewEvent, NewErasure, NoEvent, NoErasure
<1>2. PICK fanout \in SUBSET Aliases :
          /\ metricStep' = [e \in Events |-> IF e \in {r} \X fanout THEN "pending" ELSE metricStep[e]]
          /\ event' = [e \in Events |-> IF e \in {r} \X fanout THEN NewEvent ELSE event[e]]
    BY DEF CreatePrivacyRequest
<1>3. ASSUME NEW e \in Events PROVE e[1] \in Requests /\ (e \in {r} \X fanout => e[1] = r)
    BY DEF Events
<1>4. /\ request[r] = "absent" /\ request' = [request EXCEPT ![r] = "requested"]
      /\ erasure' = [erasure EXCEPT ![r] = NewErasure]
      /\ UNCHANGED <<batch, outcome, jobs, posted, metricDone, erased>>
    BY DEF CreatePrivacyRequest, outboxVars, privacyVars, world
<1>5. \A e \in Events : e \in {r} \X fanout => event[e].status = "absent"
    BY <1>3, <1>4 DEF EventsMatchRequest
<1>6. StepFollowsEvent'
    BY <1>1, <1>2 DEF StepFollowsEvent, TypeOK
<1>7. RowsMatchRequest'
    BY <1>1, <1>4 DEF RowsMatchRequest, TypeOK, Active, Withdrawn
<1>8. EventsMatchRequest'
    BY <1>1, <1>2, <1>3, <1>4 DEF EventsMatchRequest, TypeOK, Active, Withdrawn
<1>9. ASSUME NEW e \in Events, Begun(e) PROVE Begun(e)'
    BY <1>2, <1>5, <1>9 DEF Begun, TypeOK
<1>10. CarriedHasBegun'
    <2>1. \A s \in Requests : WasClaimed(s) => WasClaimed(s)'
        BY <1>4 DEF RowsMatchRequest, WasClaimed, TypeOK
    <2> QED BY <1>4, <1>9, <2>1, CarriedStays
<1>11. ReceiptsAreReal'
    BY <1>2, <1>4 DEF ReceiptsAreReal, TypeOK
<1> QED BY <1>6, <1>7, <1>8, <1>10, <1>11

\* An operator's decision: cancelling is only possible while nothing has begun.
LEMMA UpdateInv ==
    ASSUME DeletionInv, TypeOK', NEW r \in Requests, NEW status \in Active \cup Terminal,
           UpdatePrivacyRequestStatus(r, status)
    PROVE  DeletionInv'
<1> USE DEF DeletionInv
<1>1. /\ request[r] \in Active /\ request' = [request EXCEPT ![r] = status]
      /\ UNCHANGED <<batch, outcome, jobs, posted, metricDone, erased>>
    BY DEF UpdatePrivacyRequestStatus, ValidPrivacyTransition, Active, outboxVars, privacyVars, world
<1>2. \A e \in Events : e[1] \in Requests
    BY DEF Events
<1>3. CASE status \notin Withdrawn
    <2>1. status = "processing" /\ UNCHANGED <<metricStep, event, erasure>>
        BY <1>3 DEF UpdatePrivacyRequestStatus, ValidPrivacyTransition, Withdrawn
    <2>2. StepFollowsEvent'
        BY <2>1 DEF StepFollowsEvent
    <2>3. RowsMatchRequest'
        BY <1>1, <2>1 DEF RowsMatchRequest, TypeOK, Active, Withdrawn
    <2>4. EventsMatchRequest'
        BY <1>1, <1>2, <2>1 DEF EventsMatchRequest, TypeOK, Active, Withdrawn
    <2>5. CarriedHasBegun' /\ ReceiptsAreReal'
        BY <1>1, <2>1 DEF CarriedHasBegun, Begun, WasClaimed, ReceiptsAreReal
    <2> QED BY <2>2, <2>3, <2>4, <2>5
<1>4. CASE status \in Withdrawn
    <2>1. ~privacyDeliveryStarted(r) /\ cancelPrivacyChildren(r)
        BY <1>4 DEF UpdatePrivacyRequestStatus
    <2>2. ASSUME NEW e \in Events
          PROVE  e \in {r} \X Aliases <=> e[1] = r
        BY DEF Events
    <2>3. ASSUME NEW e \in Events, e[1] = r PROVE ~Begun(e)
        BY <2>1, <2>2, <2>3 DEF privacyDeliveryStarted, Begun
    <2>4. ASSUME NEW e \in Events, e[1] = r
          PROVE  /\ event[e].status = "absent" => event'[e].status = "absent"
                 /\ event[e].status # "absent" => event'[e].status = "cancelled"
                 /\ metricStep[e] = "absent" => metricStep'[e] = "absent"
                 /\ metricStep[e] # "absent" => metricStep'[e] = "cancelled"
        <3>1. event[e].status \in {"absent", "pending"} /\ metricStep[e] \in {"absent", "pending"}
            BY <2>1, <2>2, <2>4 DEF privacyDeliveryStarted
        <3>2. event[e] \in EventRow
            BY DEF TypeOK
        <3> QED BY <2>1, <2>2, <2>4, <3>1, <3>2, CancelledEventFacts DEF cancelPrivacyChildren
    <2>5. ASSUME NEW e \in Events, e[1] # r
          PROVE  event'[e] = event[e] /\ metricStep'[e] = metricStep[e]
        BY <2>1, <2>2, <2>5 DEF cancelPrivacyChildren
    <2>6. /\ erasure[r].status = "pending" /\ erasure'[r].status = "cancelled"
          /\ \A s \in Requests : s # r => erasure'[s] = erasure[s]
        <3>1. erasure[r].status = "pending"
            BY <2>1 DEF privacyDeliveryStarted
        <3>2. erasure[r] \in ErasureRow
            BY DEF TypeOK
        <3> QED BY <2>1, <3>1, <3>2, CancelledErasureFacts DEF cancelPrivacyChildren, TypeOK
    <2>7. StepFollowsEvent'
        <3>1. \A e \in Events : metricStep[e] = "absent" <=> event[e].status = "absent"
            BY DEF StepFollowsEvent, TypeOK, EventRow
        <3> QED BY <2>4, <2>5, <3>1 DEF StepFollowsEvent
    <2>8. RowsMatchRequest'
        BY <1>1, <1>4, <2>6 DEF RowsMatchRequest, TypeOK, Active, Withdrawn
    <2>9. EventsMatchRequest'
        BY <1>1, <1>2, <1>4, <2>4, <2>5 DEF EventsMatchRequest, TypeOK, Active, Withdrawn
    <2>10. ASSUME NEW e \in Events, Begun(e) PROVE Begun(e)'
        BY <2>3, <2>5, <2>10 DEF Begun
    <2>11. CarriedHasBegun'
        <3>1. \A s \in Requests : WasClaimed(s) => WasClaimed(s)'
            BY <2>6 DEF WasClaimed
        <3> QED BY <1>1, <2>10, <3>1, CarriedStays
    <2>12. ReceiptsAreReal'
        <3>1. \A e \in Events : metricStep'[e] = "completed" => metricStep[e] = "completed"
            BY <2>4, <2>5
        <3> QED BY <1>1, <3>1 DEF ReceiptsAreReal
    <2> QED BY <2>7, <2>8, <2>9, <2>11, <2>12
<1> QED BY <1>3, <1>4

\* A lease is taken only on rows of active requests, and what the worker then
\* carries are rows it has just leased.
LEMMA ClaimOutboxInv ==
    ASSUME DeletionInv, TypeOK', NEW w \in OutboxWorkers, ClaimOutbox(w)
    PROVE  DeletionInv'
<1> USE DEF DeletionInv
<1>1. PICK claimed \in SUBSET {e \in Events : ClaimableEvent(e) /\ request[e[1]] \in Active} :
          /\ event' = [e \in Events |->
                         IF e \in claimed THEN LeasedEvent(event[e], w) ELSE event[e]]
          /\ \/ \E q \in Seq(claimed) : batch' = [batch EXCEPT ![w] = q]
             \/ UNCHANGED batch
    BY ClaimedBatch
<1>2. /\ batch[w] = <<>>
      /\ UNCHANGED <<request, metricStep, erasure, outcome, jobs, posted, metricDone, erased>>
    BY DEF ClaimOutbox, privacyVars, world
<1>3. ASSUME NEW e \in claimed
      PROVE  /\ e \in Events /\ request[e[1]] \in Active
             /\ event[e].status \in {"pending", "processing"}
             /\ event'[e].status = "processing"
    <2>1. e \in Events /\ request[e[1]] \in Active /\ event[e].status \in {"pending", "processing"}
        BY <1>1 DEF ClaimableEvent
    <2>2. event[e] \in EventRow
        BY <2>1 DEF TypeOK
    <2> QED BY <1>1, <2>1, <2>2, LeasedEventFacts
<1>4. ASSUME NEW e \in Events, e \notin claimed PROVE event'[e] = event[e]
    BY <1>1, <1>4
<1>5. StepFollowsEvent'
    BY <1>2, <1>3, <1>4 DEF StepFollowsEvent
<1>6. RowsMatchRequest'
    BY <1>2 DEF RowsMatchRequest
<1>7. EventsMatchRequest'
    BY <1>2, <1>3, <1>4 DEF EventsMatchRequest, Active, Withdrawn
<1>8. ASSUME NEW e \in Events, Begun(e) PROVE Begun(e)'
    BY <1>3, <1>4, <1>8 DEF Begun
<1>9. ASSUME NEW e \in claimed PROVE Begun(e)'
    BY <1>3 DEF Begun
<1>10. CarriedHasBegun'
    <2>1. ASSUME NEW v \in OutboxWorkers, NEW i \in DOMAIN batch'[v]
          PROVE  \E e \in Events : e = batch'[v][i] /\ Begun(e)'
        <3>1. CASE batch'[v] = batch[v]
            <4>1. batch[v][i] \in Events /\ Begun(batch[v][i])
                BY <2>1, <3>1 DEF CarriedHasBegun, TypeOK
            <4> QED BY <1>8, <3>1, <4>1
        <3>2. CASE v = w /\ batch'[v] \in Seq(claimed)
            <4>1. batch'[v][i] \in claimed
                BY <2>1, <3>2
            <4> QED BY <1>3, <1>9, <4>1
        <3> QED BY <1>1, <3>1, <3>2 DEF TypeOK
    <2> QED BY <1>2, <1>8, <2>1 DEF CarriedHasBegun, WasClaimed, TypeOK
<1>11. ReceiptsAreReal'
    <2>1. \A v \in OutboxWorkers : outcome[v] = "completed" => batch'[v] = batch[v]
        BY <1>1, <1>2 DEF ReceiptsAreReal, TypeOK
    <2> QED BY <1>2, <2>1 DEF ReceiptsAreReal
<1> QED BY <1>5, <1>6, <1>7, <1>10, <1>11

\* Delivering posts only what the worker carries, and reports "completed" only
\* on Metric's word.
LEMMA DeliverInv ==
    ASSUME DeletionInv, TypeOK', NEW w \in OutboxWorkers, NEW result \in Results,
           Deliver(w, result)
    PROVE  DeletionInv'
<1> USE DEF DeletionInv
<1> DEFINE e == Head(batch[w])
<1>1. /\ batch[w] # <<>> /\ outcome' = [outcome EXCEPT ![w] = result]
      /\ UNCHANGED <<request, metricStep, event, erasure, batch, jobs, erased>>
    BY DEF Deliver, rows, privacyVars
<1>2. /\ posted' \in {posted, posted \cup {e}} /\ metricDone' \in {metricDone, metricDone \cup {e}}
      /\ metricDone' # metricDone => e \in posted'
      /\ posted \subseteq posted' /\ metricDone \subseteq metricDone'
      /\ result = "completed" => e \in metricDone'
    BY DEF Deliver
<1>3. e \in Events /\ Begun(e)
    BY <1>1 DEF CarriedHasBegun, TypeOK
<1>4. StepFollowsEvent' /\ RowsMatchRequest' /\ EventsMatchRequest'
    BY <1>1 DEF StepFollowsEvent, RowsMatchRequest, EventsMatchRequest
<1>5. CarriedHasBegun'
    BY <1>1, <1>2, <1>3 DEF CarriedHasBegun, Begun, WasClaimed
<1>6. ReceiptsAreReal'
    <2>1. metricDone' \subseteq posted'
        BY <1>2 DEF ReceiptsAreReal
    <2>2. ASSUME NEW v \in OutboxWorkers, outcome'[v] = "completed"
          PROVE  batch'[v] # <<>> /\ Head(batch'[v]) \in metricDone'
        BY <1>1, <1>2, <2>2 DEF ReceiptsAreReal, TypeOK
    <2> QED BY <1>1, <1>2, <2>1, <2>2 DEF ReceiptsAreReal
<1> QED BY <1>4, <1>5, <1>6

\* A worker that settles the head of its batch moves on or runs the same
\* transaction again.
LEMMA SettleBatch ==
    ASSUME TypeOK, NEW w \in OutboxWorkers, batch[w] # <<>>, NextEvent(w)
    PROVE  /\ \A v \in OutboxWorkers : \A i \in DOMAIN batch'[v] :
                  \E j \in DOMAIN batch[v] : batch'[v][i] = batch[v][j]
           /\ \A v \in OutboxWorkers : outcome'[v] = "completed" =>
                  outcome[v] = "completed" /\ batch'[v] = batch[v]
<1>1. CASE UNCHANGED outboxVars
    BY <1>1 DEF outboxVars
<1>2. CASE /\ batch' = [batch EXCEPT ![w] = Tail(@)]
           /\ outcome' = [outcome EXCEPT ![w] = "none"]
    <2>1. \A i \in DOMAIN Tail(batch[w]) : \E j \in DOMAIN batch[w] : Tail(batch[w])[i] = batch[w][j]
        BY TailElements DEF TypeOK
    <2> QED BY <1>2, <2>1 DEF TypeOK
<1> QED BY <1>1, <1>2 DEF NextEvent

\* A step that rewrites one event of an active request, keeps that event begun
\* and leaves requests and erasures alone preserves the invariant when step and
\* event still agree and a new receipt is real.
LEMMA SettleInv ==
    ASSUME DeletionInv, TypeOK', NEW w \in OutboxWorkers, batch[w] # <<>>, NextEvent(w),
           UNCHANGED <<request, erasure, jobs, posted, metricDone, erased>>,
           NEW e \in Events, event[e].status = "processing",
           \A f \in Events : f # e => event'[f] = event[f] /\ metricStep'[f] = metricStep[f],
           Begun(e)', StepFollowsEvent',
           event'[e].status = "delivered" => e \in metricDone
    PROVE  DeletionInv'
<1> USE DEF DeletionInv
<1>1. RowsMatchRequest'
    BY DEF RowsMatchRequest
<1>2. request[e[1]] \in Active
    <2>1. request[e[1]] \in {"absent"} \cup Active \cup Terminal
        BY DEF TypeOK, Events
    <2> QED BY <2>1 DEF EventsMatchRequest, Withdrawn, Terminal
<1>3. EventsMatchRequest'
    <2>1. event'[e].status # "cancelled" /\ request'[e[1]] \in Active
        BY <1>2 DEF Begun
    <2>2. \A f \in Events : f # e => event'[f] = event[f] /\ request'[f[1]] = request[f[1]]
        OBVIOUS
    <2> QED BY <2>1, <2>2 DEF EventsMatchRequest, Active, Withdrawn
<1>4. CarriedHasBegun'
    <2>1. \A f \in Events : Begun(f) => Begun(f)'
        BY DEF Begun
    <2>2. \A r \in Requests : WasClaimed(r) => WasClaimed(r)'
        BY DEF WasClaimed
    <2> QED BY <2>1, <2>2, SettleBatch, CarriedStays
<1>5. ReceiptsAreReal'
    <2>1. \A f \in Events : metricStep'[f] = "completed" => f \in metricDone
        BY DEF StepFollowsEvent, ReceiptsAreReal
    <2> QED BY <2>1, SettleBatch DEF ReceiptsAreReal
<1> QED BY <1>1, <1>3, <1>4, <1>5

\* MarkOutboxDelivered completes event and step on the receipt the worker carries.
LEMMA MarkInv ==
    ASSUME DeletionInv, TypeOK', NEW w \in OutboxWorkers, MarkOutboxDelivered(w)
    PROVE  DeletionInv'
<1> USE DEF DeletionInv
<1>0. PICK e \in Events : e = Head(batch[w])
    BY DEF MarkOutboxDelivered, TypeOK
<1>1. /\ batch[w] # <<>> /\ outcome[w] = "completed" /\ NextEvent(w)
      /\ event[e].status = "processing"
      /\ event' = [event EXCEPT ![e] = DeliveredEvent(@)]
      /\ metricStep' = [metricStep EXCEPT ![e] = "completed"]
      /\ UNCHANGED <<request, erasure, jobs, posted, metricDone, erased>>
    BY <1>0 DEF MarkOutboxDelivered, privacyVars, world
<1>2. e \in Events /\ event[e] \in EventRow
    BY <1>1 DEF TypeOK
<1>3. event'[e].status = "delivered" /\ metricStep'[e] = "completed"
    BY <1>1, <1>2, DeliveredEventFacts DEF TypeOK
<1>4. \A f \in Events : f # e => event'[f] = event[f] /\ metricStep'[f] = metricStep[f]
    BY <1>1 DEF TypeOK
<1>5. e \in metricDone
    BY <1>0, <1>1 DEF ReceiptsAreReal
<1>6. StepFollowsEvent'
    BY <1>3, <1>4 DEF StepFollowsEvent
<1>7. Begun(e)'
    BY <1>1, <1>2, <1>3 DEF Begun
<1> QED BY <1>1, <1>2, <1>4, <1>5, <1>6, <1>7, SettleInv

\* RetryOutbox of a worker, stale or not, keeps the invariant.
LEMMA RetryInv ==
    ASSUME DeletionInv, TypeOK', NEW w \in OutboxWorkers, RetryOutbox(w)
    PROVE  DeletionInv'
<1> USE DEF DeletionInv
<1>0. PICK e \in Events : e = Head(batch[w])
    BY DEF RetryOutbox, TypeOK
<1>1. /\ batch[w] # <<>> /\ NextEvent(w)
      /\ event[e].status = "processing"
      /\ event' = [event EXCEPT ![e] = RetriedEvent(@)]
      /\ UNCHANGED <<request, metricStep, erasure, jobs, posted, metricDone, erased>>
    BY <1>0 DEF RetryOutbox, privacyVars, world
<1>2. e \in Events /\ event[e] \in EventRow
    BY <1>1 DEF TypeOK
<1>3. event'[e].status \in {"pending", "manual_dlq"} /\ event'[e].attempts > 0
    BY <1>1, <1>2, RetriedEventFacts DEF TypeOK
<1>4. \A f \in Events : f # e => event'[f] = event[f] /\ metricStep'[f] = metricStep[f]
    BY <1>1 DEF TypeOK
<1>5. StepFollowsEvent'
    BY <1>1, <1>2, <1>3, <1>4 DEF StepFollowsEvent
<1>6. Begun(e)'
    BY <1>1, <1>2, <1>3 DEF Begun
<1> QED BY <1>1, <1>2, <1>3, <1>4, <1>5, <1>6, SettleInv

\* RescheduleOutbox of a worker, stale or not, keeps the invariant.
LEMMA RescheduleInv ==
    ASSUME DeletionInv, TypeOK', NEW w \in OutboxWorkers, RescheduleOutbox(w)
    PROVE  DeletionInv'
<1> USE DEF DeletionInv
<1>0. PICK e \in Events : e = Head(batch[w])
    BY DEF RescheduleOutbox, TypeOK
<1>1. /\ batch[w] # <<>> /\ NextEvent(w)
      /\ event[e].status = "processing"
      /\ event' = [event EXCEPT ![e] = PolledEvent(@)]
      /\ UNCHANGED <<request, metricStep, erasure, jobs, posted, metricDone, erased>>
    BY <1>0 DEF RescheduleOutbox, privacyVars, world
<1>2. e \in Events /\ event[e] \in EventRow
    BY <1>1 DEF TypeOK
<1>3. event'[e].status = "pending" /\ event'[e].polled
    BY <1>1, <1>2, PolledEventFacts DEF TypeOK
<1>4. \A f \in Events : f # e => event'[f] = event[f] /\ metricStep'[f] = metricStep[f]
    BY <1>1 DEF TypeOK
<1>5. StepFollowsEvent'
    BY <1>1, <1>2, <1>3, <1>4 DEF StepFollowsEvent
<1>6. Begun(e)'
    BY <1>1, <1>2, <1>3 DEF Begun
<1> QED BY <1>1, <1>2, <1>3, <1>4, <1>5, <1>6, SettleInv

\* A step that changes only the ydb step of active requests, and leaves it
\* claimed, preserves everything but possibly what privacy workers carry.
LEMMA ErasureRowInv ==
    ASSUME DeletionInv, TypeOK',
           UNCHANGED <<request, metricStep, event, batch, outcome, posted, metricDone, erased>>,
           \A r \in Requests : \/ erasure'[r].status = erasure[r].status
                               \/ /\ request[r] \in Active
                                  /\ erasure'[r].status \in {"processing", "retry", "manual_dlq"},
           \A p \in PrivacyWorkers : \A i \in DOMAIN jobs'[p] :
               \/ \E j \in DOMAIN jobs[p] : jobs'[p][i] = jobs[p][j]
               \/ \E r \in Requests : jobs'[p][i] = r /\ WasClaimed(r)'
    PROVE  DeletionInv'
<1> USE DEF DeletionInv
<1>1. StepFollowsEvent' /\ EventsMatchRequest' /\ ReceiptsAreReal'
    BY DEF StepFollowsEvent, EventsMatchRequest, ReceiptsAreReal
<1>2. RowsMatchRequest'
    BY DEF RowsMatchRequest, Active, Withdrawn
<1>3. \A r \in Requests : WasClaimed(r) => WasClaimed(r)'
    BY DEF WasClaimed
<1>4. ASSUME NEW p \in PrivacyWorkers, NEW i \in DOMAIN jobs'[p]
      PROVE  \E r \in Requests : r = jobs'[p][i] /\ WasClaimed(r)'
    <2>1. CASE \E r \in Requests : jobs'[p][i] = r /\ WasClaimed(r)'
        BY <2>1
    <2>2. CASE \E j \in DOMAIN jobs[p] : jobs'[p][i] = jobs[p][j]
        <3>1. PICK j \in DOMAIN jobs[p] : jobs'[p][i] = jobs[p][j]
            BY <2>2
        <3>2. jobs[p] \in Seq(Requests)
            BY DEF TypeOK
        <3>3. jobs[p][j] \in Requests
            BY <3>1, <3>2
        <3>4. WasClaimed(jobs[p][j])
            BY <3>1 DEF CarriedHasBegun
        <3> QED BY <1>3, <3>1, <3>3, <3>4
    <2> QED BY <1>4, <2>1, <2>2
<1>5. CarriedHasBegun'
    BY <1>4 DEF CarriedHasBegun, Begun
<1> QED BY <1>1, <1>2, <1>5

\* ClaimPrivacyErasures leases only steps of active requests with all receipts.
LEMMA ClaimErasuresInv ==
    ASSUME DeletionInv, TypeOK', NEW p \in PrivacyWorkers, ClaimPrivacyErasures(p)
    PROVE  DeletionInv'
<1> USE DEF DeletionInv
<1>1. PICK claimed \in SUBSET {r \in Requests : /\ ClaimableErasure(r)
                                                /\ request[r] \in Active
                                                /\ metricStepsComplete(r)} :
          /\ erasure' = [r \in Requests |->
                           IF r \in claimed THEN LeasedErasure(erasure[r], p) ELSE erasure[r]]
          /\ \/ \E q \in Seq(claimed) : jobs' = [jobs EXCEPT ![p] = q]
             \/ UNCHANGED jobs
    BY ClaimedJobs
<1>2. UNCHANGED <<request, metricStep, event, batch, outcome, posted, metricDone, erased>>
    BY DEF ClaimPrivacyErasures, outboxVars, world
<1>3. ASSUME NEW r \in claimed
      PROVE  r \in Requests /\ request[r] \in Active /\ erasure'[r].status = "processing"
    <2>1. r \in Requests /\ request[r] \in Active /\ erasure[r] \in ErasureRow
        BY <1>1 DEF TypeOK
    <2> QED BY <1>1, <2>1, LeasedErasureFacts
<1>4. \A r \in Requests : \/ erasure'[r].status = erasure[r].status
                          \/ /\ request[r] \in Active
                             /\ erasure'[r].status \in {"processing", "retry", "manual_dlq"}
    BY <1>1, <1>3
<1>5. ASSUME NEW v \in PrivacyWorkers, NEW i \in DOMAIN jobs'[v]
      PROVE  \/ \E j \in DOMAIN jobs[v] : jobs'[v][i] = jobs[v][j]
             \/ \E r \in Requests : jobs'[v][i] = r /\ WasClaimed(r)'
    <2>1. CASE jobs'[v] = jobs[v]
        BY <1>5, <2>1
    <2>2. CASE v = p /\ jobs'[v] \in Seq(claimed)
        <3>1. jobs'[v][i] \in claimed
            BY <1>5, <2>2
        <3>2. \A r \in claimed : WasClaimed(r)'
            BY <1>3 DEF WasClaimed
        <3> QED BY <1>3, <3>1, <3>2
    <2> QED BY <1>1, <2>1, <2>2 DEF TypeOK
<1> QED BY <1>2, <1>4, <1>5, ErasureRowInv

\* Nothing but the transition that erases makes a request "completed".
LEMMA EraseInv ==
    ASSUME DeletionInv, TypeOK', NEW p \in PrivacyWorkers, ErasePrivacyJob(p)
    PROVE  DeletionInv'
<1> USE DEF DeletionInv
<1>1. PICK r \in Requests : r = Head(jobs[p])
    BY DEF ErasePrivacyJob, TypeOK
<1>2. /\ jobs[p] # <<>> /\ request[r] \in Active /\ metricStepsComplete(r)
      /\ erased' = erased \cup {r}
      /\ erasure' = [erasure EXCEPT ![r] = CompletedErasure(@)]
      /\ request' = [request EXCEPT ![r] = "completed"]
      /\ jobs' \in {jobs, [jobs EXCEPT ![p] = Tail(@)]}
      /\ UNCHANGED <<metricStep, event, batch, outcome, posted, metricDone>>
    BY <1>1 DEF ErasePrivacyJob, EraseAllowed, outboxVars
<1>3. erasure'[r].status = "completed"
    BY <1>2, CompletedErasureFacts DEF TypeOK
<1>4. StepFollowsEvent' /\ ReceiptsAreReal'
    BY <1>2 DEF StepFollowsEvent, ReceiptsAreReal
<1>5. RowsMatchRequest'
    BY <1>2, <1>3 DEF RowsMatchRequest, TypeOK, Active, Withdrawn
<1>6. EventsMatchRequest'
    <2>1. ASSUME NEW e \in Events, e[1] = r PROVE event[e].status \in {"absent", "delivered"}
        <3>1. e \in {r} \X Aliases
            BY <2>1 DEF Events
        <3>2. metricStep[e] \in {"absent", "completed"}
            BY <1>2, <3>1 DEF metricStepsComplete
        <3> QED BY <3>2 DEF StepFollowsEvent, TypeOK, EventRow
    <2>2. \A e \in Events : e[1] \in Requests
        BY DEF Events
    <2> QED BY <1>2, <2>1, <2>2 DEF EventsMatchRequest, TypeOK, Active, Withdrawn
<1>7. CarriedHasBegun'
    <2>1. \A s \in Requests : WasClaimed(s) => WasClaimed(s)'
        BY <1>2, <1>3 DEF WasClaimed, TypeOK
    <2>2. \A e \in Events : Begun(e) => Begun(e)'
        BY <1>2 DEF Begun
    <2>3. \A v \in PrivacyWorkers : \A i \in DOMAIN jobs'[v] :
              \E j \in DOMAIN jobs[v] : jobs'[v][i] = jobs[v][j]
        <3>1. \A i \in DOMAIN Tail(jobs[p]) : \E j \in DOMAIN jobs[p] : Tail(jobs[p])[i] = jobs[p][j]
            BY <1>2, TailElements DEF TypeOK
        <3> QED BY <1>2, <3>1 DEF TypeOK
    <2> QED BY <1>2, <2>1, <2>2, <2>3, CarriedStays
<1> QED BY <1>4, <1>5, <1>6, <1>7

\* RetryPrivacyErasure puts back only a step that is "processing", hence of an active request.
LEMMA RetryErasureInv ==
    ASSUME DeletionInv, TypeOK', NEW p \in PrivacyWorkers, RetryPrivacyErasure(p)
    PROVE  DeletionInv'
<1> USE DEF DeletionInv
<1>1. PICK r \in Requests : r = Head(jobs[p])
    BY DEF RetryPrivacyErasure, TypeOK
<1>2. /\ jobs[p] # <<>> /\ erasure[r].status = "processing"
      /\ erasure' = [erasure EXCEPT ![r] = RetriedErasure(@)]
      /\ jobs' \in {jobs, [jobs EXCEPT ![p] = Tail(@)]}
      /\ UNCHANGED <<request, metricStep, event, batch, outcome, posted, metricDone, erased>>
    BY <1>1 DEF RetryPrivacyErasure, privacyVars, outboxVars, world
<1>3. request[r] \in Active
    BY <1>2 DEF RowsMatchRequest, TypeOK, Withdrawn, Terminal
<1>4. erasure'[r].status \in {"retry", "manual_dlq"}
    BY <1>2, RetriedErasureFacts DEF TypeOK
<1>5. \A s \in Requests : s # r => erasure'[s] = erasure[s]
    BY <1>2 DEF TypeOK
<1>6. \A v \in PrivacyWorkers : \A i \in DOMAIN jobs'[v] :
          \E j \in DOMAIN jobs[v] : jobs'[v][i] = jobs[v][j]
    <2>1. \A i \in DOMAIN Tail(jobs[p]) : \E j \in DOMAIN jobs[p] : Tail(jobs[p])[i] = jobs[p][j]
        <3>1. jobs[p] \in Seq(Requests)
            BY DEF TypeOK
        <3> QED BY <1>2, <3>1, TailElements
    <2> QED BY <1>2, <2>1 DEF TypeOK
<1> QED BY <1>2, <1>3, <1>4, <1>5, <1>6, ErasureRowInv

\* Every step keeps the invariant.
LEMMA NextInv == DeletionInv /\ [Next]_vars => DeletionInv'
<1> SUFFICES ASSUME DeletionInv, [Next]_vars PROVE DeletionInv'
    OBVIOUS
<1>1. TypeOK /\ TypeOK'
    BY NextTypeOK DEF DeletionInv
<1>2. ASSUME NEW w \in OutboxWorkers, AbandonBatch(w) PROVE DeletionInv'
    <2>1. /\ batch' = [batch EXCEPT ![w] = <<>>] /\ outcome' = [outcome EXCEPT ![w] = "none"]
          /\ UNCHANGED <<request, metricStep, event, erasure, jobs, posted, metricDone, erased>>
        BY <1>2 DEF AbandonBatch, rows, privacyVars, world
    <2>2. StepFollowsEvent' /\ RowsMatchRequest'
        BY <2>1 DEF DeletionInv, StepFollowsEvent, RowsMatchRequest
    <2>3. EventsMatchRequest'
        BY <2>1 DEF DeletionInv, EventsMatchRequest
    <2>4. \A v \in OutboxWorkers : /\ v # w => batch'[v] = batch[v] /\ outcome'[v] = outcome[v]
                                   /\ v = w => batch'[v] = <<>> /\ outcome'[v] = "none"
        BY <1>1, <2>1 DEF TypeOK
    <2>5. ReceiptsAreReal'
        BY <2>1, <2>4 DEF DeletionInv, ReceiptsAreReal
    <2>6. ASSUME NEW v \in OutboxWorkers, NEW i \in DOMAIN batch'[v]
          PROVE  i \in DOMAIN batch[v] /\ batch'[v][i] = batch[v][i]
        <3>1. CASE v = w
            <4>1. DOMAIN batch'[v] = {}
                BY <2>4, <3>1
            <4> QED BY <2>6, <4>1
        <3>2. CASE v # w
            <4>1. batch'[v] = batch[v]
                BY <2>4, <3>2
            <4> QED BY <2>6, <4>1
        <3> QED BY <3>1, <3>2
    <2>7. /\ \A f \in Events : Begun(f) => Begun(f)'
          /\ \A r \in Requests : WasClaimed(r) => WasClaimed(r)'
        BY <2>1 DEF Begun, WasClaimed
    <2>8. CarriedHasBegun'
        BY <1>1, <2>1, <2>6, <2>7, CarriedStays DEF DeletionInv
    <2> QED BY <1>1, <2>2, <2>3, <2>5, <2>8 DEF DeletionInv
<1>3. ASSUME NEW p \in PrivacyWorkers, AbandonJobs(p) PROVE DeletionInv'
    <2>1. /\ jobs' = [jobs EXCEPT ![p] = <<>>]
          /\ UNCHANGED <<request, metricStep, event, erasure, batch, outcome, posted, metricDone, erased>>
        BY <1>3 DEF AbandonJobs, rows, outboxVars, world
    <2>2. \A v \in PrivacyWorkers : \A i \in DOMAIN jobs'[v] :
              \E j \in DOMAIN jobs[v] : jobs'[v][i] = jobs[v][j]
        BY <1>1, <2>1 DEF TypeOK
    <2> QED BY <1>1, <2>1, <2>2, ErasureRowInv
<1>4. ASSUME NEW p \in PrivacyWorkers, ErasureFails(p) PROVE DeletionInv'
    BY <1>1, <1>4, ErasureRowInv DEF ErasureFails, rows, outboxVars, world
<1>5. ASSUME NEW r \in Requests, ErasureDue(r) PROVE DeletionInv'
    <2>1. erasure' = [erasure EXCEPT ![r] = Due(@)] /\ erasure[r] \in ErasureRow
        BY <1>1, <1>5 DEF ErasureDue, TypeOK
    <2>2. \A s \in Requests : erasure'[s].status = erasure[s].status
        BY <1>1, <2>1, DueErasureFacts DEF TypeOK
    <2> QED BY <1>1, <1>5, <2>2, ErasureRowInv DEF ErasureDue, outboxVars, privacyVars, world
<1>6. ASSUME NEW e \in Events, EventDue(e) PROVE DeletionInv'
    <2>1. /\ event' = [event EXCEPT ![e] = Due(@)] /\ event[e] \in EventRow
          /\ UNCHANGED <<request, metricStep, erasure, batch, outcome, jobs, posted, metricDone, erased>>
        BY <1>1, <1>6 DEF EventDue, TypeOK, outboxVars, privacyVars, world
    <2>2. \A f \in Events : /\ event'[f].status = event[f].status
                            /\ event'[f].attempts = event[f].attempts
                            /\ event'[f].polled = event[f].polled
        BY <1>1, <2>1, DueEventFacts DEF TypeOK
    <2>3. StepFollowsEvent' /\ RowsMatchRequest' /\ EventsMatchRequest' /\ ReceiptsAreReal'
        <3>1. StepFollowsEvent'
            BY <2>1, <2>2 DEF DeletionInv, StepFollowsEvent
        <3>2. RowsMatchRequest'
            BY <2>1 DEF DeletionInv, RowsMatchRequest
        <3>3. EventsMatchRequest'
            BY <2>1, <2>2 DEF DeletionInv, EventsMatchRequest
        <3>4. ReceiptsAreReal'
            BY <2>1 DEF DeletionInv, ReceiptsAreReal
        <3> QED BY <3>1, <3>2, <3>3, <3>4
    <2>4. \A f \in Events : Begun(f) => Begun(f)'
        BY <2>2 DEF Begun
    <2>5. \A r \in Requests : WasClaimed(r) => WasClaimed(r)'
        BY <2>1 DEF WasClaimed
    <2>6. CarriedHasBegun'
        BY <1>1, <2>1, <2>4, <2>5, CarriedStays DEF DeletionInv
    <2> QED BY <1>1, <2>3, <2>6 DEF DeletionInv
<1>7. ASSUME NEW e \in Events, MetricCompletes(e) PROVE DeletionInv'
    <2>1. /\ e \in posted /\ metricDone' = metricDone \cup {e}
          /\ UNCHANGED <<request, metricStep, event, erasure, batch, outcome, jobs, posted, erased>>
        BY <1>7 DEF MetricCompletes, rows, outboxVars, privacyVars
    <2>2. StepFollowsEvent' /\ RowsMatchRequest'
        BY <2>1 DEF DeletionInv, StepFollowsEvent, RowsMatchRequest
    <2>3. EventsMatchRequest'
        BY <2>1 DEF DeletionInv, EventsMatchRequest
    <2>4. CarriedHasBegun'
        BY <2>1 DEF DeletionInv, CarriedHasBegun, Begun, WasClaimed
    <2>5. ReceiptsAreReal'
        BY <2>1 DEF DeletionInv, ReceiptsAreReal
    <2> QED BY <1>1, <2>2, <2>3, <2>4, <2>5 DEF DeletionInv
<1>8. CASE UNCHANGED vars
    BY <1>1, <1>8 DEF vars, rows, outboxVars, privacyVars, world, DeletionInv, StepFollowsEvent,
        RowsMatchRequest, EventsMatchRequest, CarriedHasBegun, Begun, WasClaimed, ReceiptsAreReal
<1> QED BY <1>1, <1>2, <1>3, <1>4, <1>5, <1>6, <1>7, <1>8, CreateInv, UpdateInv, ClaimOutboxInv,
        DeliverInv, MarkInv, RetryInv, RescheduleInv, ClaimErasuresInv, EraseInv, RetryErasureInv
        DEF Next, OutboxStep, PrivacyStep

\* What steps, events, requests and the memory of workers say about each other
\* (DeletionInv) holds in every reachable state.
THEOREM DeletionInvariant == Spec => []DeletionInv
BY InitInv, NextInv, PTL DEF Spec

-----------------------------------------------------------------------------
(* The safety properties.                                                   *)

\* However many workers race, no subject is erased from YDB and no request is
\* completed before Metric has deleted every alias the request fanned out to.
THEOREM ErasureIsBacked == Spec => []ErasedAfterReceipts
<1>1. DeletionInv => ErasedAfterReceipts
    <2> SUFFICES ASSUME DeletionInv, NEW r \in Requests
                 PROVE  /\ r \in erased <=> request[r] = "completed"
                        /\ r \in erased => \A e \in {r} \X Aliases :
                                               metricStep[e] # "absent" => e \in metricDone
        BY DEF ErasedAfterReceipts
    <2>1. r \in erased <=> request[r] = "completed"
        BY DEF DeletionInv, RowsMatchRequest
    <2>2. ASSUME r \in erased, NEW e \in {r} \X Aliases, metricStep[e] # "absent"
          PROVE  e \in metricDone
        <3>1. e \in Events /\ e[1] = r
            BY DEF Events
        <3>2. event[e].status \in {"absent", "delivered"}
            BY <2>1, <2>2, <3>1 DEF DeletionInv, EventsMatchRequest
        <3>3. metricStep[e] = "completed"
            BY <2>2, <3>1, <3>2 DEF DeletionInv, StepFollowsEvent, TypeOK
        <3> QED BY <3>1, <3>3 DEF DeletionInv, ReceiptsAreReal
    <2> QED BY <2>1, <2>2
<1> QED BY <1>1, DeletionInvariant, PTL

\* A rejected or cancelled request reached neither Metric nor the erasure, and
\* no worker is on its way to either.
THEOREM WithdrawalIsClean == Spec => []WithdrawnLeavesNoTrace
<1>1. DeletionInv => WithdrawnLeavesNoTrace
    <2> SUFFICES ASSUME DeletionInv, NEW r \in Requests, request[r] \in Withdrawn
                 PROVE  /\ r \notin erased
                        /\ \A e \in {r} \X Aliases :
                              /\ e \notin posted
                              /\ \A w \in OutboxWorkers : \A i \in DOMAIN batch[w] : batch[w][i] # e
                        /\ \A p \in PrivacyWorkers : \A i \in DOMAIN jobs[p] : jobs[p][i] # r
        BY DEF WithdrawnLeavesNoTrace
    <2>1. r \notin erased /\ ~WasClaimed(r)
        BY DEF DeletionInv, RowsMatchRequest, WasClaimed, Withdrawn
    <2>2. ASSUME NEW e \in {r} \X Aliases PROVE ~Begun(e)
        <3>1. e \in Events /\ e[1] = r
            BY DEF Events
        <3> QED BY <3>1 DEF DeletionInv, EventsMatchRequest, Begun
    <2> QED BY <2>1, <2>2 DEF DeletionInv, CarriedHasBegun
<1> QED BY <1>1, DeletionInvariant, PTL

\* The outbox table and the steps table never disagree.
THEOREM TablesAgree == Spec => []StepFollowsEvent
<1>1. DeletionInv => StepFollowsEvent
    BY DEF DeletionInv
<1> QED BY <1>1, DeletionInvariant, PTL

-----------------------------------------------------------------------------
(* Settled requests.  Every update asks for an active request or for a row  *)
(* that is still open, and a settled request has no such row.               *)

\* The rows of r do not change.
RowsKept(r) ==
    /\ request'[r] = request[r] /\ erasure'[r] = erasure[r]
    /\ \A e \in {r} \X Aliases : metricStep'[e] = metricStep[e] /\ event'[e] = event[e]

\* The children of a settled request are settled: nothing is left that a worker may rewrite.
LEMMA SettledRowsAreClosed ==
    ASSUME DeletionInv, NEW r \in Requests, request[r] \in Terminal
    PROVE  /\ erasure[r].status \in {"completed", "cancelled"}
           /\ \A e \in {r} \X Aliases : /\ e \in Events /\ e[1] = r
                                        /\ event[e].status \in {"absent", "delivered", "cancelled"}
<1>1. erasure[r].status \in {"completed", "cancelled"}
    BY DEF DeletionInv, RowsMatchRequest, Terminal
<1>2. ASSUME NEW e \in {r} \X Aliases PROVE e \in Events /\ e[1] = r
    BY DEF Events
<1>3. ASSUME NEW e \in {r} \X Aliases
      PROVE  event[e].status \in {"absent", "delivered", "cancelled"}
    BY <1>2 DEF DeletionInv, EventsMatchRequest, Terminal
<1> QED BY <1>1, <1>2, <1>3

\* No single step changes a settled request or its children.
LEMMA SettledStep ==
    ASSUME DeletionInv, [Next]_vars, NEW r \in Requests, request[r] \in Terminal
    PROVE  RowsKept(r)
<1>1. erasure[r].status \in {"completed", "cancelled"}
    BY SettledRowsAreClosed
<1>2. \A e \in {r} \X Aliases : /\ e \in Events /\ e[1] = r
                                /\ event[e].status \in {"absent", "delivered", "cancelled"}
    BY SettledRowsAreClosed
<1>3. TypeOK
    BY DEF DeletionInv
<1>4. request[r] \notin Active /\ request[r] # "absent"
    BY DEF Terminal, Withdrawn, Active
<1>5. ASSUME NEW s \in Requests, CreatePrivacyRequest(s) PROVE RowsKept(r)
    <2>1. s # r
        BY <1>4, <1>5 DEF CreatePrivacyRequest
    <2>2. ASSUME NEW e \in {r} \X Aliases, NEW fanout \in SUBSET Aliases PROVE e \notin {s} \X fanout
        BY <1>2, <2>1
    <2> QED BY <1>2, <1>3, <1>5, <2>1, <2>2 DEF CreatePrivacyRequest, RowsKept, TypeOK
<1>6. ASSUME NEW s \in Requests, NEW status \in Active \cup Terminal,
             UpdatePrivacyRequestStatus(s, status)
      PROVE  RowsKept(r)
    <2>1. s # r
        BY <1>4, <1>6 DEF UpdatePrivacyRequestStatus, ValidPrivacyTransition, Active
    <2>2. ASSUME NEW e \in {r} \X Aliases PROVE e \notin {s} \X Aliases
        BY <1>2, <2>1
    <2>3. request'[r] = request[r]
        BY <1>3, <1>6, <2>1 DEF UpdatePrivacyRequestStatus, TypeOK
    <2>4. CASE cancelPrivacyChildren(s)
        BY <1>2, <1>3, <2>1, <2>2, <2>3, <2>4 DEF cancelPrivacyChildren, RowsKept, TypeOK
    <2>5. CASE UNCHANGED <<metricStep, event, erasure>>
        BY <2>3, <2>5 DEF RowsKept
    <2> QED BY <1>6, <2>4, <2>5 DEF UpdatePrivacyRequestStatus
<1>7. ASSUME NEW w \in OutboxWorkers, ClaimOutbox(w) PROVE RowsKept(r)
    <2>1. PICK claimed \in SUBSET {e \in Events : ClaimableEvent(e) /\ request[e[1]] \in Active} :
              event' = [e \in Events |->
                          IF e \in claimed THEN LeasedEvent(event[e], w) ELSE event[e]]
        BY <1>3, <1>7, ClaimedBatch
    <2>2. UNCHANGED <<request, metricStep, erasure>>
        BY <1>7 DEF ClaimOutbox
    <2> QED BY <1>2, <1>4, <2>1, <2>2 DEF RowsKept
<1>8. ASSUME NEW w \in OutboxWorkers, NEW e \in Events, e = Head(batch[w]),
             MarkOutboxDelivered(w) \/ RetryOutbox(w) \/ RescheduleOutbox(w)
      PROVE  RowsKept(r)
    <2>1. /\ event[e].status = "processing"
          /\ \A f \in Events : f # e => event'[f] = event[f] /\ metricStep'[f] = metricStep[f]
          /\ UNCHANGED <<request, erasure>>
        BY <1>3, <1>8 DEF MarkOutboxDelivered, RetryOutbox, RescheduleOutbox, TypeOK
    <2> QED BY <1>2, <2>1 DEF RowsKept
<1>9. ASSUME NEW w \in OutboxWorkers, MarkOutboxDelivered(w) \/ RetryOutbox(w) \/ RescheduleOutbox(w)
      PROVE  Head(batch[w]) \in Events
    <2>1. batch[w] # <<>>
        BY <1>9 DEF MarkOutboxDelivered, RetryOutbox, RescheduleOutbox
    <2>2. batch[w] \in Seq(Events)
        BY <1>3 DEF TypeOK
    <2> QED BY <2>1, <2>2
<1>10. ASSUME NEW p \in PrivacyWorkers, ClaimPrivacyErasures(p) PROVE RowsKept(r)
    <2>1. PICK claimed \in SUBSET {s \in Requests : /\ ClaimableErasure(s)
                                                    /\ request[s] \in Active
                                                    /\ metricStepsComplete(s)} :
              erasure' = [s \in Requests |->
                            IF s \in claimed THEN LeasedErasure(erasure[s], p) ELSE erasure[s]]
        BY <1>3, <1>10, ClaimedJobs
    <2> QED BY <1>4, <1>10, <2>1 DEF ClaimPrivacyErasures, RowsKept
<1>11. ASSUME NEW p \in PrivacyWorkers, ErasePrivacyJob(p) \/ RetryPrivacyErasure(p)
       PROVE  RowsKept(r)
    <2>1. Head(jobs[p]) # r
        BY <1>1, <1>11 DEF ErasePrivacyJob, EraseAllowed, RetryPrivacyErasure
    <2> QED BY <1>3, <1>11, <2>1 DEF ErasePrivacyJob, RetryPrivacyErasure, RowsKept, TypeOK
<1>12. ASSUME NEW s \in Requests, ErasureDue(s) PROVE RowsKept(r)
    BY <1>1, <1>3, <1>12 DEF ErasureDue, RowsKept, TypeOK
<1>13. ASSUME NEW e \in Events, EventDue(e) PROVE RowsKept(r)
    BY <1>2, <1>3, <1>13 DEF EventDue, RowsKept, TypeOK
<1>14. ASSUME UNCHANGED rows PROVE RowsKept(r)
    BY <1>14 DEF rows, RowsKept
<1> QED BY <1>5, <1>6, <1>7, <1>8, <1>9, <1>10, <1>11, <1>12, <1>13, <1>14
        DEF Next, OutboxStep, PrivacyStep, Deliver, AbandonBatch, ErasureFails, AbandonJobs,
            MetricCompletes, vars

\* No late worker, repeated transaction or operator revives a settled request.
THEOREM SettledStaysSettled == Spec => TerminalIsFinal
<1>1. DeletionInv /\ [Next]_vars =>
        [\A r \in Requests : request[r] \in Terminal =>
            /\ request'[r] = request[r] /\ erasure'[r] = erasure[r]
            /\ \A e \in {r} \X Aliases :
                  metricStep'[e] = metricStep[e] /\ event'[e] = event[e]]_vars
    BY SettledStep DEF RowsKept
<1> QED BY <1>1, DeletionInvariant, PTL DEF Spec, TerminalIsFinal

-----------------------------------------------------------------------------
(* PrivacyDeletion implements DeletionPromise. *)

\* What an abstract step sees of the detailed state.
AbsPhase == [r \in Requests |-> Phase(r)]
AbsOwed == [r \in Requests |-> Owed(r)]

\* Empty tables are a service that owes nothing.
LEMMA InitRefines == Init => Promise!Init
<1> SUFFICES ASSUME Init PROVE Promise!Init
    OBVIOUS
<1>1. \A r \in Requests : request[r] = "absent" /\ \A a \in Aliases : metricStep[<<r, a>>] = "absent"
    BY DEF Init, Events
<1>2. \A r \in Requests : Phase(r) = "none" /\ Owed(r) = {}
    BY <1>1 DEF Phase, Owed, Active, Withdrawn
<1> QED BY <1>2 DEF Init, Promise!Init

\* A step that keeps the open/closed state of requests, the fan-outs and what
\* Metric was asked and did is invisible.
LEMMA Invisible ==
    ASSUME \A r \in Requests : Phase(r)' = Phase(r),
           \A e \in Events : metricStep'[e] = "absent" <=> metricStep[e] = "absent",
           posted' = posted, metricDone' = metricDone
    PROVE  UNCHANGED Promise!vars
<1>1. \A r \in Requests : Owed(r)' = Owed(r)
    BY DEF Owed, Events
<1> QED BY <1>1 DEF Promise!vars

\* The phase of a request depends on its status alone.
LEMMA PhaseOfStatus ==
    ASSUME TypeOK, TypeOK', NEW r \in Requests
    PROVE  /\ request[r] = "absent" => Phase(r) = "none"
           /\ request[r] \in Active <=> Phase(r) = "open"
           /\ request[r] \in Withdrawn => Phase(r) = "withdrawn"
           /\ request[r] = "completed" => Phase(r) = "erased"
           /\ request'[r] = "absent" => Phase(r)' = "none"
           /\ request'[r] \in Active => Phase(r)' = "open"
           /\ request'[r] \in Withdrawn => Phase(r)' = "withdrawn"
           /\ request'[r] = "completed" => Phase(r)' = "erased"
           /\ request'[r] = request[r] => Phase(r)' = Phase(r)
<1>1. request[r] \in {"absent", "requested", "processing", "rejected", "cancelled", "completed"}
    BY DEF TypeOK, Active, Terminal, Withdrawn
<1> QED BY <1>1 DEF Phase, Active, Withdrawn

\* CreatePrivacyRequest opens the request in the abstract specification.
LEMMA CreateRefines ==
    ASSUME DeletionInv, TypeOK', NEW r \in Requests, CreatePrivacyRequest(r)
    PROVE  Promise!Open(r)
<1>1. TypeOK
    BY DEF DeletionInv
<1>2. PICK fanout \in SUBSET Aliases :
          metricStep' = [e \in Events |-> IF e \in {r} \X fanout THEN "pending" ELSE metricStep[e]]
    BY DEF CreatePrivacyRequest
<1>3. /\ request[r] = "absent" /\ request' = [request EXCEPT ![r] = "requested"]
      /\ UNCHANGED <<posted, metricDone>>
    BY DEF CreatePrivacyRequest, world
<1>4. \A a \in Aliases : metricStep[<<r, a>>] = "absent"
    <2>1. ASSUME NEW a \in Aliases PROVE metricStep[<<r, a>>] = "absent"
        <3>1. <<r, a>> \in Events /\ <<r, a>>[1] = r
            BY DEF Events
        <3>2. event[<<r, a>>].status = "absent"
            BY <1>3, <3>1 DEF DeletionInv, EventsMatchRequest
        <3> QED BY <1>1, <3>1, <3>2 DEF DeletionInv, StepFollowsEvent, TypeOK
    <2> QED BY <2>1
<1>5. Phase(r) = "none" /\ Phase(r)' = "open" /\ \A s \in Requests : s # r => Phase(s)' = Phase(s)
    BY <1>1, <1>3, PhaseOfStatus DEF Active, TypeOK
<1>6. Owed(r)' = fanout
    BY <1>2, <1>4 DEF Owed, Events
<1>7. ASSUME NEW s \in Requests, s # r PROVE Owed(s)' = Owed(s)
    BY <1>2, <1>7 DEF Owed, Events
<1>8. AbsPhase' = [AbsPhase EXCEPT ![r] = "open"] /\ AbsOwed' = [AbsOwed EXCEPT ![r] = fanout]
    BY <1>5, <1>6, <1>7 DEF AbsPhase, AbsOwed
<1> QED BY <1>3, <1>5, <1>8 DEF Promise!Open, AbsPhase, AbsOwed

\* Rejecting or cancelling withdraws it, before anything was asked of Metric.
LEMMA WithdrawRefines ==
    ASSUME DeletionInv, TypeOK', NEW r \in Requests, NEW status \in Withdrawn,
           UpdatePrivacyRequestStatus(r, status)
    PROVE  Promise!Withdraw(r)
<1>1. TypeOK
    BY DEF DeletionInv
<1>2. /\ request[r] \in Active /\ request' = [request EXCEPT ![r] = status]
      /\ ~privacyDeliveryStarted(r) /\ cancelPrivacyChildren(r)
      /\ UNCHANGED <<posted, metricDone>>
    BY DEF UpdatePrivacyRequestStatus, ValidPrivacyTransition, Active, world
<1>3. Phase(r) = "open" /\ Phase(r)' = "withdrawn" /\ \A s \in Requests : s # r => Phase(s)' = Phase(s)
    BY <1>1, <1>2, PhaseOfStatus DEF TypeOK
<1>4. \A e \in Events : metricStep'[e] = "absent" <=> metricStep[e] = "absent"
    BY <1>2 DEF cancelPrivacyChildren
<1>5. \A s \in Requests : Owed(s)' = Owed(s)
    BY <1>4 DEF Owed, Events
<1>6. ASSUME NEW e \in {r} \X Owed(r), e \in posted PROVE FALSE
    <2>1. e \in {r} \X Aliases
        BY DEF Owed
    <2>2. Begun(e)
        BY <1>6 DEF DeletionInv, CarriedHasBegun
    <2> QED BY <1>2, <2>1, <2>2 DEF privacyDeliveryStarted, Begun
<1>7. AbsPhase' = [AbsPhase EXCEPT ![r] = "withdrawn"] /\ AbsOwed' = AbsOwed
    BY <1>3, <1>5 DEF AbsPhase, AbsOwed
<1> QED BY <1>2, <1>3, <1>6, <1>7 DEF Promise!Withdraw, Promise!Owed, AbsPhase, AbsOwed

\* ErasePrivacyJob erases it when Metric has done all that is owed.
LEMMA EraseRefines ==
    ASSUME DeletionInv, TypeOK', NEW p \in PrivacyWorkers, ErasePrivacyJob(p)
    PROVE  \E r \in Requests : Promise!Erase(r)
<1>1. TypeOK
    BY DEF DeletionInv
<1>2. PICK r \in Requests : r = Head(jobs[p])
    BY <1>1 DEF ErasePrivacyJob, TypeOK
<1>3. /\ request[r] \in Active /\ metricStepsComplete(r)
      /\ request' = [request EXCEPT ![r] = "completed"]
      /\ UNCHANGED <<metricStep, posted, metricDone>>
    BY <1>2 DEF ErasePrivacyJob, EraseAllowed
<1>4. Phase(r) = "open" /\ Phase(r)' = "erased" /\ \A s \in Requests : s # r => Phase(s)' = Phase(s)
    BY <1>1, <1>3, PhaseOfStatus DEF TypeOK
<1>5. ASSUME NEW e \in {r} \X Owed(r) PROVE e \in metricDone
    <2>1. e \in {r} \X Aliases /\ e \in Events /\ metricStep[e] # "absent"
        BY DEF Owed, Events
    <2>2. metricStep[e] = "completed"
        BY <1>3, <2>1 DEF metricStepsComplete
    <2> QED BY <2>1, <2>2 DEF DeletionInv, ReceiptsAreReal
<1>6. \A s \in Requests : Owed(s)' = Owed(s)
    BY <1>3 DEF Owed
<1>7. AbsPhase' = [AbsPhase EXCEPT ![r] = "erased"] /\ AbsOwed' = AbsOwed
    BY <1>4, <1>6 DEF AbsPhase, AbsOwed
<1>8. Promise!Erase(r)
    BY <1>3, <1>4, <1>5, <1>7 DEF Promise!Erase, Promise!Owed, AbsPhase, AbsOwed
<1> QED BY <1>8

\* Metric is never asked for more than an open request owes: an event that a
\* worker still carries or Metric still works on belongs to an open request,
\* or to a completed one, and then Metric has completed it already.
LEMMA MetricRefines ==
    ASSUME DeletionInv, TypeOK', NEW e \in Events, Begun(e),
           UNCHANGED <<request, metricStep>>,
           \/ posted' = posted \cup {e} /\ metricDone' \in {metricDone, metricDone \cup {e}}
           \/ e \in posted /\ posted' = posted /\ metricDone' = metricDone \cup {e}
    PROVE  (\E r \in Requests : Promise!Metric(r, e)) \/ UNCHANGED Promise!vars
<1>1. TypeOK
    BY DEF DeletionInv
<1>2. /\ \A s \in Requests : Phase(s)' = Phase(s) /\ Owed(s)' = Owed(s)
      /\ AbsPhase' = AbsPhase /\ AbsOwed' = AbsOwed
    <2>1. \A s \in Requests : Phase(s)' = Phase(s)
        BY <1>1, PhaseOfStatus
    <2>2. \A s \in Requests : Owed(s)' = Owed(s)
        BY DEF Owed
    <2> QED BY <2>1, <2>2 DEF AbsPhase, AbsOwed
<1>3. PICK r \in Requests, a \in Aliases : e = <<r, a>>
    BY DEF Events
<1>4. request[r] \in Active \/ request[r] = "completed"
    <2>1. request[r] \in {"absent"} \cup Active \cup Terminal
        BY <1>1 DEF TypeOK
    <2>2. e[1] = r
        BY <1>3
    <2> QED BY <2>1, <2>2 DEF DeletionInv, EventsMatchRequest, Begun, Terminal, Withdrawn
<1>5. metricStep[e] # "absent"
    BY <1>1 DEF Begun, DeletionInv, StepFollowsEvent, TypeOK, EventRow
<1>6. CASE request[r] \in Active
    <2>1. Phase(r) = "open"
        BY <1>1, <1>6, PhaseOfStatus
    <2>2. e \in {r} \X Owed(r)
        BY <1>3, <1>5 DEF Owed
    <2>3. posted' = posted \cup {e} /\ metricDone' \in {metricDone, metricDone \cup {e}}
        OBVIOUS
    <2>4. Promise!Metric(r, e)
        BY <1>2, <2>1, <2>2, <2>3 DEF Promise!Metric, Promise!Owed, AbsPhase, AbsOwed
    <2> QED BY <2>4
<1>7. CASE request[r] = "completed"
    <2>1. event[e].status = "delivered"
        BY <1>3, <1>7 DEF DeletionInv, EventsMatchRequest, Begun
    <2>2. e \in metricDone /\ e \in posted
        BY <2>1 DEF DeletionInv, StepFollowsEvent, ReceiptsAreReal
    <2>3. posted' = posted /\ metricDone' = metricDone
        BY <2>2
    <2> QED BY <1>2, <2>3, Invisible
<1> QED BY <1>4, <1>6, <1>7

\* Every step is a step of DeletionPromise or invisible to it.
LEMMA NextRefines ==
    ASSUME DeletionInv, [Next]_vars
    PROVE  Promise!Next \/ UNCHANGED Promise!vars
<1>1. TypeOK /\ TypeOK'
    BY NextTypeOK DEF DeletionInv
<1>2. ASSUME NEW r \in Requests, CreatePrivacyRequest(r) PROVE Promise!Next
    BY <1>1, <1>2, CreateRefines DEF Promise!Next
<1>3. ASSUME NEW r \in Requests, NEW status \in Active \cup Terminal,
             UpdatePrivacyRequestStatus(r, status)
      PROVE  Promise!Next \/ UNCHANGED Promise!vars
    <2>1. CASE status \in Withdrawn
        BY <1>1, <1>3, <2>1, WithdrawRefines DEF Promise!Next
    <2>2. CASE status \notin Withdrawn
        <3>1. /\ request[r] \in Active /\ status \in Active
              /\ request' = [request EXCEPT ![r] = status]
              /\ UNCHANGED <<metricStep, posted, metricDone>>
            BY <1>3, <2>2 DEF UpdatePrivacyRequestStatus, ValidPrivacyTransition, Active, Withdrawn, world
        <3>2. \A s \in Requests : Phase(s)' = Phase(s)
            BY <1>1, <3>1, PhaseOfStatus DEF TypeOK
        <3> QED BY <3>1, <3>2, Invisible
    <2> QED BY <2>1, <2>2
<1>4. ASSUME NEW w \in OutboxWorkers, NEW result \in Results, Deliver(w, result)
      PROVE  Promise!Next \/ UNCHANGED Promise!vars
    <2>1. PICK e \in Events : e = Head(batch[w])
        BY <1>1, <1>4 DEF Deliver, TypeOK
    <2>2. Begun(e)
        <3>1. batch[w] \in Seq(Events)
            BY <1>1 DEF DeletionInv, TypeOK
        <3>2. batch[w] # <<>>
            BY <1>4, Zenon DEF Deliver
        <3>3. 1 \in DOMAIN batch[w] /\ e = batch[w][1]
            BY <2>1, <3>1, <3>2
        <3> QED BY <1>1, <3>3 DEF DeletionInv, CarriedHasBegun
    <2>3. UNCHANGED <<request, metricStep>>
        BY <1>4 DEF Deliver, rows
    <2>4. CASE UNCHANGED <<posted, metricDone>>
        <3>1. \A s \in Requests : Phase(s)' = Phase(s)
            BY <1>1, <2>3, PhaseOfStatus
        <3> QED BY <2>3, <2>4, <3>1, Invisible
    <2>5. CASE posted' = posted \cup {e} /\ metricDone' \in {metricDone, metricDone \cup {e}}
        BY <1>1, <2>2, <2>3, <2>5, MetricRefines DEF Promise!Next, Events
    <2> QED BY <1>4, <2>1, <2>4, <2>5 DEF Deliver
<1>5. ASSUME NEW e \in Events, MetricCompletes(e) PROVE Promise!Next \/ UNCHANGED Promise!vars
    <2>1. /\ e \in posted /\ posted' = posted /\ metricDone' = metricDone \cup {e}
          /\ UNCHANGED <<request, metricStep>>
        BY <1>5 DEF MetricCompletes, rows
    <2>2. Begun(e)
        BY <2>1 DEF DeletionInv, CarriedHasBegun
    <2> QED BY <1>1, <2>1, <2>2, MetricRefines DEF Promise!Next, Events
<1>6. ASSUME NEW p \in PrivacyWorkers, ErasePrivacyJob(p) PROVE Promise!Next
    BY <1>1, <1>6, EraseRefines DEF Promise!Next
<1>7. ASSUME NEW w \in OutboxWorkers, MarkOutboxDelivered(w) PROVE UNCHANGED Promise!vars
    <2>1. PICK e \in Events : e = Head(batch[w])
        BY <1>1, <1>7 DEF MarkOutboxDelivered, TypeOK
    <2>2. /\ event[e].status = "processing" /\ metricStep' = [metricStep EXCEPT ![e] = "completed"]
          /\ UNCHANGED <<request, posted, metricDone>>
        BY <1>7, <2>1 DEF MarkOutboxDelivered, world
    <2>3. metricStep[e] = "pending"
        BY <2>2 DEF DeletionInv, StepFollowsEvent
    <2>4. \A f \in Events : metricStep'[f] = "absent" <=> metricStep[f] = "absent"
        BY <1>1, <2>2, <2>3 DEF TypeOK
    <2>5. \A s \in Requests : Phase(s)' = Phase(s)
        BY <1>1, <2>2, PhaseOfStatus
    <2> QED BY <2>2, <2>4, <2>5, Invisible
<1>8. ASSUME UNCHANGED <<request, metricStep, posted, metricDone>> PROVE UNCHANGED Promise!vars
    <2>1. \A s \in Requests : Phase(s)' = Phase(s)
        BY <1>1, <1>8, PhaseOfStatus
    <2> QED BY <1>8, <2>1, Invisible
<1>9. ASSUME NEW w \in OutboxWorkers,
             ClaimOutbox(w) \/ RetryOutbox(w) \/ RescheduleOutbox(w) \/ AbandonBatch(w)
      PROVE  UNCHANGED <<request, metricStep, posted, metricDone>>
    BY <1>9 DEF ClaimOutbox, RetryOutbox, RescheduleOutbox, AbandonBatch, rows, world
<1>10. ASSUME NEW p \in PrivacyWorkers,
              ClaimPrivacyErasures(p) \/ ErasureFails(p) \/ RetryPrivacyErasure(p) \/ AbandonJobs(p)
       PROVE  UNCHANGED <<request, metricStep, posted, metricDone>>
    BY <1>10 DEF ClaimPrivacyErasures, ErasureFails, RetryPrivacyErasure, AbandonJobs, rows, world
<1>11. ASSUME NEW r \in Requests, ErasureDue(r) PROVE UNCHANGED <<request, metricStep, posted, metricDone>>
    BY <1>11 DEF ErasureDue, world
<1>12. ASSUME NEW e \in Events, EventDue(e) PROVE UNCHANGED <<request, metricStep, posted, metricDone>>
    BY <1>12 DEF EventDue, world
<1>13. ASSUME UNCHANGED vars PROVE UNCHANGED <<request, metricStep, posted, metricDone>>
    BY <1>13 DEF vars, rows, world
<1> QED BY <1>2, <1>3, <1>4, <1>5, <1>6, <1>7, <1>8, <1>9, <1>10, <1>11, <1>12, <1>13
        DEF Next, OutboxStep, PrivacyStep

\* The deletion machinery implements its promise, for any number of requests,
\* aliases and concurrent workers.
THEOREM DeletionRefines == Spec => KeepsPromise
<1>1. DeletionInv /\ [Next]_vars => [Promise!Next]_(Promise!vars)
    BY NextRefines
<1> QED BY <1>1, InitRefines, DeletionInvariant, PTL DEF Spec, KeepsPromise, Promise!Spec
=============================================================================
