------------------------------ MODULE Webhooks ------------------------------
(***************************************************************************)
(* Webhook delivery: Enqueue, which verify calls once the payment is       *)
(* committed, and the dispatcher goroutine (internal/webhooks).            *)
(*                                                                         *)
(* The database keeps one row per event and endpoint.  What Enqueue has    *)
(* listed, and the batch and the answer the dispatcher holds, are in the   *)
(* server's memory and are lost when it stops.  Times are kept relative to *)
(* the present: wait is next_retry_at - now().                             *)
(***************************************************************************)
EXTENDS Integers, Sequences, FiniteSets

CONSTANTS
  Events,         \* payments of one merchant, each with its event
  Endpoints,      \* webhook_endpoints of that merchant
  Subscribed,     \* the endpoints whose events list has the event's type
  BatchSize,      \* rows handled in a poll
  RetrySchedule,  \* the delays of retry.go:7
  LongestDelay,   \* the longest of them
  MaxLag,         \* bound: lateness is told apart up to this
  MaxFaults,      \* bound: crashes of the server and database errors
  MaxResets       \* bound: calls of Redeliver

ASSUME WebhooksAssumption ==
  /\ Subscribed \subseteq Endpoints
  /\ BatchSize \in Nat \ {0}
  /\ RetrySchedule \in Seq(Nat)
  /\ LongestDelay \in Nat
  /\ \A i \in 1 .. Len(RetrySchedule) : RetrySchedule[i] <= LongestDelay
  /\ \A i, j \in 1 .. Len(RetrySchedule) :
       i <= j => RetrySchedule[i] <= RetrySchedule[j]
  /\ MaxLag \in Nat
  /\ MaxFaults \in Nat
  /\ MaxResets \in Nat

VARIABLES
  stage,     \* of each event: "unpaid", "enqueue", "insert" or "over"
  todo,      \* endpoints for which Enqueue still has to insert a row
  endpoint,  \* webhook_endpoints.status
  row,       \* webhook_deliveries
  batch,     \* rows the dispatcher has fetched and not yet sent
  inflight,  \* the row being sent, and its answer; a set of at most one
  faults,    \* crashes and errors so far
  resets,    \* history: calls of Redeliver, by delivery
  sent,      \* history: requests made, by delivery
  idle       \* history: ticks since the last failure of a pending row

queueVars == <<stage, todo, endpoint>>
histVars  == <<resets, sent, idle>>
vars == <<queueVars, row, batch, inflight, faults, histVars>>

Deliveries == Events \X Endpoints
Attempts == 1 .. Len(RetrySchedule)
MaxSends == Len(RetrySchedule) + 1
Waits == -MaxLag .. LongestDelay
NoRow == [status |-> "none", attempts |-> 0, wait |-> 0]
Fetched == [delivery : Deliveries, attempts : Nat, due : Waits]

TypeOK ==
  /\ stage \in [Events -> {"unpaid", "enqueue", "insert", "over"}]
  /\ todo \in [Events -> SUBSET Subscribed]
  /\ endpoint \in [Endpoints -> {"active", "disabled"}]
  /\ row \in [Deliveries -> [status : {"none", "pending", "delivered", "failed"},
                             attempts : 0 .. MaxSends, wait : Waits]]
  /\ batch \subseteq Fetched
  /\ inflight \subseteq [row : Fetched, ok : BOOLEAN]
  /\ faults \in 0 .. MaxFaults
  /\ resets \in [Deliveries -> 0 .. MaxResets]
  /\ sent \in [Deliveries -> Nat]
  /\ idle \in [Deliveries -> 0 .. LongestDelay]

Init ==
  /\ stage = [e \in Events |-> "unpaid"]
  /\ todo = [e \in Events |-> {}]
  /\ endpoint = [p \in Endpoints |-> "active"]
  /\ row = [d \in Deliveries |-> NoRow]
  /\ batch = {}
  /\ inflight = {}
  /\ faults = 0
  /\ resets = [d \in Deliveries |-> 0]
  /\ sent = [d \in Deliveries |-> 0]
  /\ idle = [d \in Deliveries |-> 0]

-----------------------------------------------------------------------------
(* Queueing an event.                                                      *)

\* verify commits the payment; Enqueue comes after the transaction.
CommitPayment(e) ==
  /\ stage[e] = "unpaid"
  /\ stage' = [stage EXCEPT ![e] = "enqueue"]
  /\ UNCHANGED <<todo, endpoint, row, batch, inflight, faults, histVars>>

\* Mutant of ListEndpoints: an endpoint that is not active ends the loop.
ListEndpointsAllActive(e) ==
  /\ stage[e] = "enqueue"
  /\ stage' = [stage EXCEPT ![e] = "insert"]
  /\ todo' = [todo EXCEPT ![e] =
                IF \A p \in Endpoints : endpoint[p] = "active" THEN Subscribed ELSE {}]
  /\ UNCHANGED <<endpoint, row, batch, inflight, faults, histVars>>

\* Endpoints that are not active or not subscribed are skipped.
Receivers == {p \in Subscribed : endpoint[p] = "active"}

\* ListWebhookEndpoints: the loop over the rows that follows does not read
\* them again.
ListEndpoints(e) ==
  /\ stage[e] = "enqueue"
  /\ stage' = [stage EXCEPT ![e] = "insert"]
  /\ todo' = [todo EXCEPT ![e] = Receivers]
  /\ UNCHANGED <<endpoint, row, batch, inflight, faults, histVars>>

\* Each row is inserted by a statement of its own, due at once.
CreateDelivery(e, p) ==
  /\ p \in todo[e]
  /\ todo' = [todo EXCEPT ![e] = @ \ {p}]
  /\ row' = [row EXCEPT ![<<e, p>>] = [status |-> "pending", attempts |-> 0, wait |-> 0]]
  /\ UNCHANGED <<stage, endpoint, batch, inflight, faults, histVars>>

Queueing(e) == stage[e] = "enqueue" \/ todo[e] # {}

\* A failed statement ends Enqueue; verify logs the error and goes on.
EnqueueError(e) ==
  /\ Queueing(e)
  /\ faults < MaxFaults
  /\ faults' = faults + 1
  /\ stage' = [stage EXCEPT ![e] = "over"]
  /\ todo' = [todo EXCEPT ![e] = {}]
  /\ UNCHANGED <<endpoint, row, batch, inflight, histVars>>

-----------------------------------------------------------------------------
(* The dispatcher.                                                         *)

\* Mutant of Due: only rows that fall due at the very time of the poll.
DueNow ==
  {d \in Deliveries :
     /\ row[d].status = "pending"
     /\ row[d].wait = 0
     /\ endpoint[d[2]] = "active"}

\* The pending rows whose time has come, of the endpoints not disabled.
Due ==
  {d \in Deliveries :
     /\ row[d].status = "pending"
     /\ row[d].wait <= 0
     /\ endpoint[d[2]] = "active"}

\* ORDER BY next_retry_at LIMIT BatchSize.
Earliest(B) ==
  /\ B \subseteq Due
  /\ \A d \in B, o \in Due \ B : row[d].wait <= row[o].wait
  /\ Cardinality(B) <= BatchSize
  /\ B = Due \/ Cardinality(B) = BatchSize

\* The rows are copied, with their attempt_count, before the first is sent.
GetPendingDeliveries ==
  /\ batch = {} /\ inflight = {}
  /\ \E B \in SUBSET Due :
       /\ B # {}
       /\ Earliest(B)
       /\ batch' = {[delivery |-> d, attempts |-> row[d].attempts,
                     due |-> row[d].wait] : d \in B}
  /\ UNCHANGED <<queueVars, row, inflight, faults, histVars>>

\* deliver, up to the answer: a 2xx answer or anything else, a timeout too.
Post(r, ok) ==
  /\ r \in batch
  /\ inflight = {}
  /\ \A o \in batch : r.due <= o.due
  /\ batch' = batch \ {r}
  /\ inflight' = {[row |-> r, ok |-> ok]}
  /\ sent' = [sent EXCEPT ![r.delivery] = @ + 1]
  /\ UNCHANGED <<queueVars, row, faults, resets, idle>>

\* Mutant of RetryAfter: every retry waits as long as the first.
RetrySoon(attempt) ==
  IF attempt \in Attempts
  THEN [status |-> "pending", wait |-> RetrySchedule[1]]
  ELSE [status |-> "failed", wait |-> 0]

\* Mutant of RetryAfter: the last delay is repeated and nothing ever fails.
RetryForever(attempt) ==
  [status |-> "pending",
   wait |-> RetrySchedule[IF attempt \in Attempts THEN attempt ELSE Len(RetrySchedule)]]

\* Mutant of RetryAfter: the last delay of the schedule is not used.
RetryFewer(attempt) ==
  IF attempt + 1 \in Attempts
  THEN [status |-> "pending", wait |-> RetrySchedule[attempt]]
  ELSE [status |-> "failed", wait |-> 0]

\* NextRetry.
RetryAfter(attempt) ==
  IF attempt \in Attempts
  THEN [status |-> "pending", wait |-> RetrySchedule[attempt]]
  ELSE [status |-> "failed", wait |-> 0]

\* UpdateDeliverySuccess, by id alone.
RecordSuccess(a) ==
  /\ a.ok
  /\ row' = [row EXCEPT ![a.row.delivery].status = "delivered"]
  /\ inflight' = {}
  /\ UNCHANGED <<queueVars, batch, faults, histVars>>

\* Mutant of RecordFailure: attempt_count is written only with a new status.
RecordUncounted(a) ==
  LET d == a.row.delivery
      next == RetryAfter(a.row.attempts + 1)
  IN  /\ ~a.ok
      /\ row' = [row EXCEPT ![d].status = next.status, ![d].wait = next.wait]
      /\ inflight' = {}
      /\ idle' = [idle EXCEPT ![d] = 0]
      /\ UNCHANGED <<queueVars, batch, faults, resets, sent>>

\* recordFailure: attempt_count grows in the row, but what comes next is
\* computed from the attempt_count fetched with the batch.
RecordFailure(a) ==
  LET d == a.row.delivery
      next == RetryAfter(a.row.attempts + 1)
  IN  /\ ~a.ok
      /\ row' = [row EXCEPT ![d] = [status |-> next.status, wait |-> next.wait,
                                    attempts |-> row[d].attempts + 1]]
      /\ inflight' = {}
      /\ idle' = [idle EXCEPT ![d] = 0]
      /\ UNCHANGED <<queueVars, batch, faults, resets, sent>>

\* A failed statement ends Run; startWorkers starts it again with no batch.
DispatchError ==
  /\ batch # {} \/ inflight # {}
  /\ faults < MaxFaults
  /\ faults' = faults + 1
  /\ batch' = {}
  /\ inflight' = {}
  /\ UNCHANGED <<queueVars, row, histVars>>

-----------------------------------------------------------------------------
(* The merchant, the process and the clock.                                *)

\* Redeliver resets the row of any delivery, sent, failed or in flight.
Redeliver(d) ==
  /\ row[d].status # "none"
  /\ resets[d] < MaxResets
  /\ row' = [row EXCEPT ![d] = [status |-> "pending", attempts |-> 0, wait |-> 0]]
  /\ resets' = [resets EXCEPT ![d] = @ + 1]
  /\ UNCHANGED <<queueVars, batch, inflight, faults, sent, idle>>

DeleteWebhookEndpoint(p) ==
  /\ endpoint[p] = "active"
  /\ endpoint' = [endpoint EXCEPT ![p] = "disabled"]
  /\ UNCHANGED <<stage, todo, row, batch, inflight, faults, histVars>>

\* The server stops and starts again: what is only in memory is gone.
Crash ==
  /\ faults < MaxFaults
  /\ faults' = faults + 1
  /\ stage' = [e \in Events |-> IF Queueing(e) THEN "over" ELSE stage[e]]
  /\ todo' = [e \in Events |-> {}]
  /\ batch' = {}
  /\ inflight' = {}
  /\ UNCHANGED <<endpoint, row, histVars>>

\* Time passes for every row that waits.
Tick ==
  /\ \E d \in Deliveries : row[d].status = "pending" /\ row[d].wait > -MaxLag
  /\ row' = [d \in Deliveries |->
               IF row[d].status = "pending" /\ row[d].wait > -MaxLag
               THEN [row[d] EXCEPT !.wait = @ - 1] ELSE row[d]]
  /\ idle' = [d \in Deliveries |->
                IF row[d].attempts = 0 \/ row[d].status # "pending" THEN 0
                ELSE IF idle[d] < LongestDelay THEN idle[d] + 1 ELSE idle[d]]
  /\ UNCHANGED <<queueVars, batch, inflight, faults, resets, sent>>

EnqueueStep(e) == ListEndpoints(e) \/ \E p \in Endpoints : CreateDelivery(e, p)

Record == \E a \in inflight : RecordSuccess(a) \/ RecordFailure(a)

DispatchStep ==
  \/ GetPendingDeliveries
  \/ \E r \in batch, ok \in BOOLEAN : Post(r, ok)
  \/ Record

Next ==
  \/ \E e \in Events : CommitPayment(e) \/ EnqueueStep(e) \/ EnqueueError(e)
  \/ DispatchStep
  \/ DispatchError
  \/ \E d \in Deliveries : Redeliver(d)
  \/ \E p \in Endpoints : DeleteWebhookEndpoint(p)
  \/ Crash
  \/ Tick

Spec == Init /\ [][Next]_vars

\* The dispatcher is a goroutine that is started again whenever it returns,
\* a call of Enqueue runs to its end, and time passes.
Fairness ==
  /\ \A e \in Events : WF_vars(EnqueueStep(e))
  /\ WF_vars(DispatchStep)
  /\ WF_vars(Tick)

FairSpec == Spec /\ Fairness

-----------------------------------------------------------------------------
(* Properties.                                                             *)

\* However sends, crashes, errors and redeliveries interleave, an endpoint is
\* sent no more than the schedule and its first attempt allow for, each time
\* the merchant asks, plus one for each send that was never recorded.
SendsBounded ==
  \A d \in Deliveries : sent[d] <= MaxSends * (resets[d] + 1) + faults

\* A retry comes no sooner after the failure before it than the schedule says
\* for that many failures.
Backoff ==
  [][\A d \in Deliveries :
       (sent'[d] > sent[d] /\ row[d].attempts > 0)
         => idle[d] >= RetrySchedule[row[d].attempts]]_vars

\* No delivery is forgotten, whatever the batch size, the answers and the
\* faults: it is delivered or given up, unless its endpoint is disabled.
Settles ==
  \A d \in Deliveries :
    row[d].status = "pending" ~>
      (row[d].status \in {"delivered", "failed"} \/ endpoint[d[2]] = "disabled")

\* The event of a committed payment reaches the queue of every endpoint that
\* stays active, however the merchant changes the others meanwhile.  Enqueue
\* runs after the commit and is never run again: only a failed statement or a
\* stop of the server in between loses the event, and then for good.
EventQueued ==
  \A e \in Events, p \in Subscribed :
    stage[e] = "enqueue" ~>
      (row[<<e, p>>].status # "none" \/ endpoint[p] = "disabled" \/ faults > 0)

\* What a merchant can see: whose payment is committed, the status of each
\* delivery, and the answer of the request that is on its way.
Paid == {e \in Events : stage[e] # "unpaid"}

Statuses == [d \in Deliveries |-> row[d].status]

Answers ==
  [d \in Deliveries |->
     IF \E a \in inflight : a.row.delivery = d /\ a.ok THEN "accepted"
     ELSE IF \E a \in inflight : a.row.delivery = d THEN "refused"
     ELSE "none"]

Abstract == INSTANCE Delivery WITH
  Limit <- MaxSends, paid <- Paid, status <- Statuses, answer <- Answers, requests <- sent

\* Whatever the batches, the schedule, the faults and the redeliveries do, a
\* merchant sees what Delivery promises: no request before the payment is
\* committed or for a delivery that is not pending, none delivered without an
\* accepted request, none given up before the whole schedule was tried.
ImplementsDelivery == Abstract!Spec
=============================================================================
