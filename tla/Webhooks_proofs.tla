--------------------------- MODULE Webhooks_proofs --------------------------
(***************************************************************************)
(* Theorems about Webhooks, for any events, endpoints, schedule, batch     *)
(* size and bounds.                                                        *)
(*                                                                         *)
(* The requests made for a delivery are accounted for one by one: each is  *)
(* in attempt_count, is the one that succeeded, is on its way, was made    *)
(* before the merchant reset the row, or was lost to a fault.  From that   *)
(* follow the bound on requests and, with what each adds of its own, the   *)
(* backoff, that events are queued, and that Webhooks implements Delivery. *)
(***************************************************************************)
EXTENDS Webhooks, TLAPS

\* The rows the dispatcher holds, waiting to be sent or on their way.
Held == batch \cup {a.row : a \in inflight}

Sending(d) == \E a \in inflight : a.row.delivery = d

\* The dispatcher holds a row once, and only pending ones; a row it holds has
\* not moved since it was fetched, unless the merchant has reset it.
HeldOnce ==
  /\ \A r \in batch, s \in batch : r.delivery = s.delivery => r = s
  /\ \A a \in inflight, b \in inflight : a = b
  /\ \A r \in batch, a \in inflight : r.delivery # a.row.delivery
  /\ \A r \in Held :
       /\ row[r.delivery].status = "pending"
       /\ row[r.delivery].attempts <= r.attempts
       /\ r.attempts <= Len(RetrySchedule)

\* A row that has not been inserted, or is not given up, has attempts left.
AttemptsLeft ==
  \A d \in Deliveries :
    /\ row[d].status # "failed" => row[d].attempts <= Len(RetrySchedule)
    /\ row[d].status = "none" => row[d].attempts = 0

\* Enqueue inserts a row only once.
NotInserted ==
  \A e \in Events :
    /\ stage[e] \in {"unpaid", "enqueue"} =>
         todo[e] = {} /\ \A p \in Endpoints : row[<<e, p>>].status = "none"
    /\ \A p \in todo[e] : row[<<e, p>>].status = "none"

Accounted(d) ==
  row[d].attempts + (IF row[d].status = "delivered" THEN 1 ELSE 0)
                  + (IF Sending(d) THEN 1 ELSE 0)

SendsAccounted ==
  \A d \in Deliveries : sent[d] <= MaxSends * resets[d] + Accounted(d) + faults

WInv == TypeOK /\ HeldOnce /\ AttemptsLeft /\ NotInserted /\ SendsAccounted

\* Constants and their types.
LEMMA Constants ==
  /\ Len(RetrySchedule) \in Nat /\ MaxSends \in Nat \ {0}
  /\ MaxSends = Len(RetrySchedule) + 1
  /\ 0 \in Waits /\ Waits \subseteq Int
  /\ \A i \in Attempts : RetrySchedule[i] \in Waits
  /\ \A n \in Nat : MaxSends * n \in Nat /\ MaxSends * (n + 1) = MaxSends * n + MaxSends
<1>1. Len(RetrySchedule) \in Nat /\ MaxSends \in Nat \ {0}
  BY WebhooksAssumption DEF MaxSends
<1>2. 0 \in Waits /\ Waits \subseteq Int
  BY WebhooksAssumption DEF Waits
<1>3. \A i \in Attempts : RetrySchedule[i] \in Waits
  BY WebhooksAssumption DEF Waits, Attempts
<1>4. \A n \in Nat : MaxSends * n \in Nat /\ MaxSends * (n + 1) = MaxSends * n + MaxSends
  BY <1>1
<1> QED
  BY <1>1, <1>2, <1>3, <1>4 DEF MaxSends

\* A row of the table.
LEMMA RowType ==
  ASSUME TypeOK, NEW d \in Deliveries
  PROVE  /\ row[d].attempts \in 0 .. MaxSends /\ row[d].attempts \in Nat
         /\ row[d].wait \in Waits
         /\ row[d].status \in {"none", "pending", "delivered", "failed"}
         /\ sent[d] \in Nat /\ resets[d] \in Nat /\ faults \in Nat
         /\ Accounted(d) \in Nat
BY Constants, WebhooksAssumption DEF TypeOK, Accounted

\* The initial state.
LEMMA InitWInv == Init => WInv
<1> SUFFICES ASSUME Init PROVE WInv
  OBVIOUS
<1> USE Constants, WebhooksAssumption
<1>1. TypeOK
  BY DEF Init, TypeOK, NoRow
<1>2. HeldOnce
  BY DEF Init, HeldOnce, Held
<1>3. AttemptsLeft /\ NotInserted
  BY DEF Init, AttemptsLeft, NotInserted, NoRow, Deliveries
<1>4. SendsAccounted
  BY DEF Init, SendsAccounted, Accounted, NoRow, Sending
<1> QED
  BY <1>1, <1>2, <1>3, <1>4 DEF WInv

\* Steps of Enqueue that insert nothing, and steps of the merchant, touch no
\* row and nothing the dispatcher holds.
LEMMA OtherStep ==
  ASSUME WInv, UNCHANGED <<row, batch, inflight, sent, resets>>,
         faults' \in Nat, faults <= faults'
  PROVE  HeldOnce' /\ AttemptsLeft' /\ SendsAccounted'
<1>1. HeldOnce' /\ AttemptsLeft'
  BY DEF WInv, HeldOnce, Held, AttemptsLeft
<1>2. ASSUME NEW d \in Deliveries
      PROVE  (sent[d] <= MaxSends * resets[d] + Accounted(d) + faults)'
  <2>1. sent[d] <= MaxSends * resets[d] + Accounted(d) + faults
    BY DEF WInv, SendsAccounted
  <2>2. Accounted(d)' = Accounted(d) /\ sent'[d] = sent[d] /\ resets'[d] = resets[d]
    BY DEF Accounted, Sending
  <2>3. MaxSends * resets[d] \in Nat
    BY RowType, Constants DEF WInv
  <2> QED
    BY <2>1, <2>2, <2>3, RowType DEF WInv
<1> QED
  BY <1>1, <1>2 DEF SendsAccounted

\* verify commits, and Enqueue lists the endpoints or fails.
LEMMA ListKeeps ==
  ASSUME WInv, NEW e \in Events, CommitPayment(e) \/ ListEndpoints(e) \/ EnqueueError(e)
  PROVE  WInv'
<1> USE DEF histVars
<1>1. TypeOK'
  <2>1. CASE CommitPayment(e)
    BY <2>1 DEF WInv, TypeOK, CommitPayment
  <2>2. CASE ListEndpoints(e)
    BY <2>2, WebhooksAssumption DEF WInv, TypeOK, ListEndpoints, Receivers
  <2>3. CASE EnqueueError(e)
    BY <2>3, WebhooksAssumption DEF WInv, TypeOK, EnqueueError
  <2> QED
    BY <2>1, <2>2, <2>3
<1>2. HeldOnce' /\ AttemptsLeft' /\ SendsAccounted'
  <2>1. UNCHANGED <<row, batch, inflight, sent, resets>>
    BY DEF CommitPayment, ListEndpoints, Receivers, EnqueueError
  <2>2. faults' \in Nat /\ faults <= faults'
    BY WebhooksAssumption DEF CommitPayment, ListEndpoints, Receivers, EnqueueError, WInv, TypeOK
  <2> QED
    BY <2>1, <2>2, OtherStep
<1>3. NotInserted'
  <2>1. /\ UNCHANGED row
        /\ \A f \in Events : f # e => stage'[f] = stage[f] /\ todo'[f] = todo[f]
        /\ stage'[e] = "enqueue" => stage[e] = "unpaid" /\ todo'[e] = todo[e]
        /\ stage'[e] # "unpaid"
    BY DEF WInv, TypeOK, CommitPayment, ListEndpoints, Receivers, EnqueueError
  <2>2. \A p \in todo'[e] : row[<<e, p>>].status = "none"
    BY WebhooksAssumption DEF WInv, TypeOK, NotInserted,
       CommitPayment, ListEndpoints, Receivers, EnqueueError
  <2> QED
    BY <2>1, <2>2 DEF WInv, NotInserted
<1> QED
  BY <1>1, <1>2, <1>3 DEF WInv

\* Enqueue inserts a row.
LEMMA CreateKeeps ==
  ASSUME WInv, NEW e \in Events, NEW p \in Endpoints, CreateDelivery(e, p)
  PROVE  WInv'
<1> DEFINE d == <<e, p>>
<1> USE DEF histVars
<1>1. d \in Deliveries /\ row[d].status = "none" /\ row[d].attempts = 0
  BY DEF Deliveries, CreateDelivery, WInv, NotInserted, AttemptsLeft
<1>2. /\ \A o \in Deliveries : o # d => row'[o] = row[o]
      /\ row'[d] = [status |-> "pending", attempts |-> 0, wait |-> 0]
      /\ UNCHANGED <<batch, inflight, sent, resets, faults>>
  BY <1>1 DEF CreateDelivery, WInv, TypeOK
<1>3. TypeOK'
  BY <1>1, Constants DEF CreateDelivery, WInv, TypeOK
<1>4. \A r \in Held : r.delivery \in Deliveries /\ r.delivery # d
  BY <1>1 DEF WInv, HeldOnce, TypeOK, Held, Fetched
<1>5. HeldOnce'
  BY <1>2, <1>4 DEF WInv, HeldOnce, Held
<1>6. AttemptsLeft'
  BY <1>2, Constants DEF WInv, AttemptsLeft
<1>7. NotInserted'
  <2>1. stage[e] \notin {"unpaid", "enqueue"}
    BY DEF WInv, NotInserted, CreateDelivery
  <2>2. \A f \in Events, q \in Endpoints :
           (f # e \/ q # p) => row'[<<f, q>>] = row[<<f, q>>]
    BY <1>2 DEF Deliveries
  <2>3. /\ stage' = stage /\ todo'[e] = todo[e] \ {p}
        /\ \A f \in Events : /\ f # e => todo'[f] = todo[f]
                             /\ todo[f] \subseteq Endpoints
    BY WebhooksAssumption DEF CreateDelivery, WInv, TypeOK
  <2> QED
    BY <2>1, <2>2, <2>3 DEF WInv, NotInserted
<1>8. ASSUME NEW o \in Deliveries
      PROVE  (sent[o] <= MaxSends * resets[o] + Accounted(o) + faults)'
  <2>1. Accounted(o)' = Accounted(o)
    BY <1>1, <1>2 DEF Accounted, Sending
  <2> QED
    BY <1>2, <2>1 DEF WInv, SendsAccounted
<1> QED
  BY <1>3, <1>5, <1>6, <1>7, <1>8 DEF WInv, SendsAccounted

\* The dispatcher fetches a batch.
LEMMA FetchKeeps ==
  ASSUME WInv, GetPendingDeliveries
  PROVE  WInv'
<1> USE DEF histVars, queueVars
<1>1. PICK B \in SUBSET Due :
         batch' = {[delivery |-> d, attempts |-> row[d].attempts, due |-> row[d].wait] : d \in B}
  BY DEF GetPendingDeliveries
<1>2. \A d \in B : d \in Deliveries /\ row[d].status = "pending"
  BY DEF Due
<1>3. UNCHANGED <<queueVars, row, inflight, faults, sent, resets, idle>> /\ inflight = {}
  BY DEF GetPendingDeliveries
<1>4. batch' \subseteq Fetched
  BY <1>1, <1>2, RowType DEF Fetched, WInv
<1>5. TypeOK'
  BY <1>3, <1>4 DEF WInv, TypeOK
<1>6. HeldOnce'
  <2>1. \A d \in B : row[d].attempts <= Len(RetrySchedule) /\ row[d].attempts \in Nat
    BY <1>2, RowType DEF WInv, AttemptsLeft
  <2> QED
    BY <1>1, <1>2, <1>3, <2>1 DEF HeldOnce, Held
<1>7. AttemptsLeft' /\ NotInserted'
  BY <1>3 DEF WInv, AttemptsLeft, NotInserted
<1>8. SendsAccounted'
  BY <1>3 DEF WInv, SendsAccounted, Accounted, Sending
<1> QED
  BY <1>5, <1>6, <1>7, <1>8 DEF WInv

\* The dispatcher sends one row of the batch.
LEMMA PostKeeps ==
  ASSUME WInv, NEW r \in batch, NEW ok \in BOOLEAN, Post(r, ok)
  PROVE  WInv'
<1> USE DEF histVars, queueVars
<1>1. r \in Fetched /\ r.delivery \in Deliveries
  BY DEF WInv, TypeOK, Fetched
<1>2. /\ batch' = batch \ {r} /\ inflight = {} /\ inflight' = {[row |-> r, ok |-> ok]}
      /\ UNCHANGED <<row, faults, resets, stage, todo>>
      /\ sent' = [sent EXCEPT ![r.delivery] = @ + 1]
  BY DEF Post
<1>3. TypeOK'
  BY <1>1, <1>2, RowType DEF WInv, TypeOK, Post
<1>4. Held' = Held
  BY <1>2 DEF Held
<1>5. HeldOnce'
  BY <1>2, <1>4 DEF WInv, HeldOnce
<1>6. AttemptsLeft' /\ NotInserted'
  BY <1>2 DEF WInv, AttemptsLeft, NotInserted
<1>7. ASSUME NEW d \in Deliveries
      PROVE  (sent[d] <= MaxSends * resets[d] + Accounted(d) + faults)'
  <2>1. sent[d] <= MaxSends * resets[d] + Accounted(d) + faults
    BY DEF WInv, SendsAccounted
  <2>2. MaxSends * resets[d] \in Nat
    BY RowType, Constants DEF WInv
  <2>3. CASE d = r.delivery
    <3>1. sent'[d] = sent[d] + 1
      BY <1>2, <2>3 DEF WInv, TypeOK
    <3>2. Accounted(d)' = Accounted(d) + 1
      BY <1>2, <2>3, RowType DEF Accounted, Sending, WInv
    <3> QED
      BY <1>2, <2>1, <2>2, <3>1, <3>2, RowType DEF WInv
  <2>4. CASE d # r.delivery
    BY <1>2, <2>1, <2>4 DEF Accounted, Sending, WInv, TypeOK
  <2> QED
    BY <2>3, <2>4
<1> QED
  BY <1>3, <1>5, <1>6, <1>7 DEF WInv, SendsAccounted

\* A step on one row that is already inserted leaves Enqueue's rows alone.
LEMMA InsertedRow ==
  ASSUME WInv, NEW d \in Deliveries, row[d].status # "none",
         \A o \in Deliveries : o # d => row'[o] = row[o],
         UNCHANGED <<stage, todo>>
  PROVE  NotInserted'
<1>1. ASSUME NEW e \in Events, NEW p \in Endpoints, row[<<e, p>>].status = "none"
      PROVE  row'[<<e, p>>].status = "none"
  BY <1>1 DEF Deliveries
<1>2. \A e \in Events : todo[e] \subseteq Endpoints
  BY WebhooksAssumption DEF WInv, TypeOK
<1> QED
  BY <1>1, <1>2 DEF WInv, NotInserted

\* A success is recorded: the send that was on its way is the delivered one.
LEMMA SuccessKeeps ==
  ASSUME WInv, NEW a \in inflight, RecordSuccess(a)
  PROVE  WInv'
<1> DEFINE d == a.row.delivery
<1> USE DEF histVars, queueVars
<1>1. d \in Deliveries /\ a.row \in Held /\ inflight = {a}
  BY DEF WInv, TypeOK, Fetched, Held, HeldOnce
<1>2. row[d].status = "pending" /\ row[d].attempts <= Len(RetrySchedule)
  BY <1>1 DEF WInv, HeldOnce, AttemptsLeft
<1>3. /\ \A o \in Deliveries : o # d => row'[o] = row[o]
      /\ row'[d].status = "delivered" /\ row'[d].attempts = row[d].attempts
      /\ inflight' = {} /\ UNCHANGED <<batch, sent, resets, faults, stage, todo>>
  BY <1>1 DEF RecordSuccess, WInv, TypeOK
<1>4. TypeOK'
  BY <1>1, SMTT(30) DEF RecordSuccess, WInv, TypeOK
<1>5. HeldOnce'
  <2>1. \A r \in batch : r.delivery # d /\ r.delivery \in Deliveries
    BY <1>1 DEF WInv, HeldOnce, TypeOK, Fetched
  <2> QED
    BY <1>3, <2>1 DEF WInv, HeldOnce, Held
<1>6. AttemptsLeft' /\ NotInserted'
  <2>1. AttemptsLeft'
    BY <1>1, <1>2, <1>3 DEF WInv, AttemptsLeft
  <2>2. NotInserted'
    BY <1>1, <1>2, <1>3, InsertedRow
  <2> QED
    BY <2>1, <2>2
<1>7. ASSUME NEW o \in Deliveries
      PROVE  (sent[o] <= MaxSends * resets[o] + Accounted(o) + faults)'
  <2>1. Accounted(o)' = Accounted(o)
    BY <1>1, <1>2, <1>3, RowType DEF Accounted, Sending, WInv
  <2> QED
    BY <1>3, <2>1 DEF WInv, SendsAccounted
<1> QED
  BY <1>4, <1>5, <1>6, <1>7 DEF WInv, SendsAccounted

\* A failure is recorded: the send that was on its way is counted in the row,
\* even if the row has been reset since it was fetched.
LEMMA FailureKeeps ==
  ASSUME WInv, NEW a \in inflight, RecordFailure(a)
  PROVE  WInv'
<1> DEFINE d == a.row.delivery
           next == RetryAfter(a.row.attempts + 1)
<1> USE DEF histVars, queueVars
<1>1. d \in Deliveries /\ a.row \in Held /\ inflight = {a} /\ a.row.attempts \in Nat
  BY DEF WInv, TypeOK, Fetched, Held, HeldOnce
<1>2. /\ row[d].status = "pending" /\ row[d].attempts <= a.row.attempts
      /\ a.row.attempts <= Len(RetrySchedule) /\ row[d].attempts \in Nat
  BY <1>1, RowType DEF WInv, HeldOnce
<1>3. /\ next.wait \in Waits /\ next.status \in {"pending", "failed"}
      /\ next.status = "pending" => a.row.attempts + 1 <= Len(RetrySchedule)
  BY <1>1, Constants DEF RetryAfter, Attempts
<1>4. row' = [row EXCEPT ![d] = [status |-> next.status, wait |-> next.wait,
                                 attempts |-> row[d].attempts + 1]]
  BY DEF RecordFailure
<1>5. /\ \A o \in Deliveries : o # d => row'[o] = row[o]
      /\ row'[d].status = next.status /\ row'[d].attempts = row[d].attempts + 1
      /\ inflight' = {} /\ UNCHANGED <<batch, sent, resets, faults, stage, todo>>
  BY <1>1, <1>4 DEF RecordFailure, WInv, TypeOK
<1>6. TypeOK'
  <2>1. row[d].attempts + 1 \in 0 .. MaxSends
    <3> HIDE DEF d
    <3>1. row[d].attempts <= Len(RetrySchedule)
      BY <1>1, <1>2, Constants
    <3> QED
      BY <1>2, <3>1, Constants
  <2>2. row' \in [Deliveries -> [status : {"none", "pending", "delivered", "failed"},
                                 attempts : 0 .. MaxSends, wait : Waits]]
    BY <1>3, <1>4, <2>1 DEF WInv, TypeOK
  <2> QED
    BY <2>2, WebhooksAssumption DEF RecordFailure, WInv, TypeOK
<1>7. HeldOnce'
  <2>1. \A r \in batch : r.delivery # d /\ r.delivery \in Deliveries
    BY <1>1 DEF WInv, HeldOnce, TypeOK, Fetched
  <2> QED
    BY <1>5, <2>1 DEF WInv, HeldOnce, Held
<1>8. AttemptsLeft'
  BY <1>1, <1>2, <1>3, <1>5, Constants DEF WInv, AttemptsLeft
<1>9. NotInserted'
  BY <1>1, <1>2, <1>5, InsertedRow
<1>10. ASSUME NEW o \in Deliveries
       PROVE  (sent[o] <= MaxSends * resets[o] + Accounted(o) + faults)'
  <2>1. Accounted(o)' = Accounted(o)
    BY <1>1, <1>2, <1>3, <1>5, RowType DEF Accounted, Sending, WInv
  <2> QED
    BY <1>5, <2>1 DEF WInv, SendsAccounted
<1> QED
  BY <1>6, <1>7, <1>8, <1>9, <1>10 DEF WInv, SendsAccounted

\* The merchant resets a row.
LEMMA RedeliverKeeps ==
  ASSUME WInv, NEW d \in Deliveries, Redeliver(d)
  PROVE  WInv'
<1> USE DEF histVars, queueVars
<1>1. /\ \A o \in Deliveries : o # d => row'[o] = row[o] /\ resets'[o] = resets[o]
      /\ row'[d] = [status |-> "pending", attempts |-> 0, wait |-> 0]
      /\ resets'[d] = resets[d] + 1 /\ row[d].status # "none"
      /\ UNCHANGED <<batch, inflight, sent, faults, stage, todo>>
  BY DEF Redeliver, WInv, TypeOK
<1>2. TypeOK'
  BY Constants, WebhooksAssumption DEF Redeliver, WInv, TypeOK
<1>3. HeldOnce'
  <2>1. Held' = Held /\ \A r \in Held : r.delivery \in Deliveries /\ r.attempts \in Nat
    BY <1>1 DEF Held, WInv, TypeOK, Fetched
  <2> QED
    BY <1>1, <2>1 DEF WInv, HeldOnce
<1>4. AttemptsLeft'
  BY <1>1, Constants DEF WInv, AttemptsLeft
<1>5. NotInserted'
  BY <1>1, InsertedRow
<1>6. ASSUME NEW o \in Deliveries
      PROVE  (sent[o] <= MaxSends * resets[o] + Accounted(o) + faults)'
  <2>1. sent[o] <= MaxSends * resets[o] + Accounted(o) + faults
    BY DEF WInv, SendsAccounted
  <2>2. MaxSends * resets[o] \in Nat /\ MaxSends * (resets[o] + 1) = MaxSends * resets[o] + MaxSends
    BY RowType, Constants DEF WInv
  <2>3. CASE o = d
    <3>1. Accounted(o) <= MaxSends + (IF Sending(o) THEN 1 ELSE 0)
      BY <2>3, RowType, Constants DEF Accounted, WInv, AttemptsLeft
    <3>2. Accounted(o)' = (IF Sending(o) THEN 1 ELSE 0)
      BY <1>1, <2>3 DEF Accounted, Sending
    <3>3. MaxSends * resets'[o] = MaxSends * resets[o] + MaxSends
      BY <1>1, <2>2, <2>3
    <3>4. sent'[o] = sent[o] /\ faults' = faults /\ sent[o] \in Nat /\ faults \in Nat
          /\ Accounted(o) \in Nat /\ MaxSends \in Nat
      BY <1>1, RowType, Constants DEF WInv
    <3> QED
      BY <2>1, <2>2, <3>1, <3>2, <3>3, <3>4
  <2>4. CASE o # d
    BY <1>1, <2>1, <2>4 DEF Accounted, Sending
  <2> QED
    BY <2>3, <2>4
<1> QED
  BY <1>2, <1>3, <1>4, <1>5, <1>6 DEF WInv, SendsAccounted

\* A fault: whatever was on its way is paid for by the count of faults.
LEMMA FaultKeeps ==
  ASSUME WInv, DispatchError \/ Crash
  PROVE  WInv'
<1> USE DEF histVars, queueVars
<1>1. /\ batch' = {} /\ inflight' = {} /\ faults' = faults + 1
      /\ UNCHANGED <<row, sent, resets, endpoint, idle>>
  BY DEF DispatchError, Crash
<1>2. TypeOK'
  BY <1>1, WebhooksAssumption DEF DispatchError, Crash, WInv, TypeOK
<1>3. HeldOnce' /\ AttemptsLeft'
  BY <1>1 DEF WInv, HeldOnce, Held, AttemptsLeft
<1>4. NotInserted'
  BY <1>1 DEF DispatchError, Crash, WInv, NotInserted, Queueing, TypeOK
<1>5. ASSUME NEW d \in Deliveries
      PROVE  (sent[d] <= MaxSends * resets[d] + Accounted(d) + faults)'
  <2>1. sent[d] <= MaxSends * resets[d] + Accounted(d) + faults
    BY DEF WInv, SendsAccounted
  <2>2. Accounted(d) <= Accounted(d)' + 1
    BY <1>1, RowType DEF Accounted, WInv
  <2>3. MaxSends * resets[d] \in Nat /\ Accounted(d)' \in Nat
    BY <1>1, RowType, Constants DEF WInv, Accounted
  <2> QED
    BY <1>1, <2>1, <2>2, <2>3, RowType DEF WInv
<1> QED
  BY <1>2, <1>3, <1>4, <1>5 DEF WInv, SendsAccounted

\* Time passes.
LEMMA TickKeeps ==
  ASSUME WInv, Tick
  PROVE  WInv'
<1> USE DEF histVars, queueVars
<1>1. UNCHANGED <<batch, inflight, faults, resets, sent, stage, todo, endpoint>>
  BY DEF Tick
<1>2. \A d \in Deliveries : row'[d].status = row[d].status /\ row'[d].attempts = row[d].attempts
  BY DEF Tick, WInv, TypeOK
<1>3. TypeOK'
  <2>1. row' \in [Deliveries -> [status : {"none", "pending", "delivered", "failed"},
                                 attempts : 0 .. MaxSends, wait : Waits]]
    <3>1. ASSUME NEW d \in Deliveries, row[d].wait > -MaxLag
          PROVE  row[d].wait - 1 \in Waits
      BY <3>1, RowType, WebhooksAssumption DEF WInv, Waits
    <3>2. ASSUME NEW d \in Deliveries
          PROVE  row'[d] \in [status : {"none", "pending", "delivered", "failed"},
                              attempts : 0 .. MaxSends, wait : Waits]
      <4>1. row[d] \in [status : {"none", "pending", "delivered", "failed"},
                        attempts : 0 .. MaxSends, wait : Waits]
        BY DEF WInv, TypeOK
      <4>2. row'[d] = IF row[d].status = "pending" /\ row[d].wait > -MaxLag
                      THEN [row[d] EXCEPT !.wait = @ - 1] ELSE row[d]
        BY DEF Tick
      <4> QED
        BY <3>1, <4>1, <4>2
    <3> QED
      BY <3>2 DEF Tick
  <2>2. idle' \in [Deliveries -> 0 .. LongestDelay]
    BY WebhooksAssumption, SMTT(30) DEF Tick, WInv, TypeOK
  <2> QED
    BY <1>1, <2>1, <2>2 DEF WInv, TypeOK
<1>4. HeldOnce'
  <2>1. Held' = Held /\ \A r \in Held : r.delivery \in Deliveries
    BY <1>1 DEF Held, WInv, TypeOK, Fetched
  <2> QED
    BY <1>1, <1>2, <2>1 DEF WInv, HeldOnce
<1>5. AttemptsLeft'
  BY <1>2 DEF WInv, AttemptsLeft
<1>6. NotInserted'
  BY <1>1, <1>2, WebhooksAssumption DEF WInv, NotInserted, Deliveries, TypeOK
<1>7. SendsAccounted'
  <2>1. \A d \in Deliveries : Accounted(d)' = Accounted(d)
    BY <1>1, <1>2 DEF Accounted, Sending
  <2> QED
    BY <1>1, <2>1 DEF WInv, SendsAccounted
<1> QED
  BY <1>3, <1>4, <1>5, <1>6, <1>7 DEF WInv

\* The inductive invariant is kept by every step.
LEMMA NextWInv == WInv /\ [Next]_vars => WInv'
<1> SUFFICES ASSUME WInv, [Next]_vars PROVE WInv'
  OBVIOUS
<1>1. CASE UNCHANGED vars
  <2>1. UNCHANGED <<stage, todo, endpoint, row, batch, inflight, faults, resets, sent, idle>>
    BY <1>1 DEF vars, queueVars, histVars
  <2> QED
    BY <2>1 DEF WInv, TypeOK,
       HeldOnce, Held, AttemptsLeft, NotInserted, SendsAccounted, Accounted, Sending
<1>2. ASSUME NEW e \in Events, CommitPayment(e) \/ EnqueueStep(e) \/ EnqueueError(e)
      PROVE  WInv'
  BY <1>2, ListKeeps, CreateKeeps DEF EnqueueStep
<1>3. CASE DispatchStep
  BY <1>3, FetchKeeps, PostKeeps, SuccessKeeps, FailureKeeps DEF DispatchStep, Record
<1>4. ASSUME NEW p \in Endpoints, DeleteWebhookEndpoint(p)
      PROVE  WInv'
  <2>1. UNCHANGED <<stage, todo, row, batch, inflight, faults, resets, sent, idle>>
    BY <1>4 DEF DeleteWebhookEndpoint, histVars
  <2>2. TypeOK'
    BY <1>4, <2>1 DEF DeleteWebhookEndpoint, WInv, TypeOK
  <2>3. HeldOnce' /\ AttemptsLeft' /\ SendsAccounted'
    BY <2>1, OtherStep, WebhooksAssumption DEF WInv, TypeOK
  <2> QED
    BY <2>1, <2>2, <2>3 DEF WInv, NotInserted
<1> QED
  BY <1>1, <1>2, <1>3, <1>4, FaultKeeps, RedeliverKeeps, TickKeeps DEF Next

\* Every request made to an endpoint is accounted for, at all times.
THEOREM WebhooksInvariant == Spec => []WInv
  BY InitWInv, NextWInv, PTL DEF Spec

\* The dispatcher never sends a delivery more often than the schedule, the
\* merchant's requests and the faults of the server allow for.
THEOREM NoExtraSends == Spec => []SendsBounded
<1>1. WInv => SendsBounded
  <2> SUFFICES ASSUME WInv, NEW d \in Deliveries
               PROVE  sent[d] <= MaxSends * (resets[d] + 1) + faults
    BY DEF SendsBounded
  <2>1. sent[d] <= MaxSends * resets[d] + Accounted(d) + faults
    BY DEF WInv, SendsAccounted
  <2>2. Sending(d) => row[d].status = "pending"
    BY DEF WInv, HeldOnce, Held, Sending
  <2>3. Accounted(d) <= MaxSends
    BY <2>2, RowType, Constants DEF Accounted, WInv, AttemptsLeft
  <2>4. MaxSends * resets[d] \in Nat /\ MaxSends * (resets[d] + 1) = MaxSends * resets[d] + MaxSends
    BY RowType, Constants DEF WInv
  <2> QED
    BY <2>1, <2>3, <2>4, RowType, Constants, SMTT(30) DEF WInv
<1> QED
  BY <1>1, WebhooksInvariant, PTL

\* Every variable keeps to its type, the waiting times and attempts to their
\* bounds.
THEOREM TypesCorrect == Spec => []TypeOK
<1>1. WInv => TypeOK
  BY DEF WInv
<1> QED
  BY <1>1, WebhooksInvariant, PTL

-----------------------------------------------------------------------------
(* The schedule of the retries.                                            *)

\* The time since the last failure and the time still to wait make up the
\* delay for that many failures.
Waited(d) ==
  (row[d].status = "pending" /\ row[d].attempts > 0) =>
    \/ idle[d] >= RetrySchedule[row[d].attempts]
    \/ idle[d] + row[d].wait >= RetrySchedule[row[d].attempts]

\* A row is held only when it is due, and stays so unless it is reset.
Overdue(r) == row[r.delivery].attempts > 0 => row[r.delivery].wait <= 0

WaitInv == (\A d \in Deliveries : Waited(d)) /\ \A r \in Held : Overdue(r)

\* The delays never shrink.
LEMMA Growing == \A i, j \in Attempts : i <= j => RetrySchedule[i] <= RetrySchedule[j]
BY WebhooksAssumption DEF Attempts

\* The delay for the failures of a pending row is in the schedule.
LEMMA DelayTyped ==
  ASSUME WInv, NEW d \in Deliveries, row[d].status = "pending", row[d].attempts > 0
  PROVE  /\ row[d].attempts \in Attempts /\ RetrySchedule[row[d].attempts] \in Nat
         /\ RetrySchedule[row[d].attempts] <= LongestDelay
<1>1. row[d].attempts \in Attempts
  BY RowType DEF WInv, AttemptsLeft, Attempts
<1> QED
  BY <1>1, WebhooksAssumption DEF Attempts

\* The rows that the dispatcher holds.
LEMMA HeldTyped ==
  ASSUME WInv, NEW r \in Held
  PROVE  r.delivery \in Deliveries /\ row[r.delivery].status = "pending"
BY DEF WInv, TypeOK, HeldOnce, Held, Fetched

\* A step that leaves the rows alone and fetches none.
LEMMA WaitKept ==
  ASSUME WaitInv, UNCHANGED <<row, idle>>, Held' \subseteq Held
  PROVE  WaitInv'
BY DEF WaitInv, Waited, Overdue

\* A step that sets one row, with no attempts or no longer pending.
LEMMA RowReset ==
  ASSUME WInv, WaitInv, NEW d \in Deliveries, UNCHANGED idle, Held' \subseteq Held,
         \A o \in Deliveries : o # d => row'[o] = row[o],
         row'[d].attempts = 0 \/ (row'[d].status # "pending" /\ \A r \in Held' : r.delivery # d)
  PROVE  WaitInv'
<1>1. \A o \in Deliveries : Waited(o)'
  <2> SUFFICES ASSUME NEW o \in Deliveries PROVE Waited(o)'
    OBVIOUS
  <2>1. CASE o = d
    BY <2>1 DEF Waited
  <2>2. CASE o # d
    BY <2>2 DEF WaitInv, Waited
  <2> QED
    BY <2>1, <2>2
<1>2. ASSUME NEW r \in Held' PROVE Overdue(r)'
  <2>1. r \in Held /\ r.delivery \in Deliveries
    BY HeldTyped
  <2> QED
    BY <1>2, <2>1 DEF WaitInv, Overdue
<1> QED
  BY <1>1, <1>2 DEF WaitInv

LEMMA TickWaits ==
  ASSUME WInv, WaitInv, Tick
  PROVE  WaitInv'
<1>1. /\ row' = [d \in Deliveries |->
                   IF row[d].status = "pending" /\ row[d].wait > -MaxLag
                   THEN [row[d] EXCEPT !.wait = @ - 1] ELSE row[d]]
      /\ idle' = [d \in Deliveries |->
                    IF row[d].attempts = 0 \/ row[d].status # "pending" THEN 0
                    ELSE IF idle[d] < LongestDelay THEN idle[d] + 1 ELSE idle[d]]
      /\ UNCHANGED <<batch, inflight>>
  BY DEF Tick, queueVars
<1>2. ASSUME NEW d \in Deliveries
      PROVE  /\ row'[d].status = row[d].status /\ row'[d].attempts = row[d].attempts
             /\ row'[d].wait = row[d].wait \/ row'[d].wait = row[d].wait - 1
             /\ row[d].wait \in Int /\ row[d].attempts \in Nat /\ idle[d] \in 0 .. LongestDelay
  <2>1. row[d] \in [status : {"none", "pending", "delivered", "failed"},
                    attempts : 0 .. MaxSends, wait : Waits]
    BY DEF WInv, TypeOK
  <2> QED
    BY <1>1, <2>1, Constants, RowType DEF WInv, TypeOK
<1>3. ASSUME NEW d \in Deliveries PROVE Waited(d)'
  <2> SUFFICES ASSUME row[d].status = "pending", row[d].attempts > 0
               PROVE  \/ idle'[d] >= RetrySchedule[row[d].attempts]
                      \/ idle'[d] + row'[d].wait >= RetrySchedule[row[d].attempts]
    BY <1>2 DEF Waited
  <2>1. /\ RetrySchedule[row[d].attempts] \in Nat
        /\ RetrySchedule[row[d].attempts] <= LongestDelay
    BY DelayTyped
  <2>2. idle'[d] = IF idle[d] < LongestDelay THEN idle[d] + 1 ELSE idle[d]
    BY <1>1, <1>2
  <2>3. \/ idle[d] >= RetrySchedule[row[d].attempts]
        \/ idle[d] + row[d].wait >= RetrySchedule[row[d].attempts]
    BY DEF WaitInv, Waited
  <2> QED
    BY <1>2, <2>1, <2>2, <2>3, WebhooksAssumption, SMTT(30)
<1>4. ASSUME NEW r \in Held' PROVE Overdue(r)'
  <2>1. r \in Held /\ r.delivery \in Deliveries
    BY <1>1, HeldTyped DEF Held
  <2>2. Overdue(r)
    BY <2>1 DEF WaitInv
  <2> QED
    BY <1>2, <2>1, <2>2 DEF Overdue
<1> QED
  BY <1>3, <1>4 DEF WaitInv

\* A failure starts the wait for the next attempt.  If the row was reset while
\* it was sent, the wait is that of a later one.
LEMMA FailureWaits ==
  ASSUME WInv, WaitInv, NEW a \in inflight, RecordFailure(a)
  PROVE  WaitInv'
<1> DEFINE d == a.row.delivery
           next == RetryAfter(a.row.attempts + 1)
<1>1. a.row \in Held /\ inflight = {a} /\ a.row.attempts \in Nat
  BY DEF WInv, TypeOK, Fetched, Held, HeldOnce
<1>2. /\ d \in Deliveries /\ row[d].attempts <= a.row.attempts
      /\ a.row.attempts <= Len(RetrySchedule) /\ row[d].attempts \in Nat
  BY <1>1, HeldTyped, RowType DEF WInv, HeldOnce
<1>3. /\ \A o \in Deliveries : o # d => row'[o] = row[o] /\ idle'[o] = idle[o]
      /\ row'[d].status = next.status /\ row'[d].wait = next.wait
      /\ row'[d].attempts = row[d].attempts + 1 /\ idle'[d] = 0
      /\ inflight' = {} /\ batch' = batch
  BY <1>2 DEF RecordFailure, WInv, TypeOK
<1>4. Waited(d)'
  <2> SUFFICES ASSUME next.status = "pending"
               PROVE  next.wait >= RetrySchedule[row[d].attempts + 1] /\ next.wait \in Nat
    BY <1>3 DEF Waited
  <2>1. a.row.attempts + 1 \in Attempts /\ next.wait = RetrySchedule[a.row.attempts + 1]
    BY <1>1 DEF RetryAfter
  <2>2. row[d].attempts + 1 \in Attempts
    BY <1>1, <1>2, <2>1 DEF Attempts
  <2>3. next.wait \in Nat
    BY <2>1, WebhooksAssumption DEF Attempts
  <2>4. RetrySchedule[row[d].attempts + 1] <= RetrySchedule[a.row.attempts + 1]
    <3>1. row[d].attempts + 1 <= a.row.attempts + 1
      BY <1>1, <1>2
    <3> HIDE DEF d
    <3> QED
      BY <2>1, <2>2, <3>1, Growing
  <2>5. RetrySchedule[row[d].attempts + 1] \in Nat
    BY <2>2, WebhooksAssumption DEF Attempts
  <2> QED
    BY <2>1, <2>3, <2>4, <2>5
<1>5. \A o \in Deliveries : o # d => Waited(o)'
  BY <1>3 DEF WaitInv, Waited
<1>6. ASSUME NEW r \in Held' PROVE Overdue(r)'
  <2>1. r \in batch /\ r \in Held
    BY <1>3 DEF Held
  <2>2. r.delivery # d /\ r.delivery \in Deliveries
    BY <2>1, HeldTyped DEF WInv, HeldOnce
  <2> QED
    BY <1>3, <2>1, <2>2 DEF WaitInv, Overdue
<1> QED
  BY <1>4, <1>5, <1>6 DEF WaitInv

\* Every step keeps the waiting times.
LEMMA NextWaitInv == WInv /\ WaitInv /\ [Next]_vars => WaitInv'
<1> SUFFICES ASSUME WInv, WaitInv, [Next]_vars PROVE WaitInv'
  OBVIOUS
<1> USE DEF histVars, queueVars
<1>1. ASSUME NEW e \in Events, CommitPayment(e) \/ ListEndpoints(e) \/ EnqueueError(e)
      PROVE  WaitInv'
  <2>1. UNCHANGED <<row, idle, batch, inflight>>
    BY <1>1 DEF CommitPayment, ListEndpoints, EnqueueError
  <2> QED
    BY <2>1, WaitKept DEF Held
<1>2. ASSUME NEW e \in Events, NEW p \in Endpoints, CreateDelivery(e, p)
      PROVE  WaitInv'
  <2>1. <<e, p>> \in Deliveries
    BY DEF Deliveries
  <2>2. /\ \A o \in Deliveries : o # <<e, p>> => row'[o] = row[o]
        /\ row'[<<e, p>>].attempts = 0 /\ UNCHANGED <<idle, batch, inflight>>
    BY <1>2, <2>1 DEF CreateDelivery, WInv, TypeOK
  <2> QED
    BY <2>1, <2>2, RowReset DEF Held
<1>3. CASE GetPendingDeliveries
  <2>1. UNCHANGED <<row, idle, inflight>> /\ inflight = {}
    BY <1>3 DEF GetPendingDeliveries
  <2>2. \A r \in batch' : r.delivery \in Due
    BY <1>3 DEF GetPendingDeliveries
  <2>3. \A r \in Held' : Overdue(r)'
    BY <2>1, <2>2 DEF Held, Overdue, Due
  <2> QED
    BY <2>1, <2>3 DEF WaitInv, Waited
<1>4. ASSUME NEW r \in batch, NEW ok \in BOOLEAN, Post(r, ok)
      PROVE  WaitInv'
  <2>1. UNCHANGED <<row, idle>> /\ Held' \subseteq Held
    BY <1>4 DEF Post, Held
  <2> QED
    BY <2>1, WaitKept
<1>5. ASSUME NEW a \in inflight, RecordSuccess(a)
      PROVE  WaitInv'
  <2> DEFINE d == a.row.delivery
  <2>1. d \in Deliveries /\ inflight = {a} /\ \A r \in batch : r.delivery # d
    BY DEF WInv, TypeOK, Fetched, HeldOnce
  <2>2. /\ \A o \in Deliveries : o # d => row'[o] = row[o]
        /\ row'[d].status = "delivered" /\ UNCHANGED <<idle, batch>> /\ inflight' = {}
    BY <1>5, <2>1 DEF RecordSuccess, WInv, TypeOK
  <2>3. Held' \subseteq Held /\ \A r \in Held' : r.delivery # d
    BY <2>1, <2>2 DEF Held
  <2> HIDE DEF d
  <2> QED
    BY <2>1, <2>2, <2>3, RowReset
<1>6. ASSUME NEW a \in inflight, RecordFailure(a)
      PROVE  WaitInv'
  BY <1>6, FailureWaits
<1>7. ASSUME NEW d \in Deliveries, Redeliver(d)
      PROVE  WaitInv'
  <2>1. /\ \A o \in Deliveries : o # d => row'[o] = row[o]
        /\ row'[d].attempts = 0 /\ UNCHANGED <<idle, batch, inflight>>
    BY <1>7 DEF Redeliver, WInv, TypeOK
  <2> QED
    BY <2>1, RowReset DEF Held
<1>8. CASE \/ DispatchError \/ Crash \/ UNCHANGED vars
           \/ \E p \in Endpoints : DeleteWebhookEndpoint(p)
  <2>1. UNCHANGED <<row, idle>>
        /\ (UNCHANGED <<batch, inflight>> \/ (batch' = {} /\ inflight' = {}))
    BY <1>8 DEF DispatchError, Crash, DeleteWebhookEndpoint, vars
  <2> QED
    BY <2>1, WaitKept DEF Held
<1>9. CASE Tick
  BY <1>9, TickWaits
<1> QED
  BY <1>1, <1>2, <1>3, <1>4, <1>5, <1>6, <1>7, <1>8, <1>9
  DEF Next, EnqueueStep, DispatchStep, Record

\* The dispatcher (deliver, recordFailure, NextRetry): a retry comes no sooner
\* after a failure than the schedule says for that many failures, even if the
\* delivery was reset while it was sent, since the delays never shrink.
THEOREM RetriesBackOff == Spec => Backoff
<1>1. Init => WaitInv
  BY DEF Init, WaitInv, Waited, Held, NoRow
<1>2. ASSUME WInv, WaitInv, [Next]_vars, NEW d \in Deliveries,
             sent'[d] > sent[d], row[d].attempts > 0
      PROVE  idle[d] >= RetrySchedule[row[d].attempts]
  <2>1. ~UNCHANGED sent
    BY <1>2, RowType DEF WInv
  <2>2. PICK r \in batch, ok \in BOOLEAN : Post(r, ok)
    BY <1>2, <2>1 DEF Next, CommitPayment, EnqueueStep, ListEndpoints, CreateDelivery,
       EnqueueError, DispatchStep, GetPendingDeliveries, Record, RecordSuccess, RecordFailure,
       DispatchError, Redeliver, DeleteWebhookEndpoint, Crash, Tick, vars, histVars, queueVars
  <2>3. r.delivery = d
    BY <1>2, <2>2, RowType DEF Post, WInv, TypeOK
  <2>4. r \in Held
    BY DEF Held
  <2>5. row[d].status = "pending" /\ row[d].wait <= 0
    BY <1>2, <2>3, <2>4, HeldTyped DEF WaitInv, Overdue
  <2>6. Waited(d) /\ RetrySchedule[row[d].attempts] \in Nat
    BY <1>2, <2>5, DelayTyped DEF WaitInv
  <2>7. idle[d] \in Nat /\ row[d].wait \in Int
    <3>1. idle[d] \in 0 .. LongestDelay /\ row[d].wait \in Waits
      BY <1>2, RowType DEF WInv, TypeOK
    <3>2. Waits \subseteq Int /\ \A n \in 0 .. LongestDelay : n \in Nat
      BY Constants
    <3> QED
      BY <3>1, <3>2
  <2> QED
    BY <1>2, <2>5, <2>6, <2>7 DEF Waited
<1>3. WInv /\ WaitInv /\ [Next]_vars =>
        [\A d \in Deliveries :
           (sent'[d] > sent[d] /\ row[d].attempts > 0)
             => idle[d] >= RetrySchedule[row[d].attempts]]_vars
  BY <1>2
<1>4. WInv /\ WaitInv /\ [Next]_vars => WaitInv'
  BY NextWaitInv
<1> QED
  BY <1>1, <1>3, <1>4, WebhooksInvariant, PTL DEF Spec, Backoff

-----------------------------------------------------------------------------
(* What Enqueue leaves behind.                                             *)

\* Once Enqueue has listed the endpoints, each that is subscribed has its row,
\* is still to get it, or has been disabled; only a fault loses one.
QueueInv ==
  \A e \in Events, p \in Subscribed :
    (stage[e] \in {"insert", "over"} /\ faults = 0) =>
      p \in todo[e] \/ row[<<e, p>>].status # "none" \/ endpoint[p] = "disabled"

\* A call of Enqueue that has ended without a fault has queued the event for
\* every endpoint that stayed active.
QueuedWhenDone ==
  \A e \in Events, p \in Subscribed :
    (stage[e] \in {"insert", "over"} /\ todo[e] = {} /\ faults = 0 /\ endpoint[p] = "active")
      => row[<<e, p>>].status # "none"

\* The steps that list no endpoint: rows stay inserted, and endpoints disabled.
LEMMA QueueKept ==
  ASSUME WInv, QueueInv, faults' = faults \/ faults' = faults + 1,
         \A e \in Events : stage'[e] \in {"insert", "over"} /\ faults' = faults =>
           stage[e] \in {"insert", "over"},
         \A p \in Endpoints : endpoint[p] = "disabled" => endpoint'[p] = "disabled",
         \A d \in Deliveries : row[d].status # "none" => row'[d].status # "none",
         \A e \in Events, p \in Subscribed : p \in todo[e] /\ faults' = faults =>
           p \in todo'[e] \/ row'[<<e, p>>].status # "none"
  PROVE  QueueInv'
<1>1. \A e \in Events, p \in Subscribed : <<e, p>> \in Deliveries /\ p \in Endpoints
  BY WebhooksAssumption DEF Deliveries
<1>2. faults \in Nat
  BY WebhooksAssumption DEF WInv, TypeOK
<1> QED
  BY <1>1, <1>2 DEF QueueInv

LEMMA NextQueueInv == WInv /\ QueueInv /\ [Next]_vars => QueueInv'
<1> SUFFICES ASSUME WInv, QueueInv, [Next]_vars PROVE QueueInv'
  OBVIOUS
<1> USE DEF histVars, queueVars
<1>1. /\ stage \in [Events -> {"unpaid", "enqueue", "insert", "over"}]
      /\ todo \in [Events -> SUBSET Subscribed]
      /\ endpoint \in [Endpoints -> {"active", "disabled"}]
      /\ DOMAIN row = Deliveries /\ Subscribed \subseteq Endpoints
  BY WebhooksAssumption DEF WInv, TypeOK
<1>2. ASSUME NEW e \in Events, CommitPayment(e) PROVE QueueInv'
  BY <1>1, <1>2, QueueKept DEF CommitPayment
<1>3. ASSUME NEW e \in Events, ListEndpoints(e) PROVE QueueInv'
  <2>1. /\ todo'[e] = Receivers /\ UNCHANGED <<endpoint, row, faults>>
        /\ \A f \in Events \ {e} : stage'[f] = stage[f] /\ todo'[f] = todo[f]
    BY <1>1, <1>3 DEF ListEndpoints
  <2>2. \A p \in Subscribed : p \in Receivers \/ endpoint[p] = "disabled"
    BY <1>1 DEF Receivers
  <2> QED
    BY <2>1, <2>2 DEF QueueInv
<1>4. ASSUME NEW e \in Events, NEW p \in Endpoints, CreateDelivery(e, p) PROVE QueueInv'
  <2>1. <<e, p>> \in Deliveries
    BY DEF Deliveries
  <2>2. /\ row'[<<e, p>>].status = "pending"
        /\ \A d \in Deliveries : row[d].status # "none" => row'[d].status # "none"
        /\ \A f \in Events, q \in Subscribed :
             q \in todo[f] => q \in todo'[f] \/ <<f, q>> = <<e, p>>
    BY <1>1, <1>4, <2>1 DEF CreateDelivery
  <2> QED
    BY <1>4, <2>2, QueueKept DEF CreateDelivery
<1>5. ASSUME NEW e \in Events, EnqueueError(e) PROVE QueueInv'
  <2>1. faults \in Nat /\ faults' = faults + 1
    BY <1>5, WebhooksAssumption DEF EnqueueError, WInv, TypeOK
  <2> QED
    BY <2>1 DEF QueueInv
<1>6. ASSUME GetPendingDeliveries \/ \E r \in batch, ok \in BOOLEAN : Post(r, ok)
      PROVE  QueueInv'
  BY <1>6, QueueKept DEF GetPendingDeliveries, Post
<1>7. ASSUME NEW a \in inflight, RecordSuccess(a) PROVE QueueInv'
  <2>1. \A d \in Deliveries : row[d].status # "none" => row'[d].status # "none"
    BY <1>7 DEF RecordSuccess, WInv, TypeOK
  <2> QED
    BY <1>7, <2>1, QueueKept DEF RecordSuccess
<1>8. ASSUME NEW a \in inflight, RecordFailure(a) PROVE QueueInv'
  <2>1. RetryAfter(a.row.attempts + 1).status # "none"
    BY DEF RetryAfter
  <2>2. \A d \in Deliveries : row[d].status # "none" => row'[d].status # "none"
    BY <1>1, <1>8, <2>1 DEF RecordFailure
  <2> QED
    BY <1>8, <2>2, QueueKept DEF RecordFailure
<1>9. CASE DispatchError \/ Crash
  <2>1. faults \in Nat /\ faults' = faults + 1
    BY <1>9, WebhooksAssumption DEF DispatchError, Crash, WInv, TypeOK
  <2> QED
    BY <2>1 DEF QueueInv
<1>10. ASSUME NEW d \in Deliveries, Redeliver(d) PROVE QueueInv'
  <2>1. \A o \in Deliveries : row[o].status # "none" => row'[o].status # "none"
    BY <1>1, <1>10 DEF Redeliver
  <2> QED
    BY <1>10, <2>1, QueueKept DEF Redeliver
<1>11. ASSUME NEW p \in Endpoints, DeleteWebhookEndpoint(p) PROVE QueueInv'
  <2>1. \A q \in Endpoints : endpoint[q] = "disabled" => endpoint'[q] = "disabled"
    BY <1>1, <1>11 DEF DeleteWebhookEndpoint
  <2> QED
    BY <1>11, <2>1, QueueKept DEF DeleteWebhookEndpoint
<1>12. CASE Tick
  <2>1. \A d \in Deliveries : row'[d].status = row[d].status
    BY <1>12 DEF Tick, WInv, TypeOK
  <2> QED
    BY <1>12, <2>1, QueueKept DEF Tick
<1>13. CASE UNCHANGED vars
  BY <1>13, QueueKept DEF vars
<1> QED
  BY <1>2, <1>3, <1>4, <1>5, <1>6, <1>7, <1>8, <1>9, <1>10, <1>11, <1>12, <1>13
     DEF Next, EnqueueStep, DispatchStep, Record

\* Enqueue: without a failed statement and a stop of the server, the event of a
\* committed payment is queued for every endpoint that stays active, however
\* the merchant changes the others meanwhile.
THEOREM EventsQueued == Spec => []QueuedWhenDone
<1>1. Init => QueueInv
  BY DEF Init, QueueInv
<1>2. QueueInv => QueuedWhenDone
  BY DEF QueueInv, QueuedWhenDone
<1> QED
  BY <1>1, <1>2, NextQueueInv, WebhooksInvariant, PTL DEF Spec

-----------------------------------------------------------------------------
(* What merchants are promised: Webhooks implements Delivery.              *)

\* The attempts counted in a row, or fetched with it, have been requests, and
\* so is the one on its way.
SendsCounted ==
  /\ \A d \in Deliveries : row[d].attempts + (IF Sending(d) THEN 1 ELSE 0) <= sent[d]
  /\ \A r \in batch : r.attempts <= sent[r.delivery]
  /\ \A a \in inflight : a.row.attempts + 1 <= sent[a.row.delivery]

LEMMA InitCounted == Init => SendsCounted
BY DEF Init, SendsCounted, NoRow, Sending

\* A step that makes no request and fetches nothing keeps it, if it counts no
\* attempt but the one whose answer it records.
LEMMA CountKept ==
  ASSUME WInv, SendsCounted, sent' = sent, batch' \subseteq batch, inflight' \subseteq inflight,
         \A d \in Deliveries :
           \/ row'[d].attempts = row[d].attempts
           \/ row'[d].attempts = 0
           \/ row'[d].attempts = row[d].attempts + 1 /\ Sending(d) /\ ~Sending(d)'
  PROVE  SendsCounted'
<1>1. ASSUME NEW d \in Deliveries
      PROVE  row'[d].attempts + (IF Sending(d)' THEN 1 ELSE 0) <= sent'[d]
  <2>1. row[d].attempts + (IF Sending(d) THEN 1 ELSE 0) <= sent[d]
    BY DEF SendsCounted
  <2>2. row[d].attempts \in Nat /\ sent[d] \in Nat
    BY RowType DEF WInv
  <2>3. Sending(d)' => Sending(d)
    BY DEF Sending
  <2> QED
    BY <2>1, <2>2, <2>3
<1> QED
  BY <1>1 DEF SendsCounted

LEMMA FetchCounts ==
  ASSUME WInv, SendsCounted, GetPendingDeliveries
  PROVE  SendsCounted'
<1>1. PICK B \in SUBSET Due :
         batch' = {[delivery |-> d, attempts |-> row[d].attempts, due |-> row[d].wait] : d \in B}
  BY DEF GetPendingDeliveries
<1>2. UNCHANGED <<row, inflight, sent>> /\ inflight = {} /\ B \subseteq Deliveries
  BY DEF GetPendingDeliveries, histVars, Due
<1>3. ASSUME NEW d \in Deliveries
      PROVE  row[d].attempts + (IF Sending(d)' THEN 1 ELSE 0) <= sent[d]
             /\ row[d].attempts <= sent[d]
  BY <1>2, RowType DEF SendsCounted, Sending, WInv
<1>4. \A r \in batch' : r.attempts <= sent[r.delivery]
  BY <1>1, <1>2, <1>3
<1> QED
  BY <1>2, <1>3, <1>4 DEF SendsCounted

LEMMA PostCounts ==
  ASSUME WInv, SendsCounted, NEW r \in batch, NEW ok \in BOOLEAN, Post(r, ok)
  PROVE  SendsCounted'
<1>1. /\ r.delivery \in Deliveries /\ r.attempts \in Nat
      /\ batch' = batch \ {r} /\ inflight = {} /\ inflight' = {[row |-> r, ok |-> ok]}
      /\ row' = row
      /\ \A d \in Deliveries : sent'[d] = IF d = r.delivery THEN sent[d] + 1 ELSE sent[d]
  BY DEF Post, WInv, TypeOK, Fetched
<1>2. \A s \in batch :
        s.delivery \in Deliveries /\ s.attempts \in Nat /\ s.attempts <= sent[s.delivery]
  BY DEF WInv, TypeOK, Fetched, SendsCounted
<1>3. ASSUME NEW d \in Deliveries
      PROVE  row'[d].attempts + (IF Sending(d)' THEN 1 ELSE 0) <= sent'[d]
  <2>1. row[d].attempts <= sent[d] /\ row[d].attempts \in Nat /\ sent[d] \in Nat
    BY <1>1, RowType DEF SendsCounted, Sending, WInv
  <2>2. Sending(d)' <=> d = r.delivery
    BY <1>1 DEF Sending
  <2> QED
    BY <1>1, <2>1, <2>2
<1>4. \A s \in batch' : s.attempts <= sent'[s.delivery]
  <2> SUFFICES ASSUME NEW s \in batch' PROVE s.attempts <= sent'[s.delivery]
    OBVIOUS
  <2>1. s \in batch /\ sent[s.delivery] \in Nat
    BY <1>1, <1>2, RowType DEF WInv
  <2> QED
    BY <1>1, <1>2, <2>1
<1>5. \A a \in inflight' : a.row.attempts + 1 <= sent'[a.row.delivery]
  <2>1. r.attempts <= sent[r.delivery] /\ sent[r.delivery] \in Nat
    BY <1>1, <1>2, RowType DEF WInv
  <2> QED
    BY <1>1, <2>1
<1> QED
  BY <1>3, <1>4, <1>5 DEF SendsCounted

LEMMA NextCounted == WInv /\ SendsCounted /\ [Next]_vars => SendsCounted'
<1> SUFFICES ASSUME WInv, SendsCounted, [Next]_vars PROVE SendsCounted'
  OBVIOUS
<1> USE DEF histVars, queueVars
<1>1. ASSUME UNCHANGED <<row, sent>>, batch' \subseteq batch, inflight' \subseteq inflight
      PROVE  SendsCounted'
  BY <1>1, CountKept
<1>2. ASSUME NEW e \in Events, CommitPayment(e) \/ ListEndpoints(e) \/ EnqueueError(e)
      PROVE  SendsCounted'
  BY <1>1, <1>2 DEF CommitPayment, ListEndpoints, EnqueueError
<1>3. ASSUME NEW e \in Events, NEW p \in Endpoints, CreateDelivery(e, p)
      PROVE  SendsCounted'
  <2>1. \A d \in Deliveries : row'[d].attempts = row[d].attempts \/ row'[d].attempts = 0
    BY <1>3 DEF CreateDelivery, WInv, TypeOK
  <2> QED
    BY <1>3, <2>1, CountKept DEF CreateDelivery
<1>4. ASSUME NEW a \in inflight, RecordSuccess(a) PROVE SendsCounted'
  <2>1. \A d \in Deliveries : row'[d].attempts = row[d].attempts
    BY <1>4 DEF RecordSuccess, WInv, TypeOK
  <2> QED
    BY <1>4, <2>1, CountKept DEF RecordSuccess
<1>5. ASSUME NEW a \in inflight, RecordFailure(a) PROVE SendsCounted'
  <2>1. /\ Sending(a.row.delivery) /\ inflight' = {}
        /\ a.row.delivery \in Deliveries
    BY <1>5 DEF RecordFailure, Sending, WInv, TypeOK, Fetched
  <2>2. \A d \in Deliveries : IF d = a.row.delivery
                                THEN row'[d].attempts = row[d].attempts + 1
                                ELSE row'[d] = row[d]
    BY <1>5, <2>1 DEF RecordFailure, WInv, TypeOK
  <2>3. \A d : ~Sending(d)'
    BY <2>1 DEF Sending
  <2> QED
    BY <1>5, <2>1, <2>2, <2>3, CountKept DEF RecordFailure
<1>6. CASE DispatchError \/ Crash
  BY <1>1, <1>6 DEF DispatchError, Crash
<1>7. ASSUME NEW d \in Deliveries, Redeliver(d) PROVE SendsCounted'
  <2>1. \A o \in Deliveries : row'[o].attempts = row[o].attempts \/ row'[o].attempts = 0
    BY <1>7 DEF Redeliver, WInv, TypeOK
  <2> QED
    BY <1>7, <2>1, CountKept DEF Redeliver
<1>8. ASSUME NEW p \in Endpoints, DeleteWebhookEndpoint(p) PROVE SendsCounted'
  BY <1>1, <1>8 DEF DeleteWebhookEndpoint
<1>9. CASE Tick
  <2>1. \A d \in Deliveries : row'[d].attempts = row[d].attempts
    BY <1>9 DEF Tick, WInv, TypeOK
  <2> QED
    BY <1>9, <2>1, CountKept DEF Tick
<1>10. CASE UNCHANGED vars
  BY <1>1, <1>10 DEF vars
<1> QED
  BY <1>2, <1>3, <1>4, <1>5, <1>6, <1>7, <1>8, <1>9, <1>10, FetchCounts, PostCounts
     DEF Next, EnqueueStep, DispatchStep, Record

\* At most one answer is on its way.
LEMMA OneAnswer ==
  /\ inflight = {} => Answers = [d \in Deliveries |-> "none"]
  /\ \A a : inflight = {a} =>
       Answers = [d \in Deliveries |-> IF d # a.row.delivery THEN "none"
                                       ELSE IF a.ok THEN "accepted" ELSE "refused"]
BY DEF Answers

LEMMA OneAnswerNext ==
  /\ inflight' = {} => Answers' = [d \in Deliveries |-> "none"]
  /\ \A a : inflight' = {a} =>
       Answers' = [d \in Deliveries |-> IF d # a.row.delivery THEN "none"
                                        ELSE IF a.ok THEN "accepted" ELSE "refused"]
BY DEF Answers

\* A step that merchants do not see.
LEMMA Unseen ==
  ASSUME Paid' = Paid, Statuses' = Statuses, Answers' = Answers, sent' = sent
  PROVE  UNCHANGED Abstract!vars
BY DEF Abstract!vars

\* An answer is recorded, or lost.
LEMMA AnswerRecorded ==
  ASSUME WInv, NEW a \in inflight, inflight' = {}, UNCHANGED <<stage, sent>>
  PROVE  /\ a.row.delivery \in Deliveries /\ a.ok \in BOOLEAN
         /\ Answers[a.row.delivery] = IF a.ok THEN "accepted" ELSE "refused"
         /\ Answers' = [Answers EXCEPT ![a.row.delivery] = "none"]
         /\ Paid' = Paid
<1>1. inflight = {a} /\ a.row.delivery \in Deliveries /\ a.ok \in BOOLEAN
  BY DEF WInv, HeldOnce, TypeOK, Fetched
<1>2. /\ Answers = [d \in Deliveries |-> IF d # a.row.delivery THEN "none"
                                         ELSE IF a.ok THEN "accepted" ELSE "refused"]
      /\ Answers' = [d \in Deliveries |-> "none"]
  BY <1>1, OneAnswer, OneAnswerNext
<1> QED
  BY <1>1, <1>2 DEF Paid

\* The rows that one step touches.
LEMMA StatusesOf ==
  ASSUME WInv, NEW d \in Deliveries, \A o \in Deliveries : o # d => row'[o] = row[o]
  PROVE  Statuses' = [Statuses EXCEPT ![d] = row'[d].status]
BY DEF Statuses

LEMMA SameStatuses ==
  ASSUME \A d \in Deliveries : row'[d].status = row[d].status
  PROVE  Statuses' = Statuses
BY DEF Statuses

\* Enqueue, and the payment before it.
LEMMA QueueRefines ==
  ASSUME WInv, NEW e \in Events, CommitPayment(e) \/ EnqueueStep(e) \/ EnqueueError(e)
  PROVE  [Abstract!Next]_(Abstract!vars)
<1> USE DEF histVars
<1>1. stage \in [Events -> {"unpaid", "enqueue", "insert", "over"}]
  BY DEF WInv, TypeOK
<1>2. CASE CommitPayment(e)
  <2>1. Paid' = Paid \cup {e}
    BY <1>1, <1>2 DEF CommitPayment, Paid
  <2>2. Statuses' = Statuses /\ Answers' = Answers /\ sent' = sent
    BY <1>2 DEF CommitPayment, Statuses, Answers
  <2> QED
    BY <2>1, <2>2 DEF Abstract!Next, Abstract!Pay
<1>3. CASE ListEndpoints(e) \/ EnqueueError(e)
  <2>1. stage[e] # "unpaid"
    BY <1>3 DEF ListEndpoints, EnqueueError, Queueing, WInv, NotInserted
  <2>2. Paid' = Paid
    BY <1>1, <1>3, <2>1 DEF ListEndpoints, EnqueueError, Paid
  <2>3. Statuses' = Statuses /\ Answers' = Answers /\ sent' = sent
    BY <1>3 DEF ListEndpoints, EnqueueError, Statuses, Answers
  <2> QED
    BY <2>2, <2>3, Unseen
<1>4. ASSUME NEW p \in Endpoints, CreateDelivery(e, p)
      PROVE  [Abstract!Next]_(Abstract!vars)
  <2>1. /\ p \in todo[e] /\ <<e, p>> \in Deliveries
        /\ stage[e] # "unpaid" /\ row[<<e, p>>].status = "none" /\ p \in Subscribed
    BY <1>4 DEF CreateDelivery, Deliveries, WInv, TypeOK, NotInserted
  <2>2. /\ row'[<<e, p>>].status = "pending"
        /\ \A o \in Deliveries : o # <<e, p>> => row'[o] = row[o]
    BY <1>4, <2>1 DEF CreateDelivery, WInv, TypeOK
  <2>3. Statuses' = [Statuses EXCEPT ![<<e, p>>] = "pending"]
    BY <2>1, <2>2, StatusesOf
  <2>4. e \in Paid /\ Statuses[<<e, p>>] = "none"
    BY <2>1 DEF Paid, Statuses
  <2>5. Paid' = Paid /\ Answers' = Answers /\ sent' = sent
    BY <1>4 DEF CreateDelivery, Paid, Answers
  <2>6. Abstract!Owe(e, p)
    BY <2>1, <2>3, <2>4, <2>5 DEF Abstract!Owe
  <2> QED
    BY <2>6 DEF Abstract!Next
<1> QED
  BY <1>2, <1>3, <1>4 DEF EnqueueStep

\* A request.
LEMMA PostRefines ==
  ASSUME WInv, NEW r \in batch, NEW ok \in BOOLEAN, Post(r, ok)
  PROVE  Abstract!Next
<1> DEFINE ans == IF ok THEN "accepted" ELSE "refused"
           d == r.delivery
<1>1. /\ d \in Deliveries /\ row[d].status = "pending"
  BY DEF WInv, TypeOK, Fetched, HeldOnce, Held
<1>2. /\ inflight = {} /\ inflight' = {[row |-> r, ok |-> ok]}
      /\ sent' = [sent EXCEPT ![d] = @ + 1]
      /\ UNCHANGED <<stage, row>>
  BY DEF Post, queueVars
<1>3. Answers = [o \in Deliveries |-> "none"]
  BY <1>2, OneAnswer
<1>4. Answers' = [o \in Deliveries |-> IF o # d THEN "none" ELSE ans]
  <2> DEFINE a == [row |-> r, ok |-> ok]
  <2>1. a.row = r /\ a.ok = ok
    OBVIOUS
  <2> HIDE DEF a
  <2>2. Answers' = [o \in Deliveries |-> IF o # a.row.delivery THEN "none"
                                         ELSE IF a.ok THEN "accepted" ELSE "refused"]
    BY <1>2, OneAnswerNext DEF a
  <2> QED
    BY <2>1, <2>2
<1>5. Answers' = [Answers EXCEPT ![d] = ans]
  BY <1>1, <1>3, <1>4
<1>6. /\ Statuses[d] = "pending" /\ Statuses' = Statuses /\ Paid' = Paid
      /\ \A o \in Deliveries : Answers[o] = "none"
  BY <1>1, <1>2, <1>3 DEF Statuses, Paid
<1>7. Abstract!Request(d, ans) /\ ans \in {"accepted", "refused"}
  BY <1>2, <1>5, <1>6 DEF Abstract!Request, Abstract!Deliveries, Deliveries
<1> QED
  BY <1>1, <1>7 DEF Abstract!Next, Abstract!Deliveries, Deliveries

\* A request is answered, and the answer recorded.
LEMMA SuccessRefines ==
  ASSUME WInv, NEW a \in inflight, RecordSuccess(a)
  PROVE  Abstract!Next
<1> DEFINE d == a.row.delivery
<1>1. a.ok /\ inflight' = {} /\ UNCHANGED <<stage, sent>>
  BY DEF RecordSuccess, queueVars, histVars
<1>2. /\ d \in Deliveries /\ Answers[d] = "accepted"
      /\ Answers' = [Answers EXCEPT ![d] = "none"] /\ Paid' = Paid
  BY <1>1, AnswerRecorded
<1>3. /\ row'[d].status = "delivered"
      /\ \A o \in Deliveries : o # d => row'[o] = row[o]
  BY <1>2 DEF RecordSuccess, WInv, TypeOK
<1>4. Statuses' = [Statuses EXCEPT ![d] = "delivered"]
  <2> HIDE DEF d
  <2> QED
    BY <1>2, <1>3, StatusesOf
<1>5. Abstract!Confirm(d)
  BY <1>1, <1>2, <1>4 DEF Abstract!Confirm, Abstract!Answered
<1> QED
  BY <1>2, <1>5 DEF Abstract!Next, Abstract!Deliveries, Deliveries

LEMMA FailureRefines ==
  ASSUME WInv, SendsCounted, NEW a \in inflight, RecordFailure(a)
  PROVE  Abstract!Next
<1> DEFINE d == a.row.delivery
           next == RetryAfter(a.row.attempts + 1)
<1>1. ~a.ok /\ inflight' = {} /\ UNCHANGED <<stage, sent>>
  BY DEF RecordFailure, queueVars
<1>2. /\ d \in Deliveries /\ Answers[d] = "refused"
      /\ Answers' = [Answers EXCEPT ![d] = "none"] /\ Paid' = Paid
  BY <1>1, AnswerRecorded
<1>3. /\ row'[d].status = next.status
      /\ \A o \in Deliveries : o # d => row'[o] = row[o]
  BY <1>2 DEF RecordFailure, WInv, TypeOK
<1>4. a.row.attempts \in Nat /\ a.row.attempts + 1 <= sent[d] /\ row[d].status = "pending"
  BY DEF WInv, TypeOK, Fetched, SendsCounted, HeldOnce, Held
\* Either the schedule has a delay for that many failures, or it is used up.
<1>5. \/ next.status = "pending"
      \/ next.status = "failed" /\ a.row.attempts + 1 >= MaxSends
  BY <1>4, Constants DEF RetryAfter, Attempts
<1>6. Statuses' = [Statuses EXCEPT ![d] = next.status]
  <2> HIDE DEF d, next
  <2> QED
    BY <1>2, <1>3, StatusesOf
<1> HIDE DEF next
<1>7. CASE next.status = "pending"
  <2>1. Statuses' = Statuses
    BY <1>2, <1>4, <1>6, <1>7 DEF Statuses
  <2>2. Abstract!Retry(d)
    BY <1>1, <1>2, <2>1 DEF Abstract!Retry, Abstract!Answered
  <2> QED
    BY <1>2, <2>2 DEF Abstract!Next, Abstract!Deliveries, Deliveries
<1>8. CASE next.status = "failed" /\ a.row.attempts + 1 >= MaxSends
  <2>1. sent[d] >= MaxSends
    <3> HIDE DEF d
    <3>1. sent[d] \in Nat
      BY <1>2, RowType DEF WInv
    <3> QED
      BY <1>4, <1>8, <3>1, Constants
  <2>2. Abstract!GiveUp(d)
    BY <1>1, <1>2, <1>6, <1>8, <2>1 DEF Abstract!GiveUp, Abstract!Answered
  <2> QED
    BY <1>2, <2>2 DEF Abstract!Next, Abstract!Deliveries, Deliveries
<1> QED
  BY <1>5, <1>7, <1>8

\* A fault loses the answer that was on its way, if any.
LEMMA FaultRefines ==
  ASSUME WInv, DispatchError \/ Crash
  PROVE  [Abstract!Next]_(Abstract!vars)
<1>1. inflight' = {} /\ UNCHANGED <<row, sent>>
  BY DEF DispatchError, Crash, histVars
<1>2. Paid' = Paid
  <2>1. CASE DispatchError
    BY <2>1 DEF DispatchError, queueVars, Paid
  <2>2. CASE Crash
    <3>1. \A e \in Events : Queueing(e) => stage[e] # "unpaid"
      BY DEF Queueing, WInv, NotInserted
    <3> QED
      BY <2>2, <3>1 DEF Crash, Paid
  <2> QED
    BY <2>1, <2>2
<1>3. Statuses' = Statuses
  BY <1>1, SameStatuses
<1>4. CASE inflight = {}
  <2>1. Answers' = Answers
    BY <1>1, <1>4, OneAnswer, OneAnswerNext
  <2> QED
    BY <1>1, <1>2, <1>3, <2>1, Unseen
<1>5. ASSUME NEW a \in inflight PROVE Abstract!Next
  <2> DEFINE d == a.row.delivery
  <2>1. inflight = {a} /\ d \in Deliveries
    BY DEF WInv, HeldOnce, TypeOK, Fetched
  <2>2. /\ Answers = [o \in Deliveries |-> IF o # d THEN "none"
                                           ELSE IF a.ok THEN "accepted" ELSE "refused"]
        /\ Answers' = [o \in Deliveries |-> "none"]
    BY <1>1, <2>1, OneAnswer, OneAnswerNext
  <2>3. Answers[d] # "none" /\ Answers' = [Answers EXCEPT ![d] = "none"]
    BY <2>1, <2>2
  <2>4. Abstract!Lose(d)
    BY <1>1, <1>2, <1>3, <2>3 DEF Abstract!Lose, Abstract!Answered
  <2> QED
    BY <2>1, <2>4 DEF Abstract!Next, Abstract!Deliveries, Deliveries
<1> QED
  BY <1>4, <1>5

LEMMA RedeliverRefines ==
  ASSUME WInv, NEW d \in Deliveries, Redeliver(d)
  PROVE  Abstract!Next
<1>1. /\ row'[d].status = "pending" /\ row[d].status # "none"
      /\ \A o \in Deliveries : o # d => row'[o] = row[o]
      /\ UNCHANGED <<stage, inflight, sent>>
  BY DEF Redeliver, WInv, TypeOK, queueVars
<1>2. Statuses' = [Statuses EXCEPT ![d] = "pending"] /\ Statuses[d] # "none"
  BY <1>1, StatusesOf DEF Statuses
<1>3. Paid' = Paid /\ Answers' = Answers
  BY <1>1 DEF Paid, Answers
<1>4. Abstract!Redeliver(d)
  BY <1>1, <1>2, <1>3 DEF Abstract!Redeliver
<1> QED
  BY <1>4 DEF Abstract!Next, Abstract!Deliveries, Deliveries

\* The steps in which only the queue, the batch or the clock moves.
LEMMA QuietRefines ==
  ASSUME WInv, \/ GetPendingDeliveries
               \/ \E p \in Endpoints : DeleteWebhookEndpoint(p)
               \/ Tick
               \/ UNCHANGED vars
  PROVE  UNCHANGED Abstract!vars
<1>1. UNCHANGED <<stage, inflight, sent>>
  BY DEF GetPendingDeliveries, DeleteWebhookEndpoint, Tick, vars, queueVars, histVars
<1>2. \A d \in Deliveries : row'[d].status = row[d].status
  <2>1. CASE Tick
    BY <2>1 DEF Tick, WInv, TypeOK
  <2>2. CASE ~Tick
    BY <2>2 DEF GetPendingDeliveries, DeleteWebhookEndpoint, vars
  <2> QED
    BY <2>1, <2>2
<1>3. Paid' = Paid /\ Answers' = Answers
  BY <1>1 DEF Paid, Answers
<1> QED
  BY <1>1, <1>2, <1>3, SameStatuses, Unseen

\* Whatever step is taken.
LEMMA DeliverySteps ==
  ASSUME WInv, SendsCounted, [Next]_vars
  PROVE  [Abstract!Next]_(Abstract!vars)
BY QueueRefines, PostRefines, SuccessRefines, FailureRefines, FaultRefines, RedeliverRefines,
   QuietRefines
   DEF Next, DispatchStep, Record

LEMMA InitRefines == Init => Abstract!Init
<1> SUFFICES ASSUME Init PROVE Abstract!Init
  OBVIOUS
<1>1. Paid = {} /\ Statuses = [d \in Deliveries |-> "none"]
  BY DEF Init, Paid, Statuses, NoRow
<1>2. Answers = [d \in Deliveries |-> "none"] /\ sent = [d \in Deliveries |-> 0]
  BY OneAnswer DEF Init
<1> QED
  BY <1>1, <1>2 DEF Abstract!Init, Abstract!Deliveries, Deliveries

\* Enqueue and the dispatcher: whatever the batches, the schedule, faults and
\* redeliveries do, merchants see what Delivery promises.
THEOREM DeliveryImplemented == Spec => ImplementsDelivery
<1>1. Init => SendsCounted /\ Abstract!Init
  BY InitCounted, InitRefines
<1>2. WInv /\ SendsCounted /\ [Next]_vars => [Abstract!Next]_(Abstract!vars)
  BY DeliverySteps
<1> QED
  BY <1>1, <1>2, NextCounted, WebhooksInvariant, PTL
     DEF Spec, ImplementsDelivery, Abstract!Spec
=============================================================================
