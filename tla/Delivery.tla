------------------------------ MODULE Delivery ------------------------------
(***************************************************************************)
(* What a merchant is promised of webhook deliveries, with nothing of the  *)
(* queue, the batches, the schedule or the clock: which requests are made, *)
(* and what their answers may make of a delivery.                          *)
(*                                                                         *)
(* The dispatcher, Webhooks, is shown to implement this specification.     *)
(***************************************************************************)
EXTENDS Naturals

CONSTANTS
  Events,
  Endpoints,
  Subscribed,  \* the endpoints that asked for the events
  Limit        \* requests that are made before a delivery is given up

VARIABLES
  paid,      \* events whose payment is committed
  status,    \* of each delivery, as the merchant sees it
  answer,    \* of the request on its way: "accepted", "refused", else "none"
  requests   \* requests made so far

vars == <<paid, status, answer, requests>>

Deliveries == Events \X Endpoints

Init ==
  /\ paid = {}
  /\ status = [d \in Deliveries |-> "none"]
  /\ answer = [d \in Deliveries |-> "none"]
  /\ requests = [d \in Deliveries |-> 0]

Pay(e) ==
  /\ paid' = paid \cup {e}
  /\ UNCHANGED <<status, answer, requests>>

\* A delivery is owed once, for a payment that is committed and an endpoint
\* that asked for its event.
Owe(e, p) ==
  /\ e \in paid /\ p \in Subscribed
  /\ status[<<e, p>>] = "none"
  /\ status' = [status EXCEPT ![<<e, p>>] = "pending"]
  /\ UNCHANGED <<paid, answer, requests>>

\* One request at a time, and only for a delivery that is pending.
Request(d, ans) ==
  /\ status[d] = "pending"
  /\ \A o \in Deliveries : answer[o] = "none"
  /\ answer' = [answer EXCEPT ![d] = ans]
  /\ requests' = [requests EXCEPT ![d] = @ + 1]
  /\ UNCHANGED <<paid, status>>

Answered(d) ==
  /\ answer' = [answer EXCEPT ![d] = "none"]
  /\ UNCHANGED <<paid, requests>>

\* Only an accepted request delivers, ...
Confirm(d) ==
  /\ answer[d] = "accepted"
  /\ status' = [status EXCEPT ![d] = "delivered"]
  /\ Answered(d)

\* ... a refused one leaves the delivery pending, ...
Retry(d) ==
  /\ answer[d] = "refused"
  /\ UNCHANGED status
  /\ Answered(d)

\* ... and no delivery is given up before it was requested often enough, the
\* requests before the merchant asked for it again included: one that is asked
\* for while its last request is on its way is given up all the same.
GiveUp(d) ==
  /\ answer[d] = "refused"
  /\ requests[d] >= Limit
  /\ status' = [status EXCEPT ![d] = "failed"]
  /\ Answered(d)

\* The answer is not recorded, and the delivery stays pending.
Lose(d) ==
  /\ answer[d] # "none"
  /\ UNCHANGED status
  /\ Answered(d)

\* The merchant asks for any delivery again.
Redeliver(d) ==
  /\ status[d] # "none"
  /\ status' = [status EXCEPT ![d] = "pending"]
  /\ UNCHANGED <<paid, answer, requests>>

Next ==
  \/ \E e \in Events : Pay(e) \/ \E p \in Endpoints : Owe(e, p)
  \/ \E d \in Deliveries :
       \/ \E ans \in {"accepted", "refused"} : Request(d, ans)
       \/ Confirm(d) \/ Retry(d) \/ GiveUp(d) \/ Lose(d)
       \/ Redeliver(d)

Spec == Init /\ [][Next]_vars
=============================================================================
