--------------------------- MODULE SessionCreation ---------------------------
(***************************************************************************)
(* POST /v1/sessions (internal/api/merchant/sessions.go, createSession)    *)
(* with the idempotency keys (internal/idempotency) and the plan limit     *)
(* (internal/billing) it is subject to.                                    *)
(*                                                                         *)
(* A call is one execution of the handler: a sequence of statements, none  *)
(* of them in a transaction, between which other calls run and after any   *)
(* of which it may fail.  A retry is another call with the same request.   *)
(***************************************************************************)
EXTENDS Naturals, FiniteSets

CONSTANTS
  Calls,        \* executions of createSession
  Merchants,
  Keys,         \* values of the header Idempotency-Key
  Bodies,       \* request bodies that differ in their hash
  None,         \* no header; SQL NULL or no row
  Asked,        \* the requests that callers make
  Limit,        \* sessions_per_month of the plan; 0 is unlimited
  MaxFaults,    \* bound: statements that fail, and stops of the server
  MaxExpiries   \* bound: keys that reach the age of 24 hours

ASSUME CreationAssumption ==
  /\ Limit \in Nat
  /\ MaxFaults \in Nat
  /\ MaxExpiries \in Nat

VARIABLES
  pc,        \* next statement of each call
  request,   \* what the call was asked
  answer,    \* what it answered
  sessions,  \* checkout_sessions, each row named after the call that wrote it
  counter,   \* session_count_current_period of each merchant
  keys,      \* idempotency_keys: the primary key is the key alone
  faults,
  expiries,
  before     \* history: calls that had answered 201 when the call began

vars == <<pc, request, answer, sessions, counter, keys, faults, expiries, before>>

Requests == [merchant : Merchants, key : Keys \cup {None}, body : Bodies]

ASSUME AskedAssumption == Asked \subseteq Requests

KeyRows ==
  [merchant : Merchants, body : Bodies, session : Calls, expired : BOOLEAN]

Answers ==
  [code : {"created"}, session : Calls]
    \cup [code : {"conflict", "limit", "error"}, session : {None}]

ASSUME NoneAssumption ==
  None \notin Keys \cup Calls \cup Requests \cup KeyRows \cup Answers

TypeOK ==
  /\ pc \in [Calls -> {"idle", "check", "limit", "create", "count", "store", "over"}]
  /\ request \in [Calls -> Requests \cup {None}]
  /\ answer \in [Calls -> Answers \cup {None}]
  /\ sessions \subseteq Calls
  /\ counter \in [Merchants -> Nat]
  /\ keys \in [Keys -> KeyRows \cup {None}]
  /\ faults \in 0 .. MaxFaults
  /\ expiries \in 0 .. MaxExpiries
  /\ before \in [Calls -> SUBSET Calls]

Init ==
  /\ pc = [c \in Calls |-> "idle"]
  /\ request = [c \in Calls |-> None]
  /\ answer = [c \in Calls |-> None]
  /\ sessions = {}
  /\ counter = [m \in Merchants |-> 0]
  /\ keys = [k \in Keys |-> None]
  /\ faults = 0
  /\ expiries = 0
  /\ before = [c \in Calls |-> {}]

Created == {c \in Calls : answer[c] # None /\ answer[c].code = "created"}

Goto(c, statement) ==
  /\ pc' = [pc EXCEPT ![c] = statement]
  /\ UNCHANGED answer

Answer(c, code, session) ==
  /\ pc' = [pc EXCEPT ![c] = "over"]
  /\ answer' = [answer EXCEPT ![c] = [code |-> code, session |-> session]]

-----------------------------------------------------------------------------
(* The statements of createSession.                                        *)

Start(c, r) ==
  /\ pc[c] = "idle"
  /\ request' = [request EXCEPT ![c] = r]
  /\ before' = [before EXCEPT ![c] = Created]
  /\ Goto(c, IF r.key = None THEN "limit" ELSE "check")
  /\ UNCHANGED <<sessions, counter, keys, faults, expiries>>

\* Mutant of Found: the row is looked up by the key alone.
FoundForAnyone(r) == keys[r.key] # None /\ ~keys[r.key].expired

\* Mutant of Found: the comparison with expires_at is turned around.
FoundExpired(r) ==
  keys[r.key] # None /\ keys[r.key].expired /\ keys[r.key].merchant = r.merchant

\* GetIdempotencyKey: the merchant's own row, not older than 24 hours.
Found(r) ==
  keys[r.key] # None /\ ~keys[r.key].expired /\ keys[r.key].merchant = r.merchant

\* The stored response is replayed, or the key is refused for another body.
Check(c) ==
  LET r == request[c] IN
  /\ pc[c] = "check"
  /\ \/ ~Found(r) /\ Goto(c, "limit")
     \/ Found(r) /\ keys[r.key].body = r.body /\ Answer(c, "created", keys[r.key].session)
     \/ Found(r) /\ keys[r.key].body # r.body /\ Answer(c, "conflict", None)
  /\ UNCHANGED <<request, sessions, counter, keys, faults, expiries, before>>

\* The request is not valid, or its profile is not found or not active.
Reject(c) ==
  /\ pc[c] = "limit"
  /\ Answer(c, "error", None)
  /\ UNCHANGED <<request, sessions, counter, keys, faults, expiries, before>>

\* Mutant of Reached: one more than the limit is let through.
ReachedLater(m) == Limit # 0 /\ counter[m] > Limit

Reached(m) == Limit # 0 /\ counter[m] >= Limit

CheckLimit(c) ==
  /\ pc[c] = "limit"
  /\ IF Reached(request[c].merchant)
     THEN Answer(c, "limit", None)
     ELSE Goto(c, "create")
  /\ UNCHANGED <<request, sessions, counter, keys, faults, expiries, before>>

\* The merchant cannot be read and the call is refused, or the plan or the
\* counter cannot and it is let through.
CheckLimitFails(c) ==
  /\ pc[c] = "limit"
  /\ faults < MaxFaults
  /\ faults' = faults + 1
  /\ Answer(c, "limit", None) \/ Goto(c, "create")
  /\ UNCHANGED <<request, sessions, counter, keys, expiries, before>>

CreateSession(c) ==
  /\ pc[c] = "create"
  /\ sessions' = sessions \cup {c}
  /\ Goto(c, "count")
  /\ UNCHANGED <<request, counter, keys, faults, expiries, before>>

IncrMerchantSessionCount(c) ==
  /\ pc[c] = "count"
  /\ counter' = [counter EXCEPT ![request[c].merchant] = @ + 1]
  /\ IF request[c].key = None THEN Answer(c, "created", c) ELSE Goto(c, "store")
  /\ UNCHANGED <<request, sessions, keys, faults, expiries, before>>

RowOf(c) ==
  [merchant |-> request[c].merchant, body |-> request[c].body,
   session |-> c, expired |-> FALSE]

\* Mutant of Stored: the last response wins.
StoredAnyway(c) == RowOf(c)

\* ON CONFLICT (key) DO NOTHING: a row of anybody's, expired or not, is kept.
Stored(c) == IF keys[request[c].key] = None THEN RowOf(c) ELSE keys[request[c].key]

Store(c) ==
  /\ pc[c] = "store"
  /\ keys' = [keys EXCEPT ![request[c].key] = Stored(c)]
  /\ Answer(c, "created", c)
  /\ UNCHANGED <<request, sessions, counter, faults, expiries, before>>

\* A statement fails, the caller goes away or the server stops: what has been
\* written stays.
Fail(c) ==
  /\ pc[c] \notin {"idle", "over"}
  /\ faults < MaxFaults
  /\ faults' = faults + 1
  /\ Answer(c, "error", None)
  /\ UNCHANGED <<request, sessions, counter, keys, expiries, before>>

-----------------------------------------------------------------------------
(* The keys grow old.                                                      *)

Expire(k) ==
  /\ keys[k] # None
  /\ ~keys[k].expired
  /\ expiries < MaxExpiries
  /\ expiries' = expiries + 1
  /\ keys' = [keys EXCEPT ![k].expired = TRUE]
  /\ UNCHANGED <<pc, request, answer, sessions, counter, faults, before>>

\* Mutant of Cleanup: every row is deleted.
CleanupAll ==
  /\ \E k \in Keys : keys[k] # None
  /\ keys' = [k \in Keys |-> None]
  /\ UNCHANGED <<pc, request, answer, sessions, counter, faults, expiries, before>>

\* The hourly worker deletes the expired rows.
Cleanup ==
  /\ \E k \in Keys : keys[k] # None /\ keys[k].expired
  /\ keys' = [k \in Keys |-> IF keys[k] # None /\ keys[k].expired THEN None ELSE keys[k]]
  /\ UNCHANGED <<pc, request, answer, sessions, counter, faults, expiries, before>>

Next ==
  \/ \E c \in Calls :
       \/ \E r \in Asked : Start(c, r)
       \/ Check(c)
       \/ Reject(c)
       \/ CheckLimit(c)
       \/ CheckLimitFails(c)
       \/ CreateSession(c)
       \/ IncrMerchantSessionCount(c)
       \/ Store(c)
       \/ Fail(c)
  \/ \E k \in Keys : Expire(k)
  \/ Cleanup

Spec == Init /\ [][Next]_vars

-----------------------------------------------------------------------------
(* Properties.                                                             *)

\* Whatever calls overlap, fail or find their key used by another merchant,
\* the session answered is one the same merchant asked for with the same body.
AnswersOwnSession ==
  \A c \in Created :
    LET s == answer[c].session
    IN  /\ s \in sessions
        /\ request[s].merchant = request[c].merchant
        /\ request[s].body = request[c].body

OneMerchant(k) ==
  \A c, d \in Calls :
    (request[c] # None /\ request[d] # None /\ request[c].key = k /\ request[d].key = k)
      => request[c].merchant = request[d].merchant

\* A request with a key that was answered is not carried out again by a call
\* that begins later, even if others with the key are still on their way or
\* have failed, as long as the key has not expired and is one merchant's.
RetryCreatesNothing ==
  \A c \in sessions : \A d \in before[c] :
    (request[c].key # None /\ OneMerchant(request[c].key) /\ expiries = 0)
      => request[d] # request[c]

\* Calls with one key that overlap may each create a session, but all that
\* find a stored response find the same.
Replayed == {c \in Created : answer[c].session # c}

ReplaysAgree ==
  \A c, d \in Replayed :
    (request[c].key = request[d].key /\ expiries = 0)
      => answer[c].session = answer[d].session

\* Overlapping calls can exceed the plan's limit together; but a call that
\* begins when as many as the limit have been answered creates a session only
\* if its limit could not be read, so that there is a fault for each of them.
AnsweredBefore(c) == {d \in before[c] \cap sessions : request[d].merchant = request[c].merchant}

LimitOnAnswered ==
  Limit # 0 =>
    Cardinality({c \in sessions : Cardinality(AnsweredBefore(c)) >= Limit}) <= faults

\* What a call has done by the time it is about to execute a statement.
Progress(c) ==
  /\ (pc[c] = "idle") <=> (request[c] = None)
  /\ (pc[c] = "over") <=> (answer[c] # None)
  /\ pc[c] \in {"check", "store"} => request[c].key # None
  /\ pc[c] \in {"idle", "check", "limit", "create"} => c \notin sessions
  /\ pc[c] \in {"count", "store"} => c \in sessions

RowsSound ==
  \A k \in Keys : keys[k] # None =>
    LET s == keys[k].session
    IN  /\ s \in sessions
        /\ request[s] = [merchant |-> keys[k].merchant, key |-> k, body |-> keys[k].body]

\* While no key has expired, the response of a key that was answered is there,
\* and it is the one replayed, unless the key belongs to another merchant.
ResponsesKept ==
  expiries = 0 =>
    /\ \A k \in Keys : keys[k] # None => ~keys[k].expired
    /\ \A c \in Created : request[c].key # None => keys[request[c].key] # None
    /\ \A c \in Replayed :
         /\ request[c].key # None
         /\ answer[c].session = keys[request[c].key].session

\* A call past Check began before the key was answered for its request.
PastCheck ==
  \A c \in Calls :
    /\ before[c] \subseteq Created
    /\ (pc[c] \in {"limit", "create", "count", "store"} \/ c \in sessions) =>
         \A d \in before[c] :
           (request[c].key # None /\ OneMerchant(request[c].key) /\ expiries = 0)
             => request[d] # request[c]

\* The inductive invariant.
IInv ==
  /\ TypeOK
  /\ \A c \in Calls : Progress(c)
  /\ RowsSound
  /\ AnswersOwnSession
  /\ ResponsesKept
  /\ PastCheck
=============================================================================
