------------------------------ MODULE Matching ------------------------------
(***************************************************************************)
(* The matching engine of the backend (apps/backend/internal/matching)     *)
(* together with the HTTP handlers that write the same checkout_sessions   *)
(* rows (internal/api/merchant/checkout.go and sessions.go).               *)
(*                                                                         *)
(* One step is one database transaction.  Engine.Process runs in a single  *)
(* transaction and is one step here (MatchingTx opens it up into its       *)
(* statements).  Everything else in these handlers is a sequence of        *)
(* autocommitted statements, so a handler that reads a row and later       *)
(* writes it takes two steps, and the row may change in between: the       *)
(* reads it has done are remembered in "calls".                            *)
(*                                                                         *)
(* What an SMS says and what a session asks for never change and are the   *)
(* constants Content and Order.                                            *)
(***************************************************************************)
EXTENDS Integers, FiniteSets

CONSTANTS
  Sessions,            \* ids of checkout_sessions
  Messages,            \* ids of sms_messages
  Providers,           \* bKash, Nagad
  Profiles,            \* ids of payment_profiles, all of one merchant
  Senders,             \* canonical phone numbers
  TrxIds,              \* MFS transaction ids; EmptyTrx is the empty string
  EmptyTrx,
  None,                \* SQL NULL
  Content,             \* Content[m]: what the parsed SMS m says
  Order,               \* Order[s]: profile and amount of session s
  OpeningBalance,      \* tracked_balance of each profile, None for NULL
  BalanceVerification, \* settings and profile.balance_verification, by profile
  AmountTolerance,     \* settings.amount_tolerance
  AutoAcceptLateMatch, \* the values settings.auto_accept_late_match takes
  ClaimWindow,         \* settings.claim_window_minutes
  ClaimSlack,          \* the five minutes before a claim, engine.go:260
  LateGrace,           \* the 24 hours after expiry, engine.go:306
  SessionTTL,          \* lifetime of a session
  MaxTime,             \* bound: the clock stops here
  MaxCalls,            \* bound: HTTP and claim calls in flight at a time
  MaxWork              \* bound: calls of Process outstanding at a time

ASSUME ContentAssumption ==
  /\ Content \in [Messages ->
       [provider : Providers, profile : Profiles \cup {None},
        sender : Senders, trx : TrxIds \cup {EmptyTrx},
        amount : Nat, balance : Nat \cup {None}]]
  /\ Order \in [Sessions -> [profile : Profiles, amount : Nat]]
  /\ OpeningBalance \in [Profiles -> Nat \cup {None}]
  /\ BalanceVerification \in [Profiles -> BOOLEAN]

ASSUME SettingsAssumption ==
  /\ AutoAcceptLateMatch \subseteq BOOLEAN
  /\ AmountTolerance \in Nat
  /\ ClaimWindow \in Nat
  /\ ClaimSlack \in Nat
  /\ LateGrace \in Nat
  /\ SessionTTL \in Nat
  /\ MaxTime \in Nat
  /\ MaxCalls \in Nat
  /\ MaxWork \in Nat

\* NULL and the empty transaction id are values of their own.
ASSUME NoneAssumption ==
  /\ None \notin Int
  /\ None \notin Profiles
  /\ None \notin Senders
  /\ None \notin TrxIds \cup {EmptyTrx}
  /\ None \notin Sessions
  /\ EmptyTrx \notin TrxIds

VARIABLES
  now,          \* the clock, shared by the database and the server
  status,       \* checkout_sessions.status, "none" before the row exists
  created,      \* created_at
  senderClaim,  \* sender_number_claim
  trxClaim,     \* trx_id_claim
  claimAt,      \* claim_submitted_at
  review,       \* review_reason; needs_review is review # None
  parse,        \* sms_messages.parse_status
  match,        \* match_status, "none" before the row exists
  matchedTo,    \* matched_session_id
  smsTime,      \* the time the SMS carries
  payments,     \* rows of the payments table
  tracked,      \* payment_profiles.tracked_balance
  work,         \* stored SMS for which a call of Process is outstanding
  calls         \* handler calls that have read a session and not yet written

sessionVars == <<status, created, senderClaim, trxClaim, claimAt, review>>
claimVars   == <<senderClaim, trxClaim, claimAt>>
smsVars     == <<parse, match, matchedTo, smsTime>>
vars == <<now, sessionVars, smsVars, payments, tracked, work, calls>>

Times == 0 .. MaxTime

SessionStatus == {"pending", "succeeded", "canceled", "expired"}
MatchStatus == {"unmatched", "held", "suspect", "duplicate", "matched"}
Sources == {"trxid_claim", "auto", "late_auto"}

PaymentRows ==
  [session : Sessions, sms : Messages, trx : TrxIds \cup {EmptyTrx},
   source : Sources]

CallRows ==
  [op : {"cancel", "expire", "claim", "reclaim"}, session : Sessions,
   sender : Senders \cup {None}, trx : TrxIds \cup {None}]

TypeOK ==
  /\ now \in Times
  /\ status \in [Sessions -> SessionStatus \cup {"none"}]
  /\ created \in [Sessions -> Times]
  /\ senderClaim \in [Sessions -> Senders \cup {None}]
  /\ trxClaim \in [Sessions -> TrxIds \cup {None}]
  /\ claimAt \in [Sessions -> Times \cup {None}]
  /\ review \in [Sessions -> {"needs_trxid", "late_match", None}]
  /\ parse \in [Messages -> {"pending", "parsed"}]
  /\ match \in [Messages -> MatchStatus \cup {"none"}]
  /\ matchedTo \in [Messages -> Sessions \cup {None}]
  /\ smsTime \in [Messages -> Times]
  /\ payments \subseteq PaymentRows
  /\ tracked \in [Profiles -> Nat \cup {None}]
  /\ work \subseteq Messages
  /\ calls \subseteq CallRows

Init ==
  /\ now = 0
  /\ status = [s \in Sessions |-> "none"]
  /\ created = [s \in Sessions |-> 0]
  /\ senderClaim = [s \in Sessions |-> None]
  /\ trxClaim = [s \in Sessions |-> None]
  /\ claimAt = [s \in Sessions |-> None]
  /\ review = [s \in Sessions |-> None]
  /\ parse = [m \in Messages |-> "pending"]
  /\ match = [m \in Messages |-> "none"]
  /\ matchedTo = [m \in Messages |-> None]
  /\ smsTime = [m \in Messages |-> 0]
  /\ payments = {}
  /\ tracked = OpeningBalance
  /\ work = {}
  /\ calls = {}

Expires(s) == created[s] + SessionTTL

-----------------------------------------------------------------------------
(* Checkout sessions: the merchant API and the public checkout page.       *)

\* createSession: a new row, pending, with an expiry time.
CreateSession(s) ==
  /\ status[s] = "none"
  /\ status' = [status EXCEPT ![s] = "pending"]
  /\ created' = [created EXCEPT ![s] = now]
  /\ UNCHANGED <<now, claimVars, review, smsVars, payments, tracked, work, calls>>

Call(op, s, sender, trx) ==
  [op |-> op, session |-> s, sender |-> sender, trx |-> trx]

\* A handler has read session s and is about to act on what it saw.
Begin(call) ==
  /\ Cardinality(calls) < MaxCalls
  /\ calls' = calls \cup {call}
  /\ UNCHANGED <<now, sessionVars, smsVars, payments, tracked, work>>

\* cancelSession up to the check: only a pending session can be canceled.
CancelSessionRead(s) ==
  /\ status[s] = "pending"
  /\ Begin(Call("cancel", s, None, None))

\* getCheckout, or claimCheckout, sees a pending session past its expiry.
ExpireRead(s) ==
  /\ status[s] = "pending"
  /\ now > Expires(s)
  /\ Begin(Call("expire", s, None, None))

\* claimCheckout sees a pending session that has not expired.
ClaimCheckoutRead(s, sender, trx) ==
  /\ status[s] = "pending"
  /\ now <= Expires(s)
  /\ Begin(Call("claim", s, sender, trx))

\* UpdateSessionStatus: the write is by id alone, whatever the row holds now.
UpdateSessionStatus(call, new) ==
  /\ calls' = calls \ {call}
  /\ status' = [status EXCEPT ![call.session] = new]
  /\ UNCHANGED <<now, created, claimVars, review, smsVars, payments, tracked, work>>

CancelSessionWrite(call) ==
  /\ call.op = "cancel"
  /\ UpdateSessionStatus(call, "canceled")

ExpireWrite(call) ==
  /\ call.op = "expire"
  /\ UpdateSessionStatus(call, "expired")

\* UpdateSessionClaim: again by id alone.  An empty TrxID is stored as NULL.
UpdateSessionClaim(s, sender, trx) ==
  /\ senderClaim' = [senderClaim EXCEPT ![s] = sender]
  /\ trxClaim' = [trxClaim EXCEPT ![s] = trx]
  /\ claimAt' = [claimAt EXCEPT ![s] = now]
  /\ UNCHANGED <<now, status, created, review, smsVars, payments, tracked>>

ClaimCheckoutWrite(call) ==
  /\ call.op = "claim"
  /\ UpdateSessionClaim(call.session, call.sender, call.trx)
  /\ calls' = calls \ {call}
  /\ UNCHANGED work

-----------------------------------------------------------------------------
(* The engine's entry points.                                              *)

\* Ingest stores the raw row, then calls Process in a transaction of its own.
Ingest(m) ==
  /\ match[m] = "none"
  /\ Cardinality(work) < MaxWork
  /\ match' = [match EXCEPT ![m] = "unmatched"]
  /\ \E t \in 0 .. now : smsTime' = [smsTime EXCEPT ![m] = t]
  /\ work' = work \cup {m}
  /\ UNCHANGED <<now, sessionVars, parse, matchedTo, payments, tracked, calls>>

\* Process (or Match) called again for a row that is already stored.
Resubmit(m) ==
  /\ match[m] # "none"
  /\ m \notin work
  /\ Cardinality(work) < MaxWork
  /\ work' = work \cup {m}
  /\ UNCHANGED <<now, sessionVars, smsVars, payments, tracked, calls>>

\* ClaimSession, first statement: the claim is saved whatever the status is.
ClaimSession(s, sender, trx) ==
  /\ status[s] # "none"
  /\ Cardinality(calls) < MaxCalls
  /\ calls' = calls \cup {Call("reclaim", s, sender, trx)}
  /\ UpdateSessionClaim(s, sender, trx)
  /\ UNCHANGED work

\* GetHeldSMSForProfile, and the test of the loop in ClaimSession.
HeldFor(call) ==
  {m \in Messages :
     /\ match[m] = "held"
     /\ Content[m].profile = Order[call.session].profile
     /\ Content[m].sender = call.sender
     /\ Content[m].amount = Order[call.session].amount
     /\ Content[m].trx = call.trx}

\* ClaimSession, second statement: the held SMS it finds are processed again.
RetryHeld(call) ==
  /\ call.op = "reclaim"
  /\ work' = work \cup HeldFor(call)
  /\ calls' = calls \ {call}
  /\ UNCHANGED <<now, sessionVars, smsVars, payments, tracked>>

-----------------------------------------------------------------------------
(* Engine.Process, one action for each way its transaction can end.        *)

Finish(m) ==
  /\ m \in work
  /\ work' = work \ {m}

SameTrx(m, o) ==
  /\ Content[o].provider = Content[m].provider
  /\ Content[o].trx = Content[m].trx

\* The other rows the unique index on parsed rows sees with m's TrxID.
ParsedTwins(m) == {o \in Messages \ {m} : parse[o] = "parsed" /\ SameTrx(m, o)}

AlreadyMatched(m) == match[m] = "matched" /\ matchedTo[m] # None

\* A settled SMS is left alone.
ProcessMatched(m) ==
  /\ Finish(m)
  /\ AlreadyMatched(m)
  /\ UNCHANGED <<now, sessionVars, smsVars, payments, tracked, calls>>

\* FindDuplicateTrxID found another parsed row: this one stays unparsed.
ProcessDuplicate(m) ==
  /\ Finish(m)
  /\ ~AlreadyMatched(m)
  /\ Content[m].trx # EmptyTrx
  /\ ParsedTwins(m) # {}
  /\ match' = [match EXCEPT ![m] = "duplicate"]
  /\ matchedTo' = [matchedTo EXCEPT ![m] = None]
  /\ UNCHANGED <<now, sessionVars, parse, smsTime, payments, tracked, calls>>

\* No duplicate check is made for an empty TrxID, so UpdateSMSParsed hits the
\* unique index: the transaction is rolled back and the error returned.
ProcessRejected(m) ==
  /\ Finish(m)
  /\ ~AlreadyMatched(m)
  /\ Content[m].trx = EmptyTrx
  /\ ParsedTwins(m) # {}
  /\ UNCHANGED <<now, sessionVars, smsVars, payments, tracked, calls>>

\* Mutant of Parse: there is no unique index on the parsed rows.
ParseWithoutIndex(m) ==
  /\ Finish(m)
  /\ ~AlreadyMatched(m)
  /\ parse' = [parse EXCEPT ![m] = "parsed"]
  /\ UNCHANGED <<now, created, claimVars, smsTime, calls>>

\* The transaction gets past UpdateSMSParsed.
Parse(m) ==
  /\ Finish(m)
  /\ ~AlreadyMatched(m)
  /\ ParsedTwins(m) = {}
  /\ parse' = [parse EXCEPT ![m] = "parsed"]
  /\ UNCHANGED <<now, created, claimVars, smsTime, calls>>

\* UpdateSMSMatchStatus.
Classify(m, new, to) ==
  /\ match' = [match EXCEPT ![m] = new]
  /\ matchedTo' = [matchedTo EXCEPT ![m] = to]

\* A row that was stored without a payment profile matches nothing.
ProcessNoProfile(m) ==
  /\ Content[m].profile = None
  /\ Parse(m)
  /\ Classify(m, "unmatched", None)
  /\ UNCHANGED <<status, review, payments, tracked>>

BalanceChecked(m) ==
  /\ Content[m].balance # None
  /\ BalanceVerification[Content[m].profile]

\* Mutant of BalanceFits: any balance that is not below the tracked one.
BalanceGrows(m) ==
  LET p == Content[m].profile IN
  /\ tracked[p] # None
  /\ tracked[p] <= Content[m].balance

\* tracked_balance + amount is the balance the SMS reports.
BalanceFits(m) ==
  LET p == Content[m].profile IN
  /\ tracked[p] # None
  /\ tracked[p] + Content[m].amount = Content[m].balance

\* verifyBalance fails: the SMS is suspect, and nothing else happens.
ProcessSuspect(m) ==
  /\ Content[m].profile # None
  /\ BalanceChecked(m)
  /\ ~BalanceFits(m)
  /\ Parse(m)
  /\ Classify(m, "suspect", None)
  /\ UNCHANGED <<status, review, payments, tracked>>

\* verifyBalance succeeds: the tracked balance moves in the same transaction,
\* whatever becomes of the SMS below.
BalanceAccepted(m) ==
  /\ Content[m].profile # None
  /\ BalanceChecked(m) => BalanceFits(m)
  /\ Parse(m)
  /\ tracked' = IF BalanceChecked(m)
                THEN [tracked EXCEPT ![Content[m].profile] = Content[m].balance]
                ELSE tracked

\* Mutant of FindMatchCandidates: the query forgets the status.
CandidatesOfAnyStatus(m) ==
  {s \in Sessions :
     /\ status[s] # "none"
     /\ Order[s].profile = Content[m].profile
     /\ Order[s].amount >= Content[m].amount - AmountTolerance
     /\ Order[s].amount <= Content[m].amount + AmountTolerance
     /\ senderClaim[s] = Content[m].sender}

FindMatchCandidates(m) ==
  {s \in Sessions :
     /\ status[s] = "pending"
     /\ Order[s].profile = Content[m].profile
     /\ Order[s].amount >= Content[m].amount - AmountTolerance
     /\ Order[s].amount <= Content[m].amount + AmountTolerance
     /\ senderClaim[s] = Content[m].sender}

\* Mutant of FindExpiredMatchCandidates: sessions flipped to expired as well.
ExpiredByStatus(m) ==
  {s \in Sessions :
     /\ status[s] \in {"pending", "expired"}
     /\ Order[s].profile = Content[m].profile
     /\ senderClaim[s] = Content[m].sender
     /\ Expires(s) < now}

FindExpiredMatchCandidates(m) ==
  {s \in FindMatchCandidates(m) : Expires(s) < now /\ Expires(s) > now - LateGrace}

Candidates(m) == FindMatchCandidates(m) \cup FindExpiredMatchCandidates(m)

Late(m, s) == Expires(s) < smsTime[m]

\* Priority 1: the candidates whose claimed TrxID is the one of the SMS, in
\* the claim's time window.
Claimants(m) ==
  {s \in Candidates(m) :
     /\ trxClaim[s] = Content[m].trx
     /\ claimAt[s] # None
     /\ smsTime[m] >= claimAt[s] - ClaimSlack
     /\ smsTime[m] <= claimAt[s] + ClaimWindow}

\* Candidates are read ordered by created_at.
First(S) == {s \in S : \A t \in S : created[s] <= created[t]}

\* Mutant of Unclaimed: a session that had expired is not left out.
UnclaimedAtAnyTime(m) ==
  {s \in Candidates(m) : trxClaim[s] = None /\ created[s] <= smsTime[m]}

\* Priority 2: candidates without a TrxID, alive when the SMS was sent.
Unclaimed(m) ==
  {s \in Candidates(m) :
     trxClaim[s] = None /\ ~Late(m, s) /\ created[s] <= smsTime[m]}

\* Priority 3: candidates that expired less than LateGrace before the SMS.
LateCandidates(m) ==
  {s \in Candidates(m) : Late(m, s) /\ smsTime[m] <= Expires(s) + LateGrace}

\* verify: InsertPayment does nothing when (session, trx_id) is already there.
InsertPayment(m, s, source) ==
  IF \E p \in payments : p.session = s /\ p.trx = Content[m].trx
  THEN payments
  ELSE payments \cup {[session |-> s, sms |-> m, trx |-> Content[m].trx,
                       source |-> source]}

\* Mutant of Verify: the review flag is not cleared.
VerifyInReview(m, s, source) ==
  /\ payments' = InsertPayment(m, s, source)
  /\ status' = [status EXCEPT ![s] = "succeeded"]
  /\ Classify(m, "matched", s)
  /\ UNCHANGED review

Verify(m, s, source) ==
  /\ payments' = InsertPayment(m, s, source)
  /\ status' = [status EXCEPT ![s] = "succeeded"]
  /\ review' = [review EXCEPT ![s] = None]
  /\ Classify(m, "matched", s)

HoldLate(m, s) ==
  /\ Classify(m, "unmatched", None)
  /\ review' = [review EXCEPT ![s] = "late_match"]
  /\ UNCHANGED <<status, payments>>

\* The settings are read again in each transaction.
VerifyLate(m, s) ==
  \/ TRUE \in AutoAcceptLateMatch /\ Verify(m, s, "late_auto")
  \/ FALSE \in AutoAcceptLateMatch /\ HoldLate(m, s)

ProcessClaimed(m) ==
  /\ BalanceAccepted(m)
  /\ \E s \in First(Claimants(m)) :
       IF Late(m, s) THEN VerifyLate(m, s) ELSE Verify(m, s, "trxid_claim")

ProcessUnique(m) ==
  /\ BalanceAccepted(m)
  /\ Claimants(m) = {}
  /\ \E s \in Sessions : Unclaimed(m) = {s} /\ Verify(m, s, "auto")

Ambiguous(m) == Claimants(m) = {} /\ \E s, t \in Unclaimed(m) : s # t

ProcessHeld(m) ==
  /\ BalanceAccepted(m)
  /\ Ambiguous(m)
  /\ Classify(m, "held", None)
  /\ review' = [s \in Sessions |->
                  IF s \in Unclaimed(m) THEN "needs_trxid" ELSE review[s]]
  /\ UNCHANGED <<status, payments>>

ProcessLate(m) ==
  /\ BalanceAccepted(m)
  /\ Claimants(m) = {}
  /\ Unclaimed(m) = {}
  /\ \E s \in Sessions : LateCandidates(m) = {s} /\ VerifyLate(m, s)

ProcessUnmatched(m) ==
  /\ BalanceAccepted(m)
  /\ Claimants(m) = {}
  /\ Unclaimed(m) = {}
  /\ ~\E s \in Sessions : LateCandidates(m) = {s}
  /\ Classify(m, "unmatched", None)
  /\ UNCHANGED <<status, review, payments>>

Process(m) ==
  \/ ProcessMatched(m)
  \/ ProcessDuplicate(m)
  \/ ProcessRejected(m)
  \/ ProcessNoProfile(m)
  \/ ProcessSuspect(m)
  \/ ProcessClaimed(m)
  \/ ProcessUnique(m)
  \/ ProcessHeld(m)
  \/ ProcessLate(m)
  \/ ProcessUnmatched(m)

-----------------------------------------------------------------------------
\* The server stops: transactions and handlers in flight are lost.
Crash ==
  /\ work # {} \/ calls # {}
  /\ work' = {}
  /\ calls' = {}
  /\ UNCHANGED <<now, sessionVars, smsVars, payments, tracked>>

Tick ==
  /\ now < MaxTime
  /\ now' = now + 1
  /\ UNCHANGED <<sessionVars, smsVars, payments, tracked, work, calls>>

SessionStep(s) ==
  \/ CreateSession(s)
  \/ CancelSessionRead(s)
  \/ ExpireRead(s)
  \/ \E sender \in Senders :
       \/ \E trx \in TrxIds \cup {None} : ClaimCheckoutRead(s, sender, trx)
       \/ \E trx \in TrxIds : ClaimSession(s, sender, trx)

CallStep(call) ==
  \/ CancelSessionWrite(call)
  \/ ExpireWrite(call)
  \/ ClaimCheckoutWrite(call)
  \/ RetryHeld(call)

MessageStep(m) == Ingest(m) \/ Resubmit(m) \/ Process(m)

Next ==
  \/ \E s \in Sessions : SessionStep(s)
  \/ \E call \in calls : CallStep(call)
  \/ \E m \in Messages : MessageStep(m)
  \/ Crash
  \/ Tick

Spec == Init /\ [][Next]_vars

-----------------------------------------------------------------------------
(* Properties.                                                             *)

Paid(s) == \E p \in payments : p.session = s

\* The unique index of migration 000009: whatever the order of ingests,
\* duplicates and retries, one parsed row per provider and TrxID; and a row
\* set aside as a duplicate has that parsed row to be a duplicate of.
OneParsedRowPerTrx ==
  \A m \in Messages :
    /\ parse[m] = "parsed" => ParsedTwins(m) = {}
    /\ match[m] = "duplicate" => ParsedTwins(m) # {}

\* No money is counted twice: a session has at most one payment, an SMS pays
\* for at most one session, and so does a TrxID of one provider.
SettledOnce ==
  \A p, q \in payments :
    (p.session = q.session \/ p.sms = q.sms \/ SameTrx(p.sms, q.sms)) => p = q

\* The three tables agree: an SMS is matched to the very session it paid for,
\* a session shown as succeeded has its payment, and a session with a payment
\* is neither open for another one nor flagged for review.
TablesAgree ==
  /\ \A p \in payments : match[p.sms] = "matched" /\ matchedTo[p.sms] = p.session
  /\ \A m \in Messages : match[m] = "matched" =>
       \E p \in payments : p.sms = m /\ p.session = matchedTo[m]
  /\ \A s \in Sessions : status[s] = "succeeded" => Paid(s)
  /\ \A s \in Sessions : Paid(s) =>
       status[s] \notin {"none", "pending"} /\ review[s] = None

\* A payment made after its session expired is never credited as if it were in
\* time, by whichever of the three priorities: it is recorded as late_auto, no
\* other payment is, and no transaction does so unless it has read that the
\* merchant accepts late matches.
PaidInTime ==
  \A p \in payments :
    /\ Late(p.sms, p.session) <=> p.source = "late_auto"
    /\ p.source = "late_auto" => TRUE \in AutoAcceptLateMatch

\* A payment is only ever made from a row that is parsed.
PaidRowsParsed == \A p \in payments : parse[p.sms] = "parsed"

\* A handler call is about a session that exists.
CallsHaveSession == \A call \in calls : status[call.session] # "none"

\* The inductive invariant behind SettledOnce, TablesAgree and the refinement.
IInv ==
  /\ TypeOK
  /\ CallsHaveSession
  /\ PaidRowsParsed
  /\ OneParsedRowPerTrx
  /\ SettledOnce
  /\ TablesAgree

\* Balance verification credits no money twice: each credited SMS stands for the
\* step from balance - amount to balance, these steps lie between the opening
\* and the tracked balance of their profile, and no two of them overlap, in
\* whatever order the SMS were processed, held, found suspect and retried.
Checked == {p \in payments : BalanceChecked(p.sms)}

BalancesAccounted ==
  \A p \in Checked :
    LET profile == Content[p.sms].profile
        b == Content[p.sms].balance
    IN  /\ OpeningBalance[profile] # None /\ tracked[profile] # None
        /\ OpeningBalance[profile] + Content[p.sms].amount <= b
        /\ b <= tracked[profile]
        /\ \A q \in Checked \ {p} :
             Content[q.sms].profile = profile =>
               \/ b + Content[q.sms].amount <= Content[q.sms].balance
               \/ Content[q.sms].balance + Content[p.sms].amount <= b

\* Matching implements Settlement: a payment is a settlement, a pending
\* session is open, and any other existing one is closed.
Phase(s) ==
  IF status[s] = "none" THEN "none"
  ELSE IF status[s] = "pending" THEN "open" ELSE "closed"

Abstract == INSTANCE Settlement WITH
  phase <- [s \in Sessions |-> Phase(s)],
  settled <- {<<p.sms, p.session>> : p \in payments}

ImplementsSettlement == Abstract!Spec

-----------------------------------------------------------------------------
(* What comments and messages of the repository say, and the code does not *)
(* do: each is refuted by a run.                                           *)

\* sessions.go:252, "only pending sessions can be canceled", and openapi.yaml:55,
\* a pending session past expires_at is flipped to expired.
OnlyPendingIsGivenUp ==
  [][\A s \in Sessions :
       (status'[s] # status[s] /\ status'[s] \in {"canceled", "expired"})
         => status[s] = "pending"]_vars

\* An open session whose customer has claimed the TrxID of m, from its sender.
ClaimedBy(m, s) ==
  /\ s \in FindMatchCandidates(m)
  /\ Order[s].amount = Content[m].amount
  /\ trxClaim[s] = Content[m].trx
  /\ now <= Expires(s)

\* engine.go:325, a claim retries the held SMS: this is the late "I have
\* paid" path, so processing a held SMS again credits it to its claimant.
HeldRetryCredits ==
  [][\A m \in Messages :
       /\ Process(m)
       /\ match[m] = "held"
       /\ \E s \in Sessions : ClaimedBy(m, s)
       => \E s \in Sessions : ClaimedBy(m, s) /\ matchedTo'[m] = s]_vars
=============================================================================
