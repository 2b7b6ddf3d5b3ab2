# RexiO Pay: specifications and proofs

RexiO Pay turns a merchant's phone into a payment gateway. A customer sends money
with bKash or Nagad to the merchant's number, the phone forwards the confirmation SMS
to a backend, and the backend matches the SMS with an open checkout session, marks the
session paid and notifies the merchant's server with a signed webhook.

This directory holds TLA+ models of that path, from the SMS on the phone to the webhook,
the TLC runs that check them on small instances, and proofs that TLAPS checks for every
instance. `PROJECT.json` lists each definition with the source lines it stands for
(`map`), the runs, the mutants each property is tested against, the places where the code
is hard to test (`hazards`), and the disagreements found (`findings`).

    tlc -workers 4 -config MCMatching_claims.cfg MCMatching
    tlapm Matching_proofs.tla

## The system

Paths are relative to `apps/backend/internal` unless they begin with `apps`.

| Component | State it keeps | Operations | What makes it correct |
|---|---|---|---|
| Matching engine, `matching/engine.go` | `sms_messages`, `payments`, `payment_profiles.tracked_balance`, status and review flag of `checkout_sessions` | `Ingest`, `Process`, `ClaimSession` | money is counted once; the tables agree; a late payment is credited only if the merchant wants it; no part of a reported balance is credited twice |
| Checkout and sessions API, `api/merchant/checkout.go`, `sessions.go` | `checkout_sessions` | create, get (which expires), claim, cancel | a closed session stays closed |
| Idempotency keys, `idempotency/` | `idempotency_keys` | `Check`, `Store`, hourly `Cleanup` | a retry creates nothing and is answered like the first request |
| Plan limits, `billing/limits.go` | `merchants.session_count_current_period` | `Check`, count | the limit holds |
| Webhooks, `webhooks/` | `webhook_deliveries`, `webhook_endpoints` | `Enqueue`, dispatcher, `Redeliver` | every event is delivered or given up, on schedule |
| SMS endpoint, `devices/handlers.go` | `sms_messages` | `SMSHandler` | what is acknowledged is stored |
| SMS upload, `apps/android/.../data/local`, `sms`, `work`, `service` | outbox (Room), scan cursor and pause (DataStore), work queue (WorkManager) | receive, scan, upload, heartbeat | no SMS is lost; how often one is queued and stored is bounded |
| Devices, `devices/`, `api/merchant/devices` | `devices` | create, pair, sign, heartbeat, monitor, disable, repair | a disabled device stays disabled, a token pairs one phone, a silent phone is reported once |
| Verification of numbers, `otp/`, `api/otp` | `mfs_otp_verifications` | `Init`, `GetStatus`, `TryMatch`, expiry | a request that is verified has created its profile |
| Payment profiles, `api/merchant/paymentprofiles` | `payment_profiles` | create, update | a merchant has one profile for a number; the limit holds |
| SMS parser, `sms/` | none | `Parse` | what is parsed is what the SMS says |
| Links, payments, settings, keys, domains, branding, members, `api/merchant/*` | one row each | CRUD | ownership by merchant |
| Operator's API, `api/admin` | one row each | lists, statistics, single-row updates | - |
| Middleware, `middleware/` | rate windows in memory | API keys, device signatures, rate limits | - |
| Server, `apps/backend/cmd/server` | worker goroutines | start, stop, restart of workers | workers run again after an error |
| Web, `apps/web` | page state | polls `getCheckout`, posts claims | shows what the backend says |

How they interact:

- The phone's SMS reach `SmsIngestService` by two broadcast receivers and by scans of the
  inbox, which overlap by design. Rows of the outbox go to `SMSHandler` in batches.
- The engine is written to be called for each stored SMS (`Ingest`, `Process`) and for
  each claim (`ClaimSession`, which processes held SMS again). The server at this commit
  mounts `SMSHandler` but does not yet call the engine after it; the models take any
  sequence of calls of the engine's exported functions. `Redeliver` and `otp.TryMatch` are
  likewise exported functions that nothing calls yet.
- The engine and the HTTP handlers write the same `checkout_sessions` rows. Only the
  engine uses a transaction; the handlers read and write in separate statements.
- The engine calls `webhooks.Enqueue` after it has committed; the dispatcher goroutine
  polls the table.
- Background goroutines (`main.go`, `startWorkers`): dispatcher, offline monitor, expiry of
  verifications, cleanup of idempotency keys. They communicate with the rest by the database only.

What is hard: handlers that act on stale reads; transactions at READ COMMITTED that
overlap; retries of an SMS, a request, a batch or a delivery that was already handled; a
process (server or app) that stops between two statements; limits and windows at their
ends. `hazards` in `PROJECT.json` lists these places line by line.

## The modules

| Module | Lines of code it is about | Abstraction level |
|---|---|---|
| `Settlement` | none: what the engine promises | abstract specification |
| `Matching` | engine, and the handlers that change sessions | one step is one transaction or autocommitted statement |
| `Commits` | none: what the database shows of `Process` | abstract specification |
| `MatchingTx` | `Process` | one step is one SQL statement, with row locks and unique indexes |
| `SessionCreation` | `createSession`, idempotency, session limit | one step is one SQL statement |
| `Delivery` | none: what a merchant sees of webhooks | abstract specification |
| `Webhooks` | `Enqueue`, dispatcher, retry schedule | one step is one statement or HTTP request |
| `SmsUpload` | ingest, outbox, scan, upload worker, `SMSHandler` | one step is one DAO call, request or statement |
| `Devices` | pairing, signed requests, strikes, offline monitor, dashboard | one step is one SQL statement and what is decided from it |
| `Onboarding` | `otp/otp.go`, creation of profiles | one step is one SQL statement and what is decided from it |
| `*_proofs` | proofs about the module of that name | |
| `MatchingTx_refines` | the proof that `MatchingTx` implements `Commits` | |
| `MC*` | instances for TLC | |

### Settlement and Matching

`Settlement` has sessions that are opened and closed once, either given up or settled by
one SMS. `Matching` implements it (`ImplementsSettlement`): a payment row is a settlement,
`pending` is open, and every other status is closed.

`Matching` keeps the rows of `checkout_sessions` (`status`, `created`, the claim, the
review reason), `sms_messages` (`parse`, `match`, `matchedTo`, `smsTime`), `payments` and
`tracked`. `Process(m)` is the whole of `Engine.Process`, one disjunct for each way it can
end: already matched, duplicate, rejected by the unique index, no profile, suspect, paid
by a claim, paid as the only unclaimed session, held, late, unmatched. The candidate
queries (`FindMatchCandidates`, `FindExpiredMatchCandidates`) and the three priorities are
operators of their own. `getCheckout`, `claimCheckout` and `cancelSession` take two steps;
`calls` holds what they have read, so that a payment can come in between. `Crash` ends all
calls and whatever the engine was processing. Time is a clock with
the code's windows as constants. The SMS and the orders are constants, as nothing changes
them; `AutoAcceptLateMatch` is the set of values that the setting takes, since each transaction
reads it again. `tracked` moves with every accepted SMS, whether or not it is credited.

### Commits and MatchingTx

In `Matching` a transaction is one step, which PostgreSQL does not promise. `MatchingTx`
runs any number of transactions of `Process` side by side. `db` is what is committed and
`writes[c]` what transaction c has written and so has locked: a read sees `db` with the
transaction's own writes over it, a write waits while another holds the row, and an
insertion waits for an uncommitted row of the same unique key and then sees whether it was
committed. An abort (`Abort`) may come at any statement and drops `writes[c]`. Handlers
that end a session (`GiveUp`) are there as steps of their own. Time is left out: all
sessions are alive and claims are made. The two queries for candidates (`matching/engine.go:242`,
`:248`) are therefore one read: that a session is claimed or expires between them, and so is
missing or out of order among the candidates, is not in the model.

`Commits` has the same committed rows and nothing else: each of its steps is the whole outcome of
one call, right for the rows as they are when it is committed. `Settle` writes the payment,
the session and the SMS together, for the oldest session that claims the TrxID or the only one that
claims none; `Hold` flags several unclaimed ones; `Leave` finds none; `Duplicate` sees another parsed
SMS of the TrxID. `MatchingTx` implements it with the rows of `db` as they are, so a statement that
commits nothing is a stutter. `Commits` grants an outcome to have missed two things: that a session
it writes was closed since the call found it pending (which is what `v_double_claim` exhibits),
and that the tracked balance moved since the call compared it.

### SessionCreation

Each element of `Calls` is one execution of `createSession`: check the key, check the
limit, create, count, store the response. Other calls run between its statements, and
each may fail (`Fail`). A retry is another call with the same request. `before[c]` records
which calls had been answered when c began, which is what the promises about retries
speak of. Keys grow old (`Expire`) and are deleted (`Cleanup`).

### Delivery and Webhooks

`CommitPayment`, `ListEndpoints` and `CreateDelivery` are `verify`'s commit and `Enqueue`.
The dispatcher fetches a batch, posts each row and records the answer; between any two of
these the server may crash, the endpoint may be deleted or a delivery reset. Times are
relative: `wait` is `next_retry_at - now()`, down to `-MaxLag`. `sent`, `resets` and `idle`
are history.

`Delivery` is what is left when the queue, the batches, the schedule and the clock are taken away:
a delivery is owed once for a committed payment, requested only while it is pending and one request
at a time, delivered only by an accepted request, given up only after `Limit` requests, and pending
again when the merchant asks. `Webhooks` implements it (`ImplementsDelivery`) with `Limit` as the
length of the schedule and one (`MaxSends`), the answer as that of the request in `inflight`, and the
requests as `sent`.

### SmsUpload

SMS are numbers in the order of their inbox dates. An ingest counts duplicates, inserts
and schedules in three steps; `by` says which receiver or scan called it. `scan[w]` is
what a run of `InboxSyncWorker` has read; the cursor is written from it at the end.
`work` is WorkManager's unique work with its attempts; `sending` and `waiting` are the
worker's request; `serving` are the requests the backend has not finished, which go on
after the worker has stopped waiting for them. `copies` counts the rows of
`sms_messages`. `queued[m][c]` remembers how often each receiver or scan has inserted an SMS, and
`by` in a row which of them did; the code keeps neither, and no guard reads them. `Kill` ends what
the process was doing and keeps what is on disk; `ScanStopped` ends one scan, as
`ExistingWorkPolicy.REPLACE` and a lost network do. Both count as faults.
The stamp of the operator and the inbox date differ for the SMS in `Late` by more than
the dedupe window. Broadcasts may come late or never. Sender matching, unpairing and a
new pairing are not in this module.

### Devices

One merchant's rows of `devices`: `status`, `secret`, `strikes`, `token`, `beat` (when a
heartbeat last came). Four handlers and the monitor write them, each by id, after reading them
in an earlier statement:

- `CheckLimit`, `CreateDevice`, `Disable`, `Repair` are the dashboard's handlers; `creating` counts
  the calls that have passed the limit check.
- `GetDeviceByPairingToken`, `StorePairedDevice`, `UpdateDeviceMetadata`, `Answer` are one call of
  `PairHandler`, in stage `pair[c]`. The secret is named after the call that generates it.
- `GetDevice`, `IncrFailedSigCount`, `StrikeOut`, `ResetFailedSigCount`, `UpdateHeartbeat`,
  `OtherRequest` are the middleware and the handler behind it; a request may be signed with any
  secret that was ever answered, and the middleware refuses a disabled device only by what
  it has read.
- `ListStaleDevices`, `UpdateDeviceStatus` are a pass of `OfflineMonitor`; `listed` is what it has
  read and not yet written. The status and the alert (`monitor.go:55`, `:60`) are written in one
  step, so a stop between them, which loses the alert, is not in the model; `AlertsAccounted` bounds
  the alerts from above and would not see it.

`Expire` ends a token, `Silence` lets a heartbeat grow three minutes old, and the faults end a
handler or a pass of the monitor wherever it is.

### Onboarding

The requests to verify a number (`status`, `request`, `lapsed`) and the profiles, which are
keyed by merchant and number as the table's unique constraint has it. `GetPendingOTPByNumber`,
`CreateVerified` and `MarkOTPVerified` are the statements of `TryMatch`; a call that has read a
request may find it expired, or its number taken by another merchant's request, when it
goes on. `CheckLimit` and `Create` are the dashboard's handler, which asks for no proof that the
number is the merchant's. `GetStatus(v)` is what a merchant would be told now: it writes
nothing, so it is an operator and no action.

## The runs

Every property of a passing run is tested against a mutant: a plausible bug in a mapped
definition, with which TLC finds the property violated.

| Run | Instance | What it shows |
|---|---|---|
| `claims` | 2 sessions for one amount, 2 payments that fit both, late matches accepted or not from one transaction to the next, one handler call at a time beside the engine | `IInv`, the inductive invariant of the proofs; `SettledOnce`, `PaidInTime`; `Matching` implements `Settlement` |
| `balances` | 2 sessions; 4 SMS of one profile: two that compete for the step above its opening balance of 10 (to 16 and to 15), one that goes on from 16 to 21, a copy of the first without a profile; two of them have no TrxID | `BalancesAccounted`, `TablesAgree`, `OneParsedRowPerTrx` |
| `overlap` | 3 transactions, 3 SMS (two with one TrxID), 3 sessions, one claimed | `IInv` with `CommittedAgree`, `OneParsedRowPerTrx`, `NoWaitCycle`; `MatchingTx` implements `Commits` |
| `retries` | 4 calls, 2 merchants, 1 key, 2 bodies (4 requests of them, one without the key), limit 2, one fault, one expiry | `IInv`, `AnswersOwnSession`, `RetryCreatesNothing`, `ReplaysAgree`, `LimitOnAnswered` |
| `deliveries` | 1 event, 2 endpoints, batches of 1, delays 1 and 2, one fault, one reset | `SendsBounded`, `Backoff`, that every delivery ends (`Settles`) and that the event of a payment is queued unless a statement failed (`EventQueued`); `Webhooks` implements `Delivery` |
| `upload` | 2 SMS, one of them late, a receiver and a scan, batches of 1, one fault, one attempt | `NothingDropped`, `CursorSound`, how often each caller queues an SMS and the backend stores it (`CopiesAccounted`), and that every SMS arrives (`Uploaded`) |
| `devices` | 2 devices in a plan for one, 2 pairing calls, 2 signed requests, 2 tokens, 2 strikes, one overlapping check, one fault | `IInv`, `TokenSpent`, `LimitAccounted`, `StruckOut`, `AlertsAccounted`, `DisabledHolds` |
| `silence` | 2 devices whose phones both talk, no limit, 2 pairing calls, 1 request, one fault | that no silent device stays active (`SilentGoesOffline`) |
| `onboarding` | 2 merchants who want one number, one of them a second one of another type; 2 requests, 2 SMS, a limit of 1, one overlapping check, one fault | `IInv`, `VerifiedHasProfile`, `ProfileAccounted`, `LimitAccounted`, `ToldOnce`, and that every request ends (`Concluded`) |

Runs that refute what a comment, a message or a document of the repository says; each has
an entry under `findings`:

| Run | Refuted | Where it is said | What the code does |
|---|---|---|---|
| `v_give_up` | `OnlyPendingIsGivenUp` | `sessions.go:252` | a session paid between a handler's read and write becomes canceled or expired |
| `v_held_balance` | `HeldRetryCredits` | `engine.go:325` | the first pass over a held SMS has moved the balance, so the retry finds a mismatch |
| `v_double_claim` | `SettledOnce` of `MatchingTx` | `README.md:5` | two calls for one held SMS, overlapping, pay two sessions with it |

`SettledOnce` holds in `Matching` and fails in `MatchingTx`: with transactions that do not
overlap, money is counted once, and what breaks it is their overlap on one SMS.

Other places where the code does less than its text says, which the models show as the
conditions of their properties rather than in runs of their own:

- A stop between the commit of a payment and `Enqueue` loses the event (`README.md:5`: a
  verified payment fires a webhook). `EventQueued` therefore has `faults > 0` as a way out.
- An idempotency key that another merchant has used is not stored, so a retry creates another
  session (`packages/openapi/openapi.yaml:110`); `RetryCreatesNothing` asks for a key of one merchant.
- An SMS can be queued twice (`OutboxRepository.kt:11`): two ingests count before either
  inserts, the two paths stamp it differently, and a row that was acknowledged is no duplicate any
  more. `CopiesAccounted` says how often: a receiver queues an SMS once; a scan at most once for each
  scan there is and each fault, since a scan that began before the SMS came may set the cursor back,
  and one that is stopped before it writes the cursor is repeated. Two rows of one caller never
  meet in the outbox. In `upload` an SMS is queued up to
  three times, once by the receiver and twice by the scan.
- A batch that is sent again is stored again. `devices/handlers.go:261-262` says that clients "can safely
  retry and receive an error rather than duplicate raw records"; but a row has a fresh id and no
  TrxID yet, so nothing makes its insertion fail, and the worker's own comment admits that a batch
  "can be inserted twice server-side" (`SmsUploadWorker.kt:31-33`). The factor `1 + faults` of
  `CopiesAccounted` is this: each row once more for every request that was stored, in part or
  wholly, and not acknowledged. Copies bear one TrxID; what becomes of them is what
  `OneParsedRowPerTrx` is about.
- A delivery that is reset while its last request is on its way is given up when that request
  fails, with the attempts read before the reset, and so is not sent again (`webhooks/webhooks.go:230`).
  `GiveUp` of `Delivery` therefore counts the requests before a reset too.
- A delivery is given up after its sixth failed request; `webhooks/retry.go:6` speaks of the fifth.
- `verifyBalance` compares with the balance that `Process` read, and `UpdateTrackedBalance` writes by id
  (`matching/engine.go:382`, `:389`), so two transactions that overlap may both compare with one base.
  In `Matching` transactions do not overlap, and `MatchingTx` keeps no balances: `BalancesAccounted` is
  about the order of transactions, their retries and repetitions, not about their overlap.
- A profile whose balance was never tracked makes every SMS that reports one suspect, as
  nothing sets the first balance (`matching/engine.go:382`).
- Two calls of `PairHandler` that overlap are both answered with a secret, of which the last
  one stored works (`devices/pairing.go:72`); a device that has paired and never sent a
  heartbeat is never listed by the monitor and stays active.
- A request to verify a number for which the merchant has a profile, or whose `TryMatch` failed
  between its two statements, is never verified, and expires (`otp/otp.go:226`).

### Bounds

- Two sessions and two payments are enough for the decisions of `Process`, which
  distinguish none, one and several candidates; a third SMS or session only repeats them.
  In `claims`, `MaxTime = 1` with `SessionTTL = 0` puts SMS before, at and after the expiry of a
  session; windows of 1 have an inside and an outside. `balances` leaves time out (`MaxTime = 0`) for
  more SMS: both sessions can be paid with SMS whose balances are verified, so that two credited
  steps of the balance are there to be compared.
  `MaxWork` bounds the calls of `Process` that are outstanding: 2 in `claims`, and 1 in
  `balances`, where a call is one step, so all orders of calls still occur.
- `overlap` has three calls so that a circle of three could form, and two SMS of one TrxID so
  that the index is contended.
- `retries`: two calls race on a key and two more replay what each of them stored, which is
  the least with which `ReplaysAgree` says something; one expiry and one fault suffice to
  break each guard, as the mutants show.
- `deliveries`: two endpoints with batches of one compete; two delays tell the schedule's
  order and its end; one fault can hit each statement.
- `upload`: `MaxRunAttempts = 0` lets one fault exhaust the attempts; `BatchLimit = 1` leaves
  a second batch. Scans that overlap are covered by the proofs of `CursorSound` and
  `CopiesAccounted`, which hold for any finite number of receivers and scans.

- `devices`: two of everything that races, and one token for each device. `StrikeLimit = 2` stands
  for three: one strike that is not the last and one that is. `IdLeft` lets a call of `Create`
  pass the limit only while an id is left, since a bounded set of ids must not look like a
  refusal. `silence` trades the limit and a request for a second phone that talks.
- `onboarding`: two requests for one number from two merchants, or two of one merchant, and
  two SMS for them; a request of another type lets an SMS name the wrong one. `NumberLeft` is
  to `Create` what `IdLeft` is in `Devices`.

`CHECK_DEADLOCK FALSE` stands where the system may stop: every call of `SessionCreation` and
`MatchingTx` ends; in `Webhooks` and `SmsUpload` all is delivered at last; in `Devices` and
`Onboarding` the bounded tokens, requests and faults are used up. Waits for locks
in `MatchingTx` that never end are what `NoWaitCycle` is about. Symmetry is used for sessions
(`claims`, `v_*`), calls, and the requests and pairing calls of `devices`, with safety
properties only.

### Fairness

- `Webhooks`: the dispatcher takes its next step, as `main.go` starts its goroutine again
  after an error (lines 203-216) and it polls every minute; a call of `Enqueue` takes its next
  step; time passes. No fairness for payments, faults, resets or the endpoint's answers.
- `SmsUpload`: the heartbeat loop ticks every minute in a foreground service that Android
  restarts, WorkManager runs scheduled work and the periodic scan, statements and requests
  that were begun go on, and cooldowns pass. No fairness for broadcasts, which may never be
  delivered, and none for faults. `Uploaded` therefore rests on the scan, not on the
  receivers; the number of faults is bounded, as a phone that is offline for ever
  uploads nothing.

- `Devices`: the monitor's next step, as its loop runs every minute and starts again after an
  error. No fairness for anything else: phones need not talk, nor the merchant act.
- `Onboarding`: thirty minutes pass, and the worker looks again every minute; a pass that
  fails is followed by another. SMS need not come, and a call of `TryMatch` need not go on.

## The proofs

All theorems are of the form `Spec => []P`, except the refinements (`ImplementsSettlement`,
`ImplementsCommits`, `ImplementsDelivery`) and the action properties (`DisabledHolds`, `ToldOnce`,
`Backoff`), and hold for all values of the constants that satisfy the modules' assumptions: types of
the constants, that `None` is not one of the values it stands beside, that the sessions of
`MatchingTx` and the receivers and scans of `SmsUpload` are finitely many, and that the delays of `Webhooks` never shrink, as those of
`retry.go:7` do not. The bounds (`MaxFaults`, `MaxTime`, ...) are arbitrary numbers.

- `Matching_proofs`. `SettledOnce` is not inductive: that an SMS pays once rests on its
  being matched once it has paid, that a session does on its no longer being pending, and that
  a TrxID does on paid rows being parsed and parsed rows being unique. `IInv` is the
  conjunction of these, `TablesAgree` among them. The refinement uses it too: a `Process` that pays
  is a `Settle` because its session is open and its SMS has not settled another. Each priority of
  `Process` is a lemma. `PaidInTime` and `BalancesAccounted` are proved on top of it: each credit
  begins at the tracked balance and ends at the new one, and balances only grow (`TrackedGrows`), so
  every earlier credit ends below where a new one begins.
- `MatchingTx_proofs`. `IInv` says that a row has one writer, and, for each statement a
  transaction has reached, which rows it may have written: before its last statement nothing
  of it shows, and what a commit adds is a payment, a succeeded session and a matched
  SMS together. `OneParsedRowPerTrx` follows from the index and the locks. `NoWaitCycle` rests on a
  rank of the rows: SMS, profile, payment, then the sessions by age. With `OrderInv` (a call that has
  parsed its SMS holds its row, and one that flags sessions holds only older ones than it has yet to
  flag) what a waiting call holds ranks below what it waits for (`WaitsForLater`), so that the
  call of a circle that waits for the greatest rank contradicts itself.
- `MatchingTx_refines` builds on it. `IInv` does not say why a commit is right, since the call decided
  on it from rows it had read before. `CommitInv` does: `Written` is what the rows in `writes[c]` hold,
  statement by statement; `Decided` is what of the decision is still true of `db`. It stays true
  under the commits of others because they only move `Forward`: no session becomes pending again, and
  no parsed SMS unparsed, so the sessions that fit can only become fewer and a twin stays. Of
  `UpdateSMSParsed` it needs the wait for the index, so that no two parsed SMS of a TrxID
  commit. `PayersParsed` makes a payment that conflicts the SMS's own. The steps are then taken one by
  one: those that do not commit are stutters, the five last statements are `Settle`, `Hold`, `Leave`,
  `Suspect` and `Duplicate`.
- `SessionCreation_proofs`. `IInv` relates a call's progress, the stored rows and the answers.
  `RetryCreatesNothing` needs its part `PastCheck`: a call past the check began before the key
  was answered. `LimitOnAnswered` counts calls: `LimitInv` says that the counter has counted all that
  were answered, and that each call past its limit in excess (`Excess`) has had a fault. Whom a
  call found answered does not change any more (`AnsweredBeforeKept`), so the plan that let it
  through then still vouches for it now.
- `Webhooks_proofs`. `WInv` accounts for every request sent: in the attempts of the row, made
  before a reset, the one that succeeded, still on its way, or paid for by a fault.
  `SendsBounded` is what remains of it. `Backoff` follows from `WaitInv`: the time since the failure
  and the time still to wait make up the delay, and a row the dispatcher holds is due unless it
  was reset. A row that was reset while it was sent waits for a later delay than its attempts
  say, which is why the delays must not shrink. `EventsQueued` is the safety part of `EventQueued`:
  `QueueInv` says that after `ListEndpoints` each endpoint that asked for the event is still to be
  done, has its row, or is no longer active. The refinement of `Delivery` needs a bound in
  the other direction than `WInv`: `SendsCounted`, that no row, fetched row or request on its way counts
  more attempts than requests were made, so that what is given up was requested often enough.
- `SmsUpload_proofs`. `CursorSound` needs that whatever a scan has read up to what it will
  write as the cursor is queued, being ingested by it, or still in its list, and that SMS arrive
  in the order of their dates; `NothingDropped` needs that the request that is waited for is the
  newest, and that each of its rows is stored or yet to be. `CopiesAccounted` is proved by counting
  pairs of a request and a row: `CopyInv` bounds the copies, with what the backend has yet to store
  (`Left`) and the rows not sent since the last fault (`Unsent`), by a copy of each row
  and one more for each fault. `QueueInv` bounds the rows themselves. A receiver's broadcast is its only
  reason to ingest an SMS (`ReceiverAccount`). A scan's account (`ScanAccount`) adds to what it
  has queued what may still make it queue the SMS without a fault: that the SMS is on its list or being
  ingested (`Due`), that the next scan would read it (`Behind`), and the other scans that began before
  the SMS came (`Others`), each of which can set the cursor back once, and is over then. Every step
  keeps the sum; a stop adds one to it, and one to the faults. `RowsApart` and `OneIngest` say why the count
  of duplicates sees the caller's own row.

- `Devices_proofs`. `IInv` says of what the calls have read that it still means something: a token
  belongs to one device and is gone once a secret was stored with it (`TokensUnique`,
  `TokenSpent`), a secret belongs to the device it was stored for. `AlertsAccounted` needs
  `AlertsEarned`: a device that is active, or was listed since, has been paired once more than it was
  reported. `LimitAccounted` rests on lemmas about the cardinality of what is counted, one for
  each way a device enters or leaves it. `DisabledHolds` is an action property proved from `IInv`.
- `Onboarding_proofs`. `IInv` adds to the three invariants that a call of `TryMatch` about to mark a
  request has created the profile it asked for (`MatchPart`). Steps that write neither profiles nor
  verified requests are covered by one lemma (`Quiet`), and `CreatedStays` carries what
  is true of a profile over every step, as rows are written once.

Model-checked only: liveness (`Settles`, `EventQueued`, `Uploaded`, `SilentGoesOffline`, `Concluded`),
which is out of the prover's reach; of `EventQueued` the safety part is proved. The abstract
specifications have no fairness, so the refinements are about safety. The strengthenings `OrderInv`,
`LimitInv`, `CopyInv`, `WaitInv`, `CommitInv`, `QueueInv` and `SendsCounted` are stated beside the
proofs, as no run needs them.

## Not modelled

The reasons are under `components`. What a reader might miss most:

- The SMS parser: a pure function made of regular expressions and number formatting, which the
  repository's tests feed with real messages. `Matching` and `Onboarding` take its result as given.
- `PATCH` of a profile and of the settings, which read a row and write all of its fields, so that
  one may undo another. The fields are read by nothing that is modelled; `hazards` has the line.
- Payment links: they are created and listed, and no session is made from them.
- Rate limits: the limiter keeps a window in memory and nothing else reads it.
- The pair handler in `api/merchant/devices/pair.go`, which the routes never reach, and the
  middleware `middleware/device.go`, which nothing uses; `devices/` has the ones that run.
- A composition of `SmsUpload`, `Matching` and `Webhooks`: the server does not call the engine after
  it has stored an SMS, so there is no code yet that the joint would translate.
- Single-row reads and writes of the administration, and the web pages.
