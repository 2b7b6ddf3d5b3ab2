------------------------------ MODULE SmsUpload ------------------------------
(***************************************************************************)
(* The way of an SMS from a phone to sms_messages: the Android app's two   *)
(* ingest paths, its outbox and its upload worker (apps/android), and the  *)
(* backend's SMSHandler (internal/devices).                                *)
(*                                                                         *)
(* The messages are the SMS of configured senders, numbered in the order   *)
(* of their inbox dates; the phone is paired.  The outbox, the cursor, the *)
(* cooldowns and WorkManager's queue survive the app's process; what is    *)
(* being ingested, scanned or sent does not.                               *)
(***************************************************************************)
EXTENDS Naturals, FiniteSets

CONSTANTS
  Messages,         \* SMS, by inbox date
  Late,             \* those the operator stamped over a minute before that
  Receivers,        \* the registrations of SmsReceiver
  Scans,            \* the works that run InboxSyncWorker
  BatchLimit,
  MaxRunAttempts,
  None,             \* no request, no scan
  MaxFaults         \* bound: errors, lost answers and kills of the process

ASSUME UploadAssumption ==
  /\ Messages \subseteq Nat \ {0}
  /\ Late \subseteq Messages
  /\ Receivers \cap Scans = {}
  /\ IsFiniteSet(Receivers) /\ IsFiniteSet(Scans)
  /\ BatchLimit \in Nat \ {0}
  /\ MaxRunAttempts \in Nat
  /\ MaxFaults \in Nat
  /\ None \notin Nat /\ None \notin [todo : SUBSET Messages, next : Nat]

VARIABLES
  inbox,       \* the phone's inbox
  broadcasts,  \* SMS_RECEIVED, to be delivered to either receiver
  ingests,     \* calls of SmsIngestService.ingest under way
  scan,        \* what each run of InboxSyncWorker has read, or None
  cursor,      \* inboxScanCursor
  outbox,
  inserts,     \* rows inserted into the outbox so far, by SMS
  queued,      \* the same, by SMS and by the receiver or scan that inserted them
  work,        \* the unique work sms_upload and its runAttemptCount
  sending,     \* the batch the worker has sent
  waiting,     \* the request it waits for, or None
  serving,     \* requests the backend has not finished
  signing,     \* "paused" while authCooldownUntil lies ahead
  copies,      \* rows of sms_messages, by SMS
  faults

ingestVars == <<inbox, broadcasts, ingests, scan, cursor>>
sendVars == <<sending, waiting, serving>>
vars == <<ingestVars, outbox, inserts, queued, work, sendVars, signing, copies, faults>>

Callers == Receivers \cup Scans

\* A row is the nr-th inserted for its SMS; at says whose clock stamped it.
Rows ==
  [sms : Messages, nr : Nat, at : {"operator", "inbox"}, by : Callers, cool : BOOLEAN]

Ingests ==
  [sms : Messages, at : {"operator", "inbox"}, by : Callers,
   step : {"count", "insert", "schedule"}]

TypeOK ==
  /\ inbox \subseteq Messages
  /\ broadcasts \subseteq Messages \X Receivers
  /\ ingests \subseteq Ingests
  /\ scan \in [Scans -> [todo : SUBSET Messages, next : Nat] \cup {None}]
  /\ cursor \in Nat
  /\ outbox \subseteq Rows
  /\ inserts \in [Messages -> Nat]
  /\ queued \in [Messages -> [Callers -> Nat]]
  /\ work \in [state : {"none", "enqueued", "running"}, runs : Nat]
  /\ sending \subseteq Rows
  /\ waiting \in Nat \cup {None}
  /\ serving \subseteq [id : Nat, todo : SUBSET Rows]
  /\ signing \in {"allowed", "paused"}
  /\ copies \in [Messages -> Nat]
  /\ faults \in 0 .. MaxFaults

Idle == [state |-> "none", runs |-> 0]

Init ==
  /\ inbox = {}
  /\ broadcasts = {}
  /\ ingests = {}
  /\ scan = [w \in Scans |-> None]
  /\ cursor = 0
  /\ outbox = {}
  /\ inserts = [m \in Messages |-> 0]
  /\ queued = [m \in Messages |-> [c \in Callers |-> 0]]
  /\ work = Idle
  /\ sending = {}
  /\ waiting = None
  /\ serving = {}
  /\ signing = "allowed"
  /\ copies = [m \in Messages |-> 0]
  /\ faults = 0

-----------------------------------------------------------------------------
(* Ingest.                                                                 *)

\* An SMS is stored in the inbox, and announced to both receivers.
Arrive(m) ==
  /\ m \notin inbox
  /\ \A o \in Messages : o < m => o \in inbox
  /\ inbox' = inbox \cup {m}
  /\ broadcasts' = broadcasts \cup ({m} \X Receivers)
  /\ UNCHANGED <<ingests, scan, cursor, outbox, inserts, queued,
                 work, sendVars, signing, copies, faults>>

\* onReceive; it may also never come.
OnReceive(m, by) ==
  /\ <<m, by>> \in broadcasts
  /\ broadcasts' = broadcasts \ {<<m, by>>}
  /\ ingests' = ingests \cup {[sms |-> m, at |-> "operator", by |-> by, step |-> "count"]}
  /\ UNCHANGED <<inbox, scan, cursor, outbox, inserts, queued,
                 work, sendVars, signing, copies, faults>>

\* The rows with the same sender and body, stamped within a minute.
Duplicates(i) ==
  {r \in outbox : r.sms = i.sms /\ (r.at = i.at \/ i.sms \notin Late)}

\* Mutant of CountDuplicates: no check.
CountNothing(i) ==
  /\ i \in ingests
  /\ i.step = "count"
  /\ ingests' = (ingests \ {i}) \cup {[i EXCEPT !.step = "insert"]}
  /\ UNCHANGED <<inbox, broadcasts, scan, cursor, outbox, inserts, queued,
                 work, sendVars, signing, copies, faults>>

CountDuplicates(i) ==
  /\ i \in ingests
  /\ i.step = "count"
  /\ ingests' = (ingests \ {i}) \cup
       (IF Duplicates(i) = {} THEN {[i EXCEPT !.step = "insert"]} ELSE {})
  /\ UNCHANGED <<inbox, broadcasts, scan, cursor, outbox, inserts, queued,
                 work, sendVars, signing, copies, faults>>

Insert(i) ==
  /\ i \in ingests
  /\ i.step = "insert"
  /\ ingests' = (ingests \ {i}) \cup {[i EXCEPT !.step = "schedule"]}
  /\ outbox' = outbox \cup {[sms |-> i.sms, nr |-> inserts[i.sms], at |-> i.at,
                              by |-> i.by, cool |-> FALSE]}
  /\ inserts' = [inserts EXCEPT ![i.sms] = @ + 1]
  /\ queued' = [queued EXCEPT ![i.sms][i.by] = @ + 1]
  /\ UNCHANGED <<inbox, broadcasts, scan, cursor, work, sendVars, signing, copies, faults>>

\* Mutant of Kept: ExistingWorkPolicy.REPLACE.
Replaced == [state |-> "enqueued", runs |-> 0]

\* enqueueUpload, ExistingWorkPolicy.KEEP.
Kept == IF work.state = "none" THEN [state |-> "enqueued", runs |-> 0] ELSE work

EnqueueUpload(i) ==
  /\ i \in ingests
  /\ i.step = "schedule"
  /\ ingests' = ingests \ {i}
  /\ work' = Kept
  /\ UNCHANGED <<inbox, broadcasts, scan, cursor, outbox, inserts, queued,
                 sendVars, signing, copies, faults>>

Unscanned == {m \in inbox : m > cursor}

\* Mutant of NextCursor: the cursor goes to the newest SMS there is by now.
CursorToNewest(w) == CHOOSE m \in inbox \cup {0} : \A o \in inbox : o <= m

\* The newest of the rows that were read; with no row, the cursor as it was read.
NextCursor(w) == scan[w].next

\* queryInbox: the SMS newer than the cursor.
StartScan(w) ==
  /\ scan[w] = None
  /\ \E newest \in Unscanned \cup {cursor} :
       /\ \A m \in Unscanned : m <= newest
       /\ scan' = [scan EXCEPT ![w] = [todo |-> Unscanned, next |-> newest]]
  /\ UNCHANGED <<inbox, broadcasts, ingests, cursor, outbox, inserts, queued,
                 work, sendVars, signing, copies, faults>>

Ingesting(w) == \E i \in ingests : i.by = w

\* The rows are ingested one after the other, from the oldest on.
ScanRow(w) ==
  /\ scan[w] # None
  /\ ~Ingesting(w)
  /\ \E m \in scan[w].todo :
       /\ \A o \in scan[w].todo : m <= o
       /\ scan' = [scan EXCEPT ![w].todo = @ \ {m}]
       /\ ingests' = ingests \cup {[sms |-> m, at |-> "inbox", by |-> w, step |-> "count"]}
  /\ UNCHANGED <<inbox, broadcasts, cursor, outbox, inserts, queued,
                 work, sendVars, signing, copies, faults>>

SetInboxScanCursor(w) ==
  /\ scan[w] # None
  /\ ~Ingesting(w)
  /\ scan[w].todo = {}
  /\ cursor' = NextCursor(w)
  /\ scan' = [scan EXCEPT ![w] = None]
  /\ UNCHANGED <<inbox, broadcasts, ingests, outbox, inserts, queued,
                 work, sendVars, signing, copies, faults>>

-----------------------------------------------------------------------------
(* Upload.                                                                 *)

\* Mutant of HeartbeatTick: the comparison is the wrong way round.
TickWhenEmpty ==
  /\ outbox = {}
  /\ work' = Kept
  /\ UNCHANGED <<ingestVars, outbox, inserts, queued, sendVars, signing, copies, faults>>

\* The heartbeat loop schedules an upload while rows are left.
HeartbeatTick ==
  /\ outbox # {}
  /\ work' = Kept
  /\ UNCHANGED <<ingestVars, outbox, inserts, queued, sendVars, signing, copies, faults>>

Pending == {r \in outbox : ~r.cool}

\* The oldest pending rows, up to the limit.
Batch(B) ==
  /\ B \subseteq Pending
  /\ \A r \in B, o \in Pending \ B : r.sms < o.sms \/ (r.sms = o.sms /\ r.nr < o.nr)
  /\ Cardinality(B) <= BatchLimit
  /\ B = Pending \/ Cardinality(B) = BatchLimit

Exceeded == work.runs > MaxRunAttempts

\* The worker ends early: signing is paused, or there is nothing to send.
UploadNothing ==
  /\ work.state = "enqueued"
  /\ signing = "paused" \/ Pending = {}
  /\ work' = Idle
  /\ UNCHANGED <<ingestVars, outbox, inserts, queued, sendVars, signing, copies, faults>>

\* Too many runs: the batch is left to rest.
UploadGiveUp ==
  /\ work.state = "enqueued"
  /\ signing = "allowed" /\ Pending # {} /\ Exceeded
  /\ \E B \in SUBSET Pending :
       /\ Batch(B)
       /\ outbox' = (outbox \ B) \cup {[r EXCEPT !.cool = TRUE] : r \in B}
  /\ work' = Idle
  /\ UNCHANGED <<ingestVars, inserts, queued, sendVars, signing, copies, faults>>

\* Mutant of UploadSend: the rows are deleted when they are sent.
SendAndDelete ==
  /\ work.state = "enqueued"
  /\ signing = "allowed" /\ Pending # {} /\ ~Exceeded
  /\ \E B \in SUBSET Pending :
       /\ Batch(B)
       /\ sending' = B
       /\ outbox' = outbox \ B
       /\ serving' = serving \cup {[id |-> faults, todo |-> B]}
  /\ waiting' = faults
  /\ work' = [work EXCEPT !.state = "running"]
  /\ UNCHANGED <<ingestVars, inserts, queued, signing, copies, faults>>

\* markAttempted and sendSms.
UploadSend ==
  /\ work.state = "enqueued"
  /\ signing = "allowed" /\ Pending # {} /\ ~Exceeded
  /\ \E B \in SUBSET Pending :
       /\ Batch(B)
       /\ sending' = B
       /\ serving' = serving \cup {[id |-> faults, todo |-> B]}
  /\ waiting' = faults
  /\ work' = [work EXCEPT !.state = "running"]
  /\ UNCHANGED <<ingestVars, outbox, inserts, queued, signing, copies, faults>>

\* SMSHandler stores one record after the other, each by a statement of its
\* own; whether it can be parsed makes no difference to the answer.
InsertSMSMessage(q) ==
  /\ q \in serving
  /\ \E r \in q.todo :
       /\ \A o \in q.todo : r.sms < o.sms \/ (r.sms = o.sms /\ r.nr <= o.nr)
       /\ copies' = [copies EXCEPT ![r.sms] = @ + 1]
       /\ serving' = (serving \ {q}) \cup {[q EXCEPT !.todo = @ \ {r}]}
  /\ UNCHANGED <<ingestVars, outbox, inserts, queued, work, sending, waiting, signing, faults>>

\* The backend is through; nobody may be waiting for its answer any more.
Dropped(q) ==
  /\ q \in serving
  /\ q.id # waiting
  /\ serving' = serving \ {q}
  /\ UNCHANGED <<ingestVars, outbox, inserts, queued,
                 work, sending, waiting, signing, copies, faults>>

\* The answer acknowledges every row of the batch, and they are deleted.
Acked(q) ==
  /\ q \in serving
  /\ q.id = waiting /\ q.todo = {}
  /\ serving' = serving \ {q}
  /\ outbox' = {r \in outbox : \A s \in sending : <<s.sms, s.nr>> # <<r.sms, r.nr>>}
  /\ sending' = {} /\ waiting' = None
  /\ work' = Idle
  /\ UNCHANGED <<ingestVars, inserts, queued, signing, copies, faults>>

Retried == [state |-> "enqueued", runs |-> work.runs + 1]

\* The request is refused, or fails with some of the records stored: 5xx and
\* 429 are retried, a 401 pauses signing, anything else ends the work.
Failed(q) ==
  /\ q \in serving
  /\ q.id = waiting
  /\ faults < MaxFaults
  /\ faults' = faults + 1
  /\ \/ work' = Retried /\ UNCHANGED signing
     \/ work' = Idle /\ signing' = "paused" /\ q.todo = sending
     \/ work' = Idle /\ UNCHANGED signing /\ q.todo = sending
  /\ serving' = serving \ {q}
  /\ sending' = {} /\ waiting' = None
  /\ UNCHANGED <<ingestVars, outbox, inserts, queued, copies>>

\* IOException: the request, or its answer, does not arrive, or takes too long
\* while the backend goes on.
Unanswered(q) ==
  /\ q \in serving
  /\ q.id = waiting
  /\ faults < MaxFaults
  /\ faults' = faults + 1
  /\ work' = Retried
  /\ serving' = serving \/ serving' = serving \ {q}
  /\ sending' = {} /\ waiting' = None
  /\ UNCHANGED <<ingestVars, outbox, inserts, queued, signing, copies>>

-----------------------------------------------------------------------------
(* Time and process.                                                       *)

CooldownOver ==
  /\ \E r \in outbox :
       /\ r.cool
       /\ outbox' = (outbox \ {r}) \cup {[r EXCEPT !.cool = FALSE]}
  /\ UNCHANGED <<ingestVars, inserts, queued, work, sendVars, signing, copies, faults>>

PauseOver ==
  /\ signing = "paused"
  /\ signing' = "allowed"
  /\ UNCHANGED <<ingestVars, outbox, inserts, queued, work, sendVars, copies, faults>>

\* A 401 for the heartbeat pauses signing too.
HeartbeatRefused ==
  /\ signing = "allowed"
  /\ faults < MaxFaults
  /\ faults' = faults + 1
  /\ signing' = "paused"
  /\ UNCHANGED <<ingestVars, outbox, inserts, queued, work, sendVars, copies>>

\* The process is killed; WorkManager runs again what was running.
Kill ==
  /\ faults < MaxFaults
  /\ faults' = faults + 1
  /\ ingests' = {}
  /\ scan' = [w \in Scans |-> None]
  /\ work' = IF work.state = "running" THEN Retried ELSE work
  /\ sending' = {} /\ waiting' = None
  /\ UNCHANGED <<inbox, broadcasts, cursor, outbox, inserts, queued, serving, signing, copies>>

\* Work that is started anew replaces a run, and a run without network is stopped.
ScanStopped(w) ==
  /\ scan[w] # None
  /\ faults < MaxFaults
  /\ faults' = faults + 1
  /\ scan' = [scan EXCEPT ![w] = None]
  /\ ingests' = {i \in ingests : i.by # w}
  /\ UNCHANGED <<inbox, broadcasts, cursor, outbox, inserts, queued,
                 work, sendVars, signing, copies>>

IngestStep == \E i \in ingests : CountDuplicates(i) \/ Insert(i) \/ EnqueueUpload(i)

ScanStep(w) == StartScan(w) \/ ScanRow(w) \/ SetInboxScanCursor(w)

UploadStep == UploadNothing \/ UploadGiveUp \/ UploadSend

ServeStep == \E q \in serving : InsertSMSMessage(q) \/ Acked(q)

Next ==
  \/ \E m \in Messages : Arrive(m)
  \/ \E m \in Messages, by \in Receivers : OnReceive(m, by)
  \/ IngestStep
  \/ \E w \in Scans : ScanStep(w)
  \/ HeartbeatTick
  \/ UploadStep
  \/ ServeStep
  \/ \E q \in serving : Dropped(q) \/ Failed(q) \/ Unanswered(q)
  \/ CooldownOver
  \/ PauseOver
  \/ HeartbeatRefused
  \/ Kill
  \/ \E w \in Scans : ScanStopped(w)

Spec == Init /\ [][Next]_vars

\* The heartbeat service ticks, WorkManager runs the scheduled work, calls run
\* to their end and cooldowns pass.  Broadcasts need not be delivered.
Fairness ==
  /\ WF_vars(IngestStep)
  /\ \A w \in Scans : WF_vars(ScanStep(w))
  /\ WF_vars(HeartbeatTick)
  /\ WF_vars(UploadStep)
  /\ WF_vars(ServeStep)
  /\ WF_vars(CooldownOver)
  /\ WF_vars(PauseOver)

FairSpec == Spec /\ Fairness

-----------------------------------------------------------------------------
(* Properties.                                                             *)

\* An SMS that was ever queued is in the outbox until the backend has it.
NothingDropped ==
  \A m \in Messages :
    inserts[m] > 0 => (copies[m] > 0 \/ \E r \in outbox : r.sms = m)

\* Two scans may overlap, be killed, and write the cursor in any order: it
\* has passed an SMS only if the SMS was queued.
CursorSound == \A m \in inbox : m <= cursor => inserts[m] > 0

\* The dedupe of the outbox keeps two rows of one SMS apart only if the two callers
\* that queued them count before either inserts, or stamp it differently: no caller
\* has two rows of an SMS there.
NoTwinRows == \A r, o \in outbox : r.sms = o.sms /\ r.by = o.by => r = o

\* How often SMSHandler can have stored an SMS.  A receiver queues it once; a scan
\* again only when a scan that began before the SMS came sets the cursor back, or a
\* scan is stopped before it sets the cursor.  Each of these rows is stored once, and
\* once more for each request that was stored in part, or wholly but not acknowledged.
CopiesAccounted ==
  /\ NoTwinRows
  /\ \A m \in Messages :
       /\ \A c \in Receivers : queued[m][c] <= 1
       /\ \A w \in Scans : queued[m][w] <= Cardinality(Scans) + faults
       /\ inserts[m] <= Cardinality(Receivers) + Cardinality(Scans) * (Cardinality(Scans) + faults)
       /\ copies[m] <= inserts[m] * (1 + faults)

\* Every SMS reaches the backend, even if its broadcast never comes, uploads
\* fail and are given up, signing is paused, or the process is killed.
Uploaded == \A m \in Messages : m \in inbox ~> copies[m] > 0

-----------------------------------------------------------------------------
(* The inductive invariant.                                                *)

RowsCounted == \A r \in outbox : inserts[r.sms] > 0

\* What a scan may write as the cursor, and what the cursor is.
Reached == inbox \cup {0}

InOrder ==
  /\ \A m \in inbox, o \in Messages : o < m => o \in inbox
  /\ cursor \in Reached

\* What a scan read is queued, is being ingested by it, or is still to come.
ScanSound ==
  \A w \in Scans : scan[w] # None =>
    /\ scan[w].next \in Reached
    /\ scan[w].todo \subseteq inbox
    /\ \A m \in inbox : m <= scan[w].next =>
         \/ inserts[m] > 0
         \/ m \in scan[w].todo
         \/ \E i \in ingests : i.sms = m /\ i.by = w

\* An ingest past its insertion has queued its SMS.
IngestSound == \A i \in ingests : i.step = "schedule" => inserts[i.sms] > 0

\* The request that is waited for is the newest one, and each row sent with it
\* is stored or yet to be.
RequestSound ==
  /\ waiting # None => work.state = "running"
  /\ \A q \in serving :
       /\ q.id <= faults
       /\ q.id = faults => waiting = faults
       /\ q.id = waiting => \A s \in sending : s \in q.todo \/ copies[s.sms] > 0
  /\ \A q, o \in serving : q.id = o.id => q = o

\* Queues, scans and requests agree with each other and with the inbox.
IInv ==
  /\ TypeOK
  /\ RowsCounted
  /\ InOrder
  /\ IngestSound
  /\ ScanSound
  /\ CursorSound
  /\ RequestSound
  /\ NothingDropped
=============================================================================
