----------------------------- MODULE MatchingTx -----------------------------
(***************************************************************************)
(* Engine.Process statement by statement.  Matching takes its transaction  *)
(* as one step; here several transactions run side by side at PostgreSQL's *)
(* default isolation level, READ COMMITTED (engine.go:164 asks for no      *)
(* other): each statement sees the rows committed before it started and    *)
(* the transaction's own writes, a written row stays locked until the      *)
(* transaction ends, and a unique index makes an insertion wait for an     *)
(* uncommitted row with its key.                                           *)
(*                                                                         *)
(* Time is left out: every session is alive, claims are already made, and  *)
(* the constant Fits says which sessions ask for the amount and sender of  *)
(* which SMS.                                                              *)
(***************************************************************************)
EXTENDS Naturals, FiniteSets

CONSTANTS
  Calls,     \* calls of Process, each with a transaction of its own
  Messages,  \* sms_messages, stored and not yet parsed
  Sessions,  \* checkout_sessions, in the order of created_at
  TrxIds,
  None,      \* SQL NULL
  Trx,       \* Trx[m]: transaction id of SMS m
  Amount,    \* Amount[m], and the balance it reports or None
  Balance,
  Fits,      \* Fits[m]: sessions with m's profile, amount and sender
  Claimed,   \* Claimed[s]: trx_id_claim of s or None
  Opening    \* tracked_balance of the one profile

ASSUME TxAssumption ==
  /\ Sessions \subseteq Nat /\ IsFiniteSet(Sessions)
  /\ Trx \in [Messages -> TrxIds]
  /\ Amount \in [Messages -> Nat]
  /\ Balance \in [Messages -> Nat \cup {None}]
  /\ Fits \in [Messages -> SUBSET Sessions]
  /\ Claimed \in [Sessions -> TrxIds \cup {None}]
  /\ Opening \in Nat
  /\ None \notin Nat \cup TrxIds \cup Sessions \cup Messages

VARIABLES
  db,     \* the committed rows
  writes, \* rows written and locked by each transaction
  pc,     \* next statement of each call
  sms,    \* the SMS the call processes
  seen,   \* tracked_balance as GetProfile returned it
  todo    \* sessions the call is going to update

vars == <<db, writes, pc, sms, seen, todo>>

SmsRow(m) == <<"sms", m>>
SessionRow(s) == <<"session", s>>
PaymentRow(s, x) == <<"payment", s, x>>
ProfileRow == <<"profile">>

Rows ==
  {SmsRow(m) : m \in Messages} \cup {SessionRow(s) : s \in Sessions}
    \cup {PaymentRow(s, x) : s \in Sessions, x \in TrxIds} \cup {ProfileRow}

SmsValues ==
  [parse : {"pending", "parsed"}, matched : Sessions \cup {None},
   match : {"unmatched", "held", "suspect", "duplicate", "matched"}]

SessionValues ==
  [status : {"pending", "succeeded", "canceled"}, review : BOOLEAN]

\* What a row may hold; a payment row holds the SMS that paid for the
\* session, None as long as there is no such row.
ValuesOf(r) ==
  CASE r[1] = "sms" -> SmsValues
    [] r[1] = "session" -> SessionValues
    [] r[1] = "payment" -> Messages \cup {None}
    [] r[1] = "profile" -> Nat

Statements ==
  {"idle", "get", "dedupe", "duplicate", "parse", "profile", "balance",
   "candidates", "insert", "pay", "match", "hold", "held", "unmatched",
   "over"}

TypeOK ==
  /\ db = [r \in Rows |-> db[r]]
  /\ \A r \in Rows : db[r] \in ValuesOf(r)
  /\ writes = [c \in Calls |-> [r \in DOMAIN writes[c] |-> writes[c][r]]]
  /\ \A c \in Calls :
       /\ DOMAIN writes[c] \subseteq Rows
       /\ \A r \in DOMAIN writes[c] : writes[c][r] \in ValuesOf(r)
  /\ pc \in [Calls -> Statements]
  /\ sms \in [Calls -> Messages \cup {None}]
  /\ seen \in [Calls -> Nat]
  /\ todo \in [Calls -> SUBSET Sessions]

NewRow(r) ==
  CASE r[1] = "sms" -> [parse |-> "pending", match |-> "unmatched", matched |-> None]
    [] r[1] = "session" -> [status |-> "pending", review |-> FALSE]
    [] r[1] = "payment" -> None
    [] r[1] = "profile" -> Opening

NoWrites == [r \in {} |-> None]

Init ==
  /\ db = [r \in Rows |-> NewRow(r)]
  /\ writes = [c \in Calls |-> NoWrites]
  /\ pc = [c \in Calls |-> "idle"]
  /\ sms = [c \in Calls |-> None]
  /\ seen = [c \in Calls |-> 0]
  /\ todo = [c \in Calls |-> {}]

-----------------------------------------------------------------------------
(* The database.                                                           *)

Holds(c, r) == r \in DOMAIN writes[c]

\* What a statement of c reads.
View(c, r) == IF Holds(c, r) THEN writes[c][r] ELSE db[r]

Free(c, r) == \A d \in Calls \ {c} : ~Holds(d, r)

With(c, r, v) == [x \in DOMAIN writes[c] \cup {r} |-> IF x = r THEN v ELSE writes[c][x]]

\* An UPDATE or INSERT of one row, which then stays locked.
Write(c, r, v) ==
  /\ Free(c, r)
  /\ writes' = [writes EXCEPT ![c] = With(c, r, v)]
  /\ UNCHANGED db

\* A last write to a row that is locked already, and COMMIT.
WriteAndCommit(c, r, v) ==
  LET own == With(c, r, v) IN
  /\ Free(c, r)
  /\ db' = [x \in Rows |-> IF x \in DOMAIN own THEN own[x] ELSE db[x]]
  /\ writes' = [writes EXCEPT ![c] = NoWrites]

Goto(c, statement) == pc' = [pc EXCEPT ![c] = statement]

Rollback(c) ==
  /\ writes' = [writes EXCEPT ![c] = NoWrites]
  /\ Goto(c, "over")
  /\ UNCHANGED <<db, sms, seen, todo>>

-----------------------------------------------------------------------------
(* The statements of Process.                                              *)

Start(c, m) ==
  /\ pc[c] = "idle"
  /\ sms' = [sms EXCEPT ![c] = m]
  /\ Goto(c, "get")
  /\ UNCHANGED <<db, writes, seen, todo>>

\* An SMS already matched ends the call with nothing written.
GetSMSMessage(c) ==
  /\ pc[c] = "get"
  /\ Goto(c, IF db[SmsRow(sms[c])].match = "matched" THEN "over" ELSE "dedupe")
  /\ UNCHANGED <<db, writes, sms, seen, todo>>

\* The other SMS with the same TrxID.
Twins(m) == {o \in Messages \ {m} : Trx[o] = Trx[m]}

FindDuplicateTrxID(c) ==
  /\ pc[c] = "dedupe"
  /\ Goto(c, IF \E o \in Twins(sms[c]) : db[SmsRow(o)].parse = "parsed"
             THEN "duplicate" ELSE "parse")
  /\ UNCHANGED <<db, writes, sms, seen, todo>>

\* UpdateSMSMatchStatus of the call's own SMS, and COMMIT.
Classify(c, match, session) ==
  LET r == SmsRow(sms[c]) IN
  /\ WriteAndCommit(c, r, [View(c, r) EXCEPT !.match = match, !.matched = session])
  /\ Goto(c, "over")
  /\ UNCHANGED <<sms, seen, todo>>

MarkDuplicate(c) == pc[c] = "duplicate" /\ Classify(c, "duplicate", None)

\* Mutant of UpdateSMSParsed: no unique index on the parsed rows.
UpdateWithoutIndex(c) ==
  LET r == SmsRow(sms[c]) IN
  /\ pc[c] = "parse"
  /\ Write(c, r, [View(c, r) EXCEPT !.parse = "parsed"])
  /\ Goto(c, "profile")
  /\ UNCHANGED <<sms, seen, todo>>

\* The unique index waits for a twin that is being parsed and not committed.
IndexFree(c, m) ==
  \A d \in Calls \ {c}, o \in Twins(m) : ~Holds(d, SmsRow(o))

\* Once the twin is committed the statement fails and the call with it.
UpdateSMSParsed(c) ==
  LET r == SmsRow(sms[c]) IN
  /\ pc[c] = "parse"
  /\ IndexFree(c, sms[c])
  /\ Free(c, r)
  /\ IF \E o \in Twins(sms[c]) : db[SmsRow(o)].parse = "parsed"
     THEN Rollback(c)
     ELSE /\ Write(c, r, [View(c, r) EXCEPT !.parse = "parsed"])
          /\ Goto(c, "profile")
          /\ UNCHANGED <<sms, seen, todo>>

GetProfile(c) ==
  /\ pc[c] = "profile"
  /\ seen' = [seen EXCEPT ![c] = db[ProfileRow]]
  /\ Goto(c, IF Balance[sms[c]] = None THEN "candidates" ELSE "balance")
  /\ UNCHANGED <<db, writes, sms, todo>>

\* verifyBalance compares with the balance GetProfile returned.
BalanceFits(c) == seen[c] + Amount[sms[c]] = Balance[sms[c]]

UpdateTrackedBalance(c) ==
  /\ pc[c] = "balance"
  /\ BalanceFits(c)
  /\ Write(c, ProfileRow, Balance[sms[c]])
  /\ Goto(c, "candidates")
  /\ UNCHANGED <<sms, seen, todo>>

MarkSuspect(c) ==
  /\ pc[c] = "balance"
  /\ ~BalanceFits(c)
  /\ Classify(c, "suspect", None)

\* FindMatchCandidates.
Candidates(c) == {s \in Fits[sms[c]] : db[SessionRow(s)].status = "pending"}

Claimants(c) == {s \in Candidates(c) : Claimed[s] = Trx[sms[c]]}

Unclaimed(c) == {s \in Candidates(c) : Claimed[s] = None}

Oldest(S) == {s \in S : \A o \in S : s <= o}

Decide(c, statement, sessions) ==
  /\ Goto(c, statement)
  /\ todo' = [todo EXCEPT ![c] = sessions]

\* Mutant of FindMatchCandidates: one unclaimed session is taken even if
\* another claims the TrxID.
FindClaimIgnored(c) ==
  /\ pc[c] = "candidates"
  /\ \/ \E s \in Oldest(Claimants(c)) : Decide(c, "insert", {s})
     \/ \E s \in Sessions : Unclaimed(c) = {s} /\ Decide(c, "insert", {s})
     \/ Claimants(c) = {} /\ (\E s, t \in Unclaimed(c) : s # t) /\ Decide(c, "hold", Unclaimed(c))
     \/ Claimants(c) = {} /\ Unclaimed(c) = {} /\ Decide(c, "unmatched", {})
  /\ UNCHANGED <<db, writes, sms, seen>>

\* Priorities 1 and 2: a claim of the TrxID, else the only unclaimed session;
\* with several unclaimed ones the SMS is held.
FindMatchCandidates(c) ==
  /\ pc[c] = "candidates"
  /\ \/ \E s \in Oldest(Claimants(c)) : Decide(c, "insert", {s})
     \/ Claimants(c) = {} /\ \E s \in Sessions : Unclaimed(c) = {s} /\ Decide(c, "insert", {s})
     \/ Claimants(c) = {} /\ (\E s, t \in Unclaimed(c) : s # t) /\ Decide(c, "hold", Unclaimed(c))
     \/ Claimants(c) = {} /\ Unclaimed(c) = {} /\ Decide(c, "unmatched", {})
  /\ UNCHANGED <<db, writes, sms, seen>>

MarkUnmatched(c) == pc[c] = "unmatched" /\ Classify(c, "unmatched", None)

\* Mutant of Conflicts: the conflict is on trx_id alone.
ConflictsOnTrx(s, x) == \E o \in Sessions : db[PaymentRow(o, x)] # None

\* The row that ON CONFLICT (session_id, trx_id) DO NOTHING looks for.
Conflicts(s, x) == db[PaymentRow(s, x)] # None

\* InsertPayment waits for a row with its key, and does nothing if there is one.
InsertPayment(c, s) ==
  LET r == PaymentRow(s, Trx[sms[c]]) IN
  /\ pc[c] = "insert"
  /\ s \in todo[c]
  /\ IF Conflicts(s, Trx[sms[c]])
     THEN Free(c, r) /\ UNCHANGED <<db, writes>>
     ELSE Write(c, r, sms[c])
  /\ Goto(c, "pay")
  /\ UNCHANGED <<sms, seen, todo>>

\* UpdateSessionStatus and UpdateSessionNeedsReview write the same row, which
\* the first of them locks.  Neither looks at what the row holds by now.
UpdateSession(c, s) ==
  /\ pc[c] = "pay"
  /\ s \in todo[c]
  /\ Write(c, SessionRow(s), [status |-> "succeeded", review |-> FALSE])
  /\ Goto(c, "match")
  /\ UNCHANGED <<sms, seen, todo>>

MarkMatched(c) ==
  /\ pc[c] = "match"
  /\ \E s \in todo[c] : Classify(c, "matched", s)

\* Mutant of FlagSession: the sessions are flagged in any order.
FlagInAnyOrder(c, s) ==
  /\ pc[c] = "hold"
  /\ s \in todo[c]
  /\ Write(c, SessionRow(s), [View(c, SessionRow(s)) EXCEPT !.review = TRUE])
  /\ todo' = [todo EXCEPT ![c] = @ \ {s}]
  /\ Goto(c, IF todo[c] = {s} THEN "held" ELSE "hold")
  /\ UNCHANGED <<sms, seen>>

\* UpdateSessionNeedsReview of the ambiguous sessions, in the order in which
\* the query returned them.
FlagSession(c, s) ==
  /\ pc[c] = "hold"
  /\ s \in Oldest(todo[c])
  /\ Write(c, SessionRow(s), [View(c, SessionRow(s)) EXCEPT !.review = TRUE])
  /\ todo' = [todo EXCEPT ![c] = @ \ {s}]
  /\ Goto(c, IF todo[c] = {s} THEN "held" ELSE "hold")
  /\ UNCHANGED <<sms, seen>>

MarkHeld(c) == pc[c] = "held" /\ Classify(c, "held", None)

\* The 30 second deadline, a database error, or the server stops.
Abort(c) ==
  /\ pc[c] \notin {"idle", "over"}
  /\ Rollback(c)

\* cancelSession, or the expiry, of a session read as pending at some time.
GiveUp(s) ==
  /\ \A c \in Calls : ~Holds(c, SessionRow(s))
  /\ db[SessionRow(s)].status # "canceled"
  /\ db' = [db EXCEPT ![SessionRow(s)].status = "canceled"]
  /\ UNCHANGED <<writes, pc, sms, seen, todo>>

Process(c) ==
  \/ \E m \in Messages : Start(c, m)
  \/ GetSMSMessage(c)
  \/ FindDuplicateTrxID(c)
  \/ MarkDuplicate(c)
  \/ UpdateSMSParsed(c)
  \/ GetProfile(c)
  \/ UpdateTrackedBalance(c)
  \/ MarkSuspect(c)
  \/ FindMatchCandidates(c)
  \/ MarkUnmatched(c)
  \/ \E s \in Sessions : InsertPayment(c, s) \/ UpdateSession(c, s) \/ FlagSession(c, s)
  \/ MarkMatched(c)
  \/ MarkHeld(c)
  \/ Abort(c)

Next ==
  \/ \E c \in Calls : Process(c)
  \/ \E s \in Sessions : GiveUp(s)

Spec == Init /\ [][Next]_vars

-----------------------------------------------------------------------------
(* Properties.                                                             *)

Payments == {p \in Sessions \X TrxIds : db[PaymentRow(p[1], p[2])] # None}

\* FindDuplicateTrxID is not protected by a lock and two calls may both find
\* nothing; the unique index still leaves one parsed row per TrxID.
OneParsedRowPerTrx ==
  \A m, o \in Messages :
    (o \in Twins(m) /\ db[SmsRow(m)].parse = "parsed") => db[SmsRow(o)].parse # "parsed"

\* What is committed agrees, whichever calls overlap and wherever they are
\* aborted: a succeeded session has a payment, a paid one is not pending, and
\* a matched SMS has its TrxID paid for the session it is matched to.
CommittedAgree ==
  /\ \A s \in Sessions : db[SessionRow(s)].status = "succeeded" =>
       \E x \in TrxIds : <<s, x>> \in Payments
  /\ \A p \in Payments : db[SessionRow(p[1])].status # "pending"
  /\ \A m \in Messages : db[SmsRow(m)].match = "matched" =>
       <<db[SmsRow(m)].matched, Trx[m]>> \in Payments

\* A row is written by one transaction at a time.
LocksExclusive ==
  \A c, d \in Calls, r \in Rows : (Holds(c, r) /\ Holds(d, r)) => c = d

\* What a transaction has written when it is about to execute a statement: at
\* first nothing, then its SMS and the profile, then either the payment and
\* the session paid for, or the sessions held, whose status it keeps.
OwnWrites(c) ==
  LET m == sms[c]
      rows == DOMAIN writes[c]
      before == {SmsRow(m), ProfileRow}
  IN  /\ pc[c] \in {"idle", "over", "get", "dedupe", "duplicate", "parse"} => rows = {}
      /\ pc[c] \notin {"idle", "over"} => m \in Messages
      /\ pc[c] \in {"profile", "balance", "candidates", "unmatched", "insert"} =>
           rows \subseteq before
      /\ pc[c] \in {"insert", "pay", "match"} => \E s \in Sessions :
           /\ todo[c] = {s}
           /\ rows \subseteq before \cup {PaymentRow(s, Trx[m]), SessionRow(s)}
           /\ pc[c] \in {"pay", "match"} => View(c, PaymentRow(s, Trx[m])) # None
           /\ pc[c] = "match" =>
                SessionRow(s) \in rows /\ writes[c][SessionRow(s)].status = "succeeded"
      /\ pc[c] \in {"hold", "held"} =>
           /\ rows \subseteq before \cup {SessionRow(s) : s \in Sessions}
           /\ \A s \in Sessions : SessionRow(s) \in rows =>
                writes[c][SessionRow(s)].status = db[SessionRow(s)].status

\* The inductive invariant behind CommittedAgree.
IInv ==
  /\ TypeOK
  /\ LocksExclusive
  /\ \A c \in Calls : OwnWrites(c)
  /\ CommittedAgree

\* The rows the next statement of c is going to lock.
Wanted(c) ==
  CASE pc[c] = "parse" -> {SmsRow(m) : m \in {sms[c]} \cup Twins(sms[c])}
    [] pc[c] \in {"duplicate", "unmatched", "held", "match"} -> {SmsRow(sms[c])}
    [] pc[c] = "balance" -> IF BalanceFits(c) THEN {ProfileRow} ELSE {SmsRow(sms[c])}
    [] pc[c] = "insert" -> {PaymentRow(s, Trx[sms[c]]) : s \in todo[c]}
    [] pc[c] = "pay" -> {SessionRow(s) : s \in todo[c]}
    [] pc[c] = "hold" -> {SessionRow(s) : s \in Oldest(todo[c])}
    [] OTHER -> {}

WaitsFor(c, d) == c # d /\ \E r \in Wanted(c) : Holds(d, r)

\* Transactions never wait for each other in a circle: the rows are locked in
\* one order, SMS, profile, payment, and the sessions from the oldest on.
NoWaitCycle ==
  \A C \in SUBSET Calls : C # {} => \E c \in C : \A d \in C : ~WaitsFor(c, d)

\* However transactions overlap, wait for rows or are aborted, the committed
\* rows change by the whole outcome of one call at a time, and what the call
\* decided from stale reads is still right when it is committed, but for the
\* status of the sessions it writes.
Abstract == INSTANCE Commits WITH
  sms <- [m \in Messages |-> db[SmsRow(m)]],
  session <- [s \in Sessions |-> db[SessionRow(s)]],
  payment <- [p \in Sessions \X TrxIds |-> db[PaymentRow(p[1], p[2])]],
  balance <- db[ProfileRow]

ImplementsCommits == Abstract!Spec

-----------------------------------------------------------------------------
(* What the README says, and the code does not do.                         *)

\* README.md:5, each SMS is matched against a pending session: no SMS pays
\* for two sessions and no session is paid for twice.
SettledOnce ==
  \A p, q \in Payments : (p[1] = q[1] \/ p[2] = q[2]) => p = q
=============================================================================
