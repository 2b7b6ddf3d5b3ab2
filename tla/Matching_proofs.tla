-------------------------- MODULE Matching_proofs --------------------------
(***************************************************************************)
(* Theorems about Matching, for every set of sessions and SMS, every       *)
(* content, every merchant setting and every bound.                        *)
(*                                                                         *)
(* The inductive invariant is IInv: a step that credits an SMS to a        *)
(* session is safe because the session is pending, hence unpaid            *)
(* (TablesAgree), because an SMS with a payment is matched, hence left     *)
(* alone (TablesAgree), and because a TrxID with a payment belongs to a    *)
(* parsed row (PaidRowsParsed), which sends every other row with that      *)
(* TrxID to "duplicate" or to the unique index (OneParsedRowPerTrx).       *)
(***************************************************************************)
EXTENDS Matching, TLAPS

\* The initial state satisfies the inductive invariant.
LEMMA InitIInv == Init => IInv
<1> SUFFICES ASSUME Init PROVE IInv
  OBVIOUS
<1> USE ContentAssumption, SettingsAssumption, NoneAssumption
<1>1. TypeOK
  BY DEF Init, TypeOK, Times, SessionStatus, MatchStatus
<1>2. /\ CallsHaveSession
      /\ PaidRowsParsed /\ OneParsedRowPerTrx /\ SettledOnce /\ TablesAgree
  BY DEF Init, CallsHaveSession, PaidRowsParsed, OneParsedRowPerTrx, SettledOnce, TablesAgree, Paid
<1> QED
  BY <1>1, <1>2 DEF IInv

-----------------------------------------------------------------------------
(* Type correctness.                                                       *)

\* The handlers and the entry points keep every variable in its type.
LEMMA SessionStepType ==
  ASSUME TypeOK, NEW s \in Sessions, SessionStep(s)
  PROVE  TypeOK'
<1> USE SettingsAssumption
<1>1. CASE CreateSession(s)
  BY <1>1 DEF TypeOK, CreateSession, claimVars, smsVars, SessionStatus, Times
<1>2. ASSUME NEW call \in CallRows, Begin(call)
      PROVE  TypeOK'
  BY <1>2 DEF TypeOK, Begin, sessionVars, smsVars
<1>3. CASE CancelSessionRead(s)
  BY <1>2, <1>3 DEF CancelSessionRead, Call, CallRows
<1>4. CASE ExpireRead(s)
  BY <1>2, <1>4 DEF ExpireRead, Call, CallRows
<1>5. ASSUME NEW sender \in Senders, NEW trx \in TrxIds \cup {None},
             ClaimCheckoutRead(s, sender, trx)
      PROVE  TypeOK'
  BY <1>2, <1>5 DEF ClaimCheckoutRead, Call, CallRows
<1>6. ASSUME NEW sender \in Senders, NEW trx \in TrxIds,
             ClaimSession(s, sender, trx)
      PROVE  TypeOK'
  BY <1>6 DEF TypeOK, ClaimSession, UpdateSessionClaim, smsVars, Call, CallRows, Times
<1> QED
  BY <1>1, <1>3, <1>4, <1>5, <1>6 DEF SessionStep

\* The writing half of a handler keeps every variable in its type.
LEMMA CallStepType ==
  ASSUME TypeOK, NEW call \in calls, CallStep(call)
  PROVE  TypeOK'
<1>0. call \in CallRows
  BY DEF TypeOK
<1>1. CASE CancelSessionWrite(call)
  BY <1>1 DEF TypeOK, CancelSessionWrite, UpdateSessionStatus, claimVars, smsVars,
              SessionStatus
<1>2. CASE ExpireWrite(call)
  BY <1>2 DEF TypeOK, ExpireWrite, UpdateSessionStatus, claimVars, smsVars,
              SessionStatus
<1>3. CASE ClaimCheckoutWrite(call)
  BY <1>0, <1>3 DEF TypeOK, ClaimCheckoutWrite, UpdateSessionClaim, smsVars, CallRows
<1>4. CASE RetryHeld(call)
  BY <1>4 DEF TypeOK, RetryHeld, sessionVars, smsVars, HeldFor
<1> QED
  BY <1>1, <1>2, <1>3, <1>4 DEF CallStep

\* What the steps of verify, holdLate and their callers have in common.
LEMMA FirstCandidate ==
  ASSUME NEW m \in Messages
  PROVE  /\ First(Claimants(m)) \subseteq FindMatchCandidates(m)
         /\ Unclaimed(m) \subseteq FindMatchCandidates(m)
         /\ LateCandidates(m) \subseteq FindMatchCandidates(m)
         /\ FindMatchCandidates(m) \subseteq {s \in Sessions : status[s] = "pending"}
BY DEF First, Claimants, Unclaimed, LateCandidates, Candidates, FindMatchCandidates,
       FindExpiredMatchCandidates

\* Once past the balance check, Process keeps the types of what it has
\* written so far.
LEMMA BalanceAcceptedType ==
  ASSUME TypeOK, NEW m \in Messages, BalanceAccepted(m)
  PROVE  /\ parse' \in [Messages -> {"pending", "parsed"}]
         /\ tracked' \in [Profiles -> Nat \cup {None}]
         /\ work' \subseteq Messages
         /\ UNCHANGED <<now, created, claimVars, smsTime, calls>>
<1> USE ContentAssumption, NoneAssumption
<1>1. Content[m].profile \in Profiles /\ Content[m].balance \in Nat \cup {None}
  BY DEF BalanceAccepted
<1>2. Parse(m)
  BY DEF BalanceAccepted
<1>3. tracked' \in [Profiles -> Nat \cup {None}]
  BY <1>1 DEF BalanceAccepted, TypeOK
<1> QED
  BY <1>2, <1>3 DEF TypeOK, Parse, Finish

\* What verify writes has the type of the tables.
LEMMA VerifyType ==
  ASSUME TypeOK, NEW m \in Messages, NEW s \in Sessions, NEW source \in Sources,
         Verify(m, s, source)
  PROVE  /\ payments' \subseteq PaymentRows
         /\ status' \in [Sessions -> SessionStatus \cup {"none"}]
         /\ review' \in [Sessions -> {"needs_trxid", "late_match", None}]
         /\ match' \in [Messages -> MatchStatus \cup {"none"}]
         /\ matchedTo' \in [Messages -> Sessions \cup {None}]
<1> USE ContentAssumption
<1>1. [session |-> s, sms |-> m, trx |-> Content[m].trx, source |-> source]
        \in PaymentRows
  BY DEF PaymentRows
<1>2. payments' \subseteq PaymentRows
  BY <1>1 DEF TypeOK, Verify, InsertPayment
<1> QED
  BY <1>2 DEF TypeOK, Verify, Classify, SessionStatus, MatchStatus

\* What holdLate writes has the type of the tables.
LEMMA HoldLateType ==
  ASSUME TypeOK, NEW m \in Messages, NEW s \in Sessions, HoldLate(m, s)
  PROVE  /\ payments' \subseteq PaymentRows
         /\ status' \in [Sessions -> SessionStatus \cup {"none"}]
         /\ review' \in [Sessions -> {"needs_trxid", "late_match", None}]
         /\ match' \in [Messages -> MatchStatus \cup {"none"}]
         /\ matchedTo' \in [Messages -> Sessions \cup {None}]
BY DEF TypeOK, HoldLate, Classify, MatchStatus

\* Every way Process ends keeps every variable in its type.
LEMMA ProcessType ==
  ASSUME TypeOK, NEW m \in Messages, Process(m)
  PROVE  TypeOK'
<1>1. CASE ProcessMatched(m)
  BY <1>1 DEF TypeOK, ProcessMatched, Finish, sessionVars, smsVars
<1>2. CASE ProcessDuplicate(m)
  BY <1>2 DEF TypeOK, ProcessDuplicate, Finish, sessionVars, MatchStatus
<1>3. CASE ProcessRejected(m)
  BY <1>3 DEF TypeOK, ProcessRejected, Finish, sessionVars, smsVars
<1>4. CASE ProcessNoProfile(m)
  BY <1>4 DEF TypeOK, ProcessNoProfile, Parse, Finish, Classify, MatchStatus, claimVars
<1>5. CASE ProcessSuspect(m)
  BY <1>5 DEF TypeOK, ProcessSuspect, Parse, Finish, Classify, MatchStatus, claimVars
<1>6. ASSUME BalanceAccepted(m), NEW s \in Sessions, NEW source \in Sources,
             Verify(m, s, source) \/ HoldLate(m, s)
      PROVE  TypeOK'
  <2>1. /\ payments' \subseteq PaymentRows
        /\ status' \in [Sessions -> SessionStatus \cup {"none"}]
        /\ review' \in [Sessions -> {"needs_trxid", "late_match", None}]
        /\ match' \in [Messages -> MatchStatus \cup {"none"}]
        /\ matchedTo' \in [Messages -> Sessions \cup {None}]
    BY <1>6, VerifyType, HoldLateType
  <2> QED
    BY <1>6, <2>1, BalanceAcceptedType DEF TypeOK, claimVars
<1>7. CASE ProcessClaimed(m)
  <2>1. PICK s \in First(Claimants(m)) :
           Verify(m, s, "late_auto") \/ HoldLate(m, s) \/ Verify(m, s, "trxid_claim")
    BY <1>7 DEF ProcessClaimed, VerifyLate
  <2>2. s \in Sessions
    BY FirstCandidate
  <2> QED
    BY <1>6, <1>7, <2>1, <2>2 DEF ProcessClaimed, Sources
<1>8. CASE ProcessUnique(m)
  BY <1>6, <1>8 DEF ProcessUnique, Sources
<1>9. CASE ProcessLate(m)
  BY <1>6, <1>9 DEF ProcessLate, VerifyLate, Sources
<1>10. CASE ProcessHeld(m)
  <2>1. /\ match' \in [Messages -> MatchStatus \cup {"none"}]
        /\ matchedTo' \in [Messages -> Sessions \cup {None}]
        /\ review' \in [Sessions -> {"needs_trxid", "late_match", None}]
        /\ UNCHANGED <<status, payments>>
    BY <1>10 DEF TypeOK, ProcessHeld, Classify, MatchStatus
  <2> QED
    BY <1>10, <2>1, BalanceAcceptedType DEF TypeOK, ProcessHeld, claimVars
<1>11. CASE ProcessUnmatched(m)
  <2>1. /\ match' \in [Messages -> MatchStatus \cup {"none"}]
        /\ matchedTo' \in [Messages -> Sessions \cup {None}]
        /\ UNCHANGED <<status, review, payments>>
    BY <1>11 DEF TypeOK, ProcessUnmatched, Classify, MatchStatus
  <2> QED
    BY <1>11, <2>1, BalanceAcceptedType DEF TypeOK, ProcessUnmatched, claimVars
<1> QED
  BY <1>1, <1>2, <1>3, <1>4, <1>5, <1>7, <1>8, <1>9, <1>10, <1>11 DEF Process

\* Storing, resubmitting or processing an SMS keeps the types.
LEMMA MessageStepType ==
  ASSUME TypeOK, NEW m \in Messages, MessageStep(m)
  PROVE  TypeOK'
<1> USE SettingsAssumption
<1>1. CASE Ingest(m)
  <2>1. PICK t \in 0 .. now : smsTime' = [smsTime EXCEPT ![m] = t]
    BY <1>1 DEF Ingest
  <2>2. t \in Times
    BY <2>1 DEF TypeOK, Times
  <2> QED
    BY <1>1, <2>1, <2>2 DEF TypeOK, Ingest, sessionVars, MatchStatus
<1>2. CASE Resubmit(m)
  BY <1>2 DEF TypeOK, Resubmit, sessionVars, smsVars
<1>3. CASE Process(m)
  BY <1>3, ProcessType
<1> QED
  BY <1>1, <1>2, <1>3 DEF MessageStep

\* Every step of the system, the clock and crashes too, keeps the types.
LEMMA NextType == TypeOK /\ [Next]_vars => TypeOK'
<1> SUFFICES ASSUME TypeOK, [Next]_vars PROVE TypeOK'
  OBVIOUS
<1>1. CASE Crash
  BY <1>1 DEF TypeOK, Crash, sessionVars, smsVars
<1>2. CASE Tick
  BY <1>2, SettingsAssumption DEF TypeOK, Tick, Times, sessionVars, smsVars
<1>3. CASE UNCHANGED vars
  BY <1>3 DEF TypeOK, vars, sessionVars, smsVars
<1> QED
  BY <1>1, <1>2, <1>3, SessionStepType, CallStepType, MessageStepType DEF Next

\* Every variable keeps its type, in every execution.
THEOREM TypeCorrect == Spec => []TypeOK
<1>1. Init => TypeOK
  BY InitIInv DEF IInv
<1> QED
  BY <1>1, NextType, PTL DEF Spec

-----------------------------------------------------------------------------
(* The settlement invariant.                                               *)

Settling == PaidRowsParsed /\ OneParsedRowPerTrx /\ SettledOnce /\ TablesAgree

\* Steps that touch neither the SMS rows' classification nor the payments,
\* and neither make a paid session pending or flagged nor an unpaid one
\* succeeded.
LEMMA QuietStep ==
  ASSUME Settling, UNCHANGED <<parse, match, matchedTo, payments>>,
         \A s \in Sessions :
           /\ status'[s] = "succeeded" => status[s] = "succeeded"
           /\ status'[s] \in {"none", "pending"} => status[s] \in {"none", "pending"}
           /\ Paid(s) => review'[s] = review[s]
  PROVE  Settling'
<1>1. PaidRowsParsed' /\ OneParsedRowPerTrx' /\ SettledOnce'
  BY DEF Settling, PaidRowsParsed, OneParsedRowPerTrx, SettledOnce, ParsedTwins
<1>2. TablesAgree'
  BY DEF Settling, TablesAgree, Paid
<1> QED
  BY <1>1, <1>2 DEF Settling

\* Creating or reading a session settles nothing and unsettles nothing.
LEMMA SessionStepSettling ==
  ASSUME TypeOK, Settling, NEW s \in Sessions, SessionStep(s)
  PROVE  Settling'
<1>1. CASE CreateSession(s)
  BY <1>1, QuietStep DEF CreateSession, smsVars, TypeOK
<1>2. ASSUME UNCHANGED <<status, review, smsVars, payments>>
      PROVE  Settling'
  BY <1>2, QuietStep DEF smsVars
<1>3. CASE CancelSessionRead(s) \/ ExpireRead(s)
  BY <1>2, <1>3 DEF CancelSessionRead, ExpireRead, Begin, sessionVars
<1>4. CASE \E sender \in Senders, trx \in TrxIds \cup {None} :
             ClaimCheckoutRead(s, sender, trx)
  BY <1>2, <1>4 DEF ClaimCheckoutRead, Begin, sessionVars
<1>5. CASE \E sender \in Senders, trx \in TrxIds : ClaimSession(s, sender, trx)
  BY <1>2, <1>5 DEF ClaimSession, UpdateSessionClaim
<1> QED
  BY <1>1, <1>3, <1>4, <1>5 DEF SessionStep

\* A handler's write by id may overwrite a status, never a payment.
LEMMA CallStepSettling ==
  ASSUME TypeOK, Settling, NEW call \in calls, CallStep(call)
  PROVE  Settling'
<1>1. ASSUME NEW new \in {"canceled", "expired"}, UpdateSessionStatus(call, new)
      PROVE  Settling'
  BY <1>1, QuietStep DEF UpdateSessionStatus, smsVars, TypeOK
<1>2. CASE CancelSessionWrite(call) \/ ExpireWrite(call)
  BY <1>1, <1>2 DEF CancelSessionWrite, ExpireWrite
<1>3. CASE ClaimCheckoutWrite(call)
  BY <1>3, QuietStep DEF ClaimCheckoutWrite, UpdateSessionClaim, smsVars
<1>4. CASE RetryHeld(call)
  BY <1>4, QuietStep DEF RetryHeld, sessionVars, smsVars
<1> QED
  BY <1>2, <1>3, <1>4 DEF CallStep

\* A row can enter the parsed ones when the unique index sees no twin.
LEMMA ParseSettling ==
  ASSUME TypeOK, Settling, NEW m \in Messages, Parse(m)
  PROVE  /\ PaidRowsParsed => \A p \in payments : parse'[p.sms] = "parsed"
         /\ \A o \in Messages : parse'[o] = "parsed" => ParsedTwins(o)' = {}
         /\ \A o \in Messages : ParsedTwins(o) # {} => ParsedTwins(o)' # {}
<1>1. \A o \in Messages : parse'[o] = IF o = m THEN "parsed" ELSE parse[o]
  BY DEF Parse, TypeOK
<1>2. \A o \in Messages : parse[o] = "parsed" => parse'[o] = "parsed"
  BY <1>1
<1>3. \A p \in payments : p.sms \in Messages
  BY DEF TypeOK, PaymentRows
<1>4. ASSUME NEW o \in Messages, parse'[o] = "parsed",
             NEW u \in Messages \ {o}, parse'[u] = "parsed", SameTrx(o, u)
      PROVE  FALSE
  <2>1. CASE o = m
    BY <1>1, <1>4, <2>1 DEF Parse, ParsedTwins
  <2>2. CASE u = m
    BY <1>1, <1>4, <2>2 DEF Parse, ParsedTwins, SameTrx
  <2>3. CASE o # m /\ u # m
    BY <1>1, <1>4, <2>3 DEF Settling, OneParsedRowPerTrx, ParsedTwins
  <2> QED
    BY <2>1, <2>2, <2>3
<1>5. \A o \in Messages : ParsedTwins(o) \subseteq ParsedTwins(o)'
  BY <1>2 DEF ParsedTwins, SameTrx
<1>6. \A o \in Messages : parse'[o] = "parsed" => ParsedTwins(o)' = {}
  BY <1>4 DEF ParsedTwins, SameTrx
<1> QED
  BY <1>2, <1>3, <1>5, <1>6 DEF Settling, PaidRowsParsed

\* An SMS that is not matched yet has paid for nothing.
LEMMA NotMatchedNotPaid ==
  ASSUME TypeOK, Settling, NEW m \in Messages, ~AlreadyMatched(m)
  PROVE  \A p \in payments : p.sms # m
<1> SUFFICES ASSUME NEW p \in payments, p.sms = m PROVE FALSE
  OBVIOUS
<1>1. p.session \in Sessions
  BY DEF TypeOK, PaymentRows
<1>2. match[m] = "matched" /\ matchedTo[m] = p.session
  BY DEF Settling, TablesAgree
<1> QED
  BY <1>1, <1>2, NoneAssumption DEF AlreadyMatched

\* A parsing that credits nothing: m goes to a class of its own, and only
\* pending sessions are flagged.
LEMMA ClassifySettling ==
  ASSUME TypeOK, Settling, NEW m \in Messages, Parse(m),
         NEW new \in {"unmatched", "suspect", "held"}, Classify(m, new, None),
         UNCHANGED <<status, payments>>,
         \A s \in Sessions : status[s] # "pending" => review'[s] = review[s]
  PROVE  Settling'
<1>1. \A p \in payments : p.sms # m /\ p.sms \in Messages
  BY NotMatchedNotPaid DEF Parse, TypeOK, PaymentRows
<1>2. \A o \in Messages : /\ o # m => match'[o] = match[o] /\ matchedTo'[o] = matchedTo[o]
                         /\ match'[m] = new
  BY DEF Classify, TypeOK
<1>3. PaidRowsParsed'
  BY ParseSettling DEF Settling, PaidRowsParsed
<1>4. OneParsedRowPerTrx'
  BY <1>2, ParseSettling DEF Settling, OneParsedRowPerTrx
<1>5. SettledOnce'
  BY DEF Settling, SettledOnce
<1>6. TablesAgree'
  BY <1>1, <1>2 DEF Settling, TablesAgree, Paid
<1> QED
  BY <1>3, <1>4, <1>5, <1>6 DEF Settling

\* The heart of the matter: crediting a parsed, unmatched SMS to a pending
\* session.
LEMMA VerifySettling ==
  ASSUME TypeOK, Settling, NEW m \in Messages, Parse(m),
         NEW s \in Sessions, status[s] = "pending",
         NEW source \in Sources, Verify(m, s, source)
  PROVE  Settling'
<1> DEFINE row == [session |-> s, sms |-> m, trx |-> Content[m].trx, source |-> source]
<1>1. \A p \in payments : p.sms # m /\ p.sms \in Messages
  BY NotMatchedNotPaid DEF Parse, TypeOK, PaymentRows
<1>2. \A p \in payments : p.session # s
  BY DEF Settling, TablesAgree, Paid
<1>3. payments' = payments \cup {row}
  BY <1>2 DEF Verify, InsertPayment
<1>4. \A o \in Messages : /\ o # m => match'[o] = match[o] /\ matchedTo'[o] = matchedTo[o]
                         /\ match'[m] = "matched" /\ matchedTo'[m] = s
  BY DEF Verify, Classify, TypeOK
<1>5. \A t \in Sessions :
        /\ status'[t] = IF t = s THEN "succeeded" ELSE status[t]
        /\ review'[t] = IF t = s THEN None ELSE review[t]
  BY DEF Verify, TypeOK
<1>6. parse'[m] = "parsed"
  BY DEF Parse, TypeOK
<1>7. PaidRowsParsed'
  BY <1>3, <1>6, ParseSettling DEF Settling, PaidRowsParsed
<1>8. OneParsedRowPerTrx'
  BY <1>4, ParseSettling DEF Settling, OneParsedRowPerTrx
<1>9. \A p \in payments : ~SameTrx(p.sms, m) /\ ~SameTrx(m, p.sms)
  <2> SUFFICES ASSUME NEW p \in payments, SameTrx(m, p.sms) PROVE FALSE
    BY DEF SameTrx
  <2>1. p.sms \in ParsedTwins(m)
    BY <1>1 DEF ParsedTwins, Settling, PaidRowsParsed
  <2> QED
    BY <2>1 DEF Parse
<1>10. SettledOnce'
  BY <1>1, <1>2, <1>3, <1>9 DEF Settling, SettledOnce, SameTrx
<1>11. \A t \in Sessions : Paid(t)' <=> (Paid(t) \/ t = s)
  <2>1. row \in payments' /\ row.session = s
    BY <1>3
  <2>2. \A p \in payments' : p \in payments \/ p.session = s
    BY <1>3
  <2>3. \A p \in payments : p \in payments'
    BY <1>3
  <2> HIDE DEF row
  <2> QED
    BY <2>1, <2>2, <2>3 DEF Paid
<1>12. TablesAgree'
  <2>1. \A p \in payments' : match'[p.sms] = "matched" /\ matchedTo'[p.sms] = p.session
    BY <1>1, <1>3, <1>4 DEF Settling, TablesAgree
  <2>2. ASSUME NEW o \in Messages, match'[o] = "matched"
        PROVE  \E p \in payments' : p.sms = o /\ p.session = matchedTo'[o]
    <3>1. CASE o = m
      <4>1. row \in payments' /\ row.sms = m /\ row.session = s
        BY <1>3
      <4> HIDE DEF row
      <4> QED
        BY <1>4, <3>1, <4>1
    <3>2. CASE o # m
      <4>1. PICK p \in payments : p.sms = o /\ p.session = matchedTo[o]
        BY <1>4, <2>2, <3>2 DEF Settling, TablesAgree
      <4> QED
        BY <1>3, <1>4, <3>2, <4>1
    <3> QED
      BY <3>1, <3>2
  <2>3. \A t \in Sessions : status'[t] = "succeeded" => Paid(t)'
    BY <1>5, <1>11 DEF Settling, TablesAgree
  <2>4. \A t \in Sessions : Paid(t)' =>
          status'[t] \notin {"none", "pending"} /\ review'[t] = None
    BY <1>5, <1>11 DEF Settling, TablesAgree
  <2> QED
    BY <2>1, <2>2, <2>3, <2>4 DEF TablesAgree
<1> QED
  BY <1>7, <1>8, <1>10, <1>12 DEF Settling

\* holdLate credits nothing; verify credits the SMS to a pending session.
LEMMA CandidateSettling ==
  ASSUME TypeOK, Settling, NEW m \in Messages, BalanceAccepted(m),
         NEW s \in FindMatchCandidates(m), NEW source \in Sources,
         Verify(m, s, source) \/ HoldLate(m, s)
  PROVE  Settling'
<1>1. s \in Sessions /\ status[s] = "pending"
  BY DEF FindMatchCandidates
<1>2. Parse(m)
  BY DEF BalanceAccepted
<1>3. CASE Verify(m, s, source)
  BY <1>1, <1>2, <1>3, VerifySettling
<1>4. CASE HoldLate(m, s)
  <2>1. \A t \in Sessions : status[t] # "pending" => review'[t] = review[t]
    BY <1>1, <1>4 DEF HoldLate, TypeOK
  <2> QED
    BY <1>2, <1>4, <2>1, ClassifySettling DEF HoldLate
<1> QED
  BY <1>3, <1>4

\* Every way Process ends keeps the tables consistent.
LEMMA ProcessSettling ==
  ASSUME TypeOK, Settling, NEW m \in Messages, Process(m)
  PROVE  Settling'
<1>1. CASE ProcessMatched(m)
  BY <1>1, QuietStep DEF ProcessMatched, sessionVars, smsVars
<1>2. CASE ProcessRejected(m)
  BY <1>2, QuietStep DEF ProcessRejected, sessionVars, smsVars
<1>3. CASE ProcessDuplicate(m)
  <2>1. \A p \in payments : p.sms # m /\ p.sms \in Messages
    BY <1>3, NotMatchedNotPaid DEF ProcessDuplicate, TypeOK, PaymentRows
  <2>2. \A o \in Messages : /\ o # m => match'[o] = match[o] /\ matchedTo'[o] = matchedTo[o]
                           /\ match'[m] = "duplicate"
    BY <1>3 DEF ProcessDuplicate, TypeOK
  <2>3. UNCHANGED <<parse, status, review, payments>>
    BY <1>3 DEF ProcessDuplicate, sessionVars
  <2>4. PaidRowsParsed' /\ SettledOnce'
    BY <2>3 DEF Settling, PaidRowsParsed, SettledOnce
  <2>5. OneParsedRowPerTrx'
    BY <1>3, <2>2, <2>3 DEF Settling, OneParsedRowPerTrx, ParsedTwins, ProcessDuplicate
  <2>6. TablesAgree'
    BY <2>1, <2>2, <2>3 DEF Settling, TablesAgree, Paid
  <2> QED
    BY <2>4, <2>5, <2>6 DEF Settling
<1>4. CASE ProcessNoProfile(m)
  BY <1>4, ClassifySettling DEF ProcessNoProfile
<1>5. CASE ProcessSuspect(m)
  BY <1>5, ClassifySettling DEF ProcessSuspect
<1>6. CASE ProcessClaimed(m)
  <2>1. PICK s \in First(Claimants(m)) :
           Verify(m, s, "late_auto") \/ HoldLate(m, s) \/ Verify(m, s, "trxid_claim")
    BY <1>6 DEF ProcessClaimed, VerifyLate
  <2> QED
    BY <1>6, <2>1, FirstCandidate, CandidateSettling DEF ProcessClaimed, Sources
<1>7. CASE ProcessUnique(m)
  <2>1. PICK s \in Sessions : Unclaimed(m) = {s} /\ Verify(m, s, "auto")
    BY <1>7 DEF ProcessUnique
  <2> QED
    BY <1>7, <2>1, FirstCandidate, CandidateSettling DEF ProcessUnique, Sources
<1>8. CASE ProcessHeld(m)
  <2>1. \A s \in Sessions : status[s] # "pending" => review'[s] = review[s]
    BY <1>8, FirstCandidate DEF ProcessHeld
  <2> QED
    BY <1>8, <2>1, ClassifySettling DEF ProcessHeld, BalanceAccepted
<1>9. CASE ProcessLate(m)
  <2>1. PICK s \in Sessions : LateCandidates(m) = {s} /\ VerifyLate(m, s)
    BY <1>9 DEF ProcessLate
  <2> QED
    BY <1>9, <2>1, FirstCandidate, CandidateSettling
    DEF ProcessLate, VerifyLate, Sources
<1>10. CASE ProcessUnmatched(m)
  BY <1>10, ClassifySettling DEF ProcessUnmatched, BalanceAccepted
<1> QED
  BY <1>1, <1>2, <1>3, <1>4, <1>5, <1>6, <1>7, <1>8, <1>9, <1>10 DEF Process

\* A row that is only stored has paid for nothing.
LEMMA MessageStepSettling ==
  ASSUME TypeOK, Settling, NEW m \in Messages, MessageStep(m)
  PROVE  Settling'
<1>1. CASE Ingest(m)
  <2>1. \A p \in payments : p.sms # m /\ p.sms \in Messages
    BY <1>1, NotMatchedNotPaid DEF Ingest, AlreadyMatched, TypeOK, PaymentRows
  <2>2. \A o \in Messages : o # m => match'[o] = match[o]
    BY <1>1 DEF Ingest, TypeOK
  <2>3. match'[m] = "unmatched" /\ UNCHANGED <<parse, matchedTo, status, review, payments>>
    BY <1>1 DEF Ingest, TypeOK, sessionVars
  <2>4. PaidRowsParsed' /\ SettledOnce'
    BY <2>3 DEF Settling, PaidRowsParsed, SettledOnce
  <2>5. OneParsedRowPerTrx'
    BY <2>2, <2>3 DEF Settling, OneParsedRowPerTrx, ParsedTwins
  <2>6. TablesAgree'
    BY <2>1, <2>2, <2>3 DEF Settling, TablesAgree, Paid
  <2> QED
    BY <2>4, <2>5, <2>6 DEF Settling
<1>2. CASE Resubmit(m)
  BY <1>2, QuietStep DEF Resubmit, sessionVars, smsVars
<1> QED
  BY <1>1, <1>2, ProcessSettling DEF MessageStep

\* A row, once created, stays; so a call keeps its session.
LEMMA NextCallsHaveSession ==
  ASSUME TypeOK, CallsHaveSession, [Next]_vars
  PROVE  CallsHaveSession'
<1> SUFFICES ASSUME NEW c \in calls' PROVE status'[c.session] # "none"
  BY DEF CallsHaveSession
<1>1. ASSUME \A s \in Sessions : status[s] # "none" => status'[s] # "none",
             c \in calls \/ status[c.session] # "none", c.session \in Sessions
      PROVE  status'[c.session] # "none"
  BY <1>1 DEF CallsHaveSession
<1>2. \A call \in calls : call.session \in Sessions
  BY DEF TypeOK, CallRows
<1>3. ASSUME UNCHANGED status, calls' \subseteq calls
      PROVE  status'[c.session] # "none"
  BY <1>1, <1>2, <1>3
<1>4. ASSUME NEW s \in Sessions, SessionStep(s)
      PROVE  status'[c.session] # "none"
  <2>1. CASE CreateSession(s)
    BY <1>1, <1>2, <2>1 DEF CreateSession, TypeOK
  <2>2. ASSUME NEW op, NEW sender, NEW trx, UNCHANGED status, status[s] # "none",
               calls' = calls \cup {Call(op, s, sender, trx)}
        PROVE  status'[c.session] # "none"
    BY <1>1, <1>2, <2>2 DEF Call
  <2>3. CASE CancelSessionRead(s) \/ ExpireRead(s)
    BY <2>2, <2>3 DEF CancelSessionRead, ExpireRead, Begin, sessionVars
  <2>4. CASE \E sender \in Senders, trx \in TrxIds \cup {None} :
               ClaimCheckoutRead(s, sender, trx)
    BY <2>2, <2>4 DEF ClaimCheckoutRead, Begin, sessionVars
  <2>5. CASE \E sender \in Senders, trx \in TrxIds : ClaimSession(s, sender, trx)
    BY <2>2, <2>5 DEF ClaimSession, UpdateSessionClaim
  <2> QED
    BY <1>4, <2>1, <2>3, <2>4, <2>5 DEF SessionStep
<1>5. ASSUME NEW call \in calls, CallStep(call)
      PROVE  status'[c.session] # "none"
  <2>1. ASSUME NEW new \in {"canceled", "expired"}, UpdateSessionStatus(call, new)
        PROVE  status'[c.session] # "none"
    BY <1>1, <1>2, <2>1 DEF UpdateSessionStatus, TypeOK
  <2>2. CASE CancelSessionWrite(call) \/ ExpireWrite(call)
    BY <2>1, <2>2 DEF CancelSessionWrite, ExpireWrite
  <2>3. CASE ClaimCheckoutWrite(call)
    BY <1>3, <2>3 DEF ClaimCheckoutWrite, UpdateSessionClaim
  <2>4. CASE RetryHeld(call)
    BY <1>3, <2>4 DEF RetryHeld, sessionVars
  <2> QED
    BY <1>5, <2>2, <2>3, <2>4 DEF CallStep
<1>6. ASSUME NEW m \in Messages, MessageStep(m)
      PROVE  status'[c.session] # "none"
  <2>1. CASE Ingest(m) \/ Resubmit(m)
    BY <1>3, <2>1 DEF Ingest, Resubmit, sessionVars
  <2>2. CASE ProcessMatched(m) \/ ProcessDuplicate(m) \/ ProcessRejected(m)
    BY <1>3, <2>2 DEF ProcessMatched, ProcessDuplicate, ProcessRejected, sessionVars
  <2>3. CASE ProcessNoProfile(m) \/ ProcessSuspect(m)
    BY <1>3, <2>3 DEF ProcessNoProfile, ProcessSuspect, Parse
  <2>4. ASSUME BalanceAccepted(m), UNCHANGED status
        PROVE  status'[c.session] # "none"
    BY <1>3, <2>4 DEF BalanceAccepted, Parse
  <2>5. CASE ProcessHeld(m) \/ ProcessUnmatched(m)
    BY <2>4, <2>5 DEF ProcessHeld, ProcessUnmatched
  <2>6. ASSUME BalanceAccepted(m), NEW s \in Sessions, NEW source,
               Verify(m, s, source) \/ HoldLate(m, s)
        PROVE  status'[c.session] # "none"
    BY <1>1, <1>2, <2>4, <2>6 DEF Verify, HoldLate, BalanceAccepted, Parse, TypeOK
  <2>7. CASE ProcessClaimed(m)
    BY <2>6, <2>7, FirstCandidate DEF ProcessClaimed, VerifyLate
  <2>8. CASE ProcessUnique(m) \/ ProcessLate(m)
    BY <2>6, <2>8 DEF ProcessUnique, ProcessLate, VerifyLate
  <2> QED
    BY <1>6, <2>1, <2>2, <2>3, <2>5, <2>7, <2>8 DEF MessageStep, Process
<1>7. CASE Crash \/ Tick \/ UNCHANGED vars
  BY <1>3, <1>7 DEF Crash, Tick, vars, sessionVars
<1> QED
  BY <1>4, <1>5, <1>6, <1>7 DEF Next

\* The inductive invariant is kept by every step.
LEMMA NextIInv == IInv /\ [Next]_vars => IInv'
<1> SUFFICES ASSUME TypeOK, Settling, CallsHaveSession, [Next]_vars
             PROVE  TypeOK' /\ Settling' /\ CallsHaveSession'
  BY DEF IInv, Settling
<1>1. ASSUME Crash PROVE Settling'
  BY <1>1, QuietStep DEF Crash, sessionVars, smsVars
<1>2. ASSUME Tick PROVE Settling'
  BY <1>2, QuietStep DEF Tick, sessionVars, smsVars
<1>3. ASSUME UNCHANGED vars PROVE Settling'
  BY <1>3, QuietStep DEF vars, sessionVars, smsVars
<1>4. Settling'
  BY <1>1, <1>2, <1>3, SessionStepSettling, CallStepSettling, MessageStepSettling
  DEF Next
<1> QED
  BY <1>4, NextType, NextCallsHaveSession

\* The inductive invariant holds in every state the system can reach.
THEOREM Invariance == Spec => []IInv
BY InitIInv, NextIInv, PTL DEF Spec

\* A session is paid at most once, and an SMS, or a TrxID of one provider,
\* pays for at most one session: in every execution of the engine and the
\* handlers, whatever is retried, claimed, canceled or lost in a crash.
THEOREM NothingSettledTwice == Spec => []SettledOnce
<1>1. IInv => SettledOnce
  BY DEF IInv
<1> QED
  BY <1>1, Invariance, PTL

\* The SMS, session and payment tables always tell the same story.
THEOREM TablesConsistent == Spec => []TablesAgree
<1>1. IInv => TablesAgree
  BY DEF IInv
<1> QED
  BY <1>1, Invariance, PTL

\* At most one parsed row per provider and TrxID, and every duplicate has one.
THEOREM TrxDeduplicated == Spec => []OneParsedRowPerTrx
<1>1. IInv => OneParsedRowPerTrx
  BY DEF IInv
<1> QED
  BY <1>1, Invariance, PTL

-----------------------------------------------------------------------------
(* Refinement: the engine implements Settlement.                           *)

phaseBar == [s \in Sessions |-> Phase(s)]
settledBar == {<<p.sms, p.session>> : p \in payments}

\* A step that leaves the payments and the phase of every session alone.
LEMMA Stutter ==
  ASSUME UNCHANGED payments, \A s \in Sessions : Phase(s)' = Phase(s)
  PROVE  UNCHANGED <<phaseBar, settledBar>>
BY DEF phaseBar, settledBar

\* A step that moves one session, s, from one phase to another.
LEMMA PhaseStep ==
  ASSUME TypeOK, NEW s \in Sessions, NEW new \in SessionStatus,
         status' = [status EXCEPT ![s] = new]
  PROVE  phaseBar' = [phaseBar EXCEPT ![s] = IF new = "pending" THEN "open" ELSE "closed"]
<1>1. \A t \in Sessions : status'[t] = IF t = s THEN new ELSE status[t]
  BY DEF TypeOK
<1>2. \A t \in Sessions :
        Phase(t)' = IF t = s THEN (IF new = "pending" THEN "open" ELSE "closed")
                    ELSE Phase(t)
  BY <1>1 DEF Phase, SessionStatus
<1> QED
  BY <1>2 DEF phaseBar

\* Crediting an SMS is a settlement.
LEMMA VerifyRefines ==
  ASSUME IInv, NEW m \in Messages, Parse(m),
         NEW s \in Sessions, status[s] = "pending",
         NEW source \in Sources, Verify(m, s, source)
  PROVE  Abstract!Settle(m, s)
<1> DEFINE row == [session |-> s, sms |-> m, trx |-> Content[m].trx, source |-> source]
<1>1. \A p \in payments : p.sms # m
  BY NotMatchedNotPaid DEF Parse, IInv, Settling
<1>2. payments' = payments \cup {row}
  BY DEF Verify, InsertPayment, IInv, TablesAgree, Paid
<1>3. settledBar' = settledBar \cup {<<m, s>>}
  <2>1. row.sms = m /\ row.session = s
    OBVIOUS
  <2> HIDE DEF row
  <2> QED
    BY <1>2, <2>1 DEF settledBar
<1>4. \A t \in Sessions : <<m, t>> \notin settledBar
  BY <1>1 DEF settledBar
<1>5. phaseBar' = [phaseBar EXCEPT ![s] = "closed"]
  BY PhaseStep DEF Verify, IInv, SessionStatus
<1>6. phaseBar[s] = "open"
  BY DEF phaseBar, Phase
<1> QED
  BY <1>3, <1>4, <1>5, <1>6 DEF Abstract!Settle, phaseBar, settledBar

\* A canceled or expired session is given up, or was closed already.
LEMMA GiveUpRefines ==
  ASSUME TypeOK, NEW call \in calls, NEW new \in {"canceled", "expired"},
         UpdateSessionStatus(call, new), status[call.session] # "none"
  PROVE  Abstract!GiveUp(call.session) \/ UNCHANGED <<phaseBar, settledBar>>
<1> DEFINE s == call.session
<1>1. s \in Sessions
  BY DEF TypeOK, CallRows
<1>2. phaseBar' = [phaseBar EXCEPT ![s] = "closed"]
  BY <1>1, PhaseStep DEF UpdateSessionStatus, SessionStatus
<1>3. settledBar' = settledBar
  BY DEF UpdateSessionStatus, settledBar
<1>4. CASE status[s] = "pending"
  <2>1. phaseBar[s] = "open"
    BY <1>1, <1>4 DEF phaseBar, Phase
  <2> QED
    BY <1>2, <1>3, <2>1 DEF Abstract!GiveUp, phaseBar, settledBar
<1>5. CASE status[s] # "pending"
  <2>1. phaseBar[s] = "closed"
    BY <1>1, <1>5 DEF phaseBar, Phase
  <2>2. phaseBar' = phaseBar
    BY <1>2, <2>1 DEF phaseBar
  <2> QED
    BY <1>3, <2>2
<1> QED
  BY <1>4, <1>5

\* Every outcome of Process is a settlement or changes nothing Settlement sees.
LEMMA ProcessRefines ==
  ASSUME IInv, NEW m \in Messages, Process(m)
  PROVE  (\E s \in Sessions : Abstract!Settle(m, s)) \/ UNCHANGED <<phaseBar, settledBar>>
<1>1. ASSUME UNCHANGED <<status, payments>>
      PROVE  UNCHANGED <<phaseBar, settledBar>>
  BY <1>1, Stutter DEF Phase
<1>2. CASE ProcessMatched(m) \/ ProcessDuplicate(m) \/ ProcessRejected(m)
  BY <1>1, <1>2 DEF ProcessMatched, ProcessDuplicate, ProcessRejected, sessionVars
<1>3. CASE ProcessNoProfile(m) \/ ProcessSuspect(m) \/ ProcessHeld(m) \/ ProcessUnmatched(m)
  BY <1>1, <1>3 DEF ProcessNoProfile, ProcessSuspect, ProcessHeld, ProcessUnmatched
<1>4. ASSUME BalanceAccepted(m), NEW s \in FindMatchCandidates(m), NEW source \in Sources,
             Verify(m, s, source) \/ HoldLate(m, s)
      PROVE  (\E t \in Sessions : Abstract!Settle(m, t)) \/ UNCHANGED <<phaseBar, settledBar>>
  <2>1. s \in Sessions /\ status[s] = "pending" /\ Parse(m)
    BY <1>4 DEF FindMatchCandidates, BalanceAccepted
  <2>2. CASE Verify(m, s, source)
    BY <2>1, <2>2, VerifyRefines
  <2>3. CASE HoldLate(m, s)
    BY <1>1, <2>3 DEF HoldLate
  <2> QED
    BY <1>4, <2>2, <2>3
<1>5. CASE ProcessClaimed(m)
  <2>1. PICK s \in First(Claimants(m)) :
           Verify(m, s, "late_auto") \/ HoldLate(m, s) \/ Verify(m, s, "trxid_claim")
    BY <1>5 DEF ProcessClaimed, VerifyLate
  <2> QED
    BY <1>4, <1>5, <2>1, FirstCandidate DEF ProcessClaimed, Sources
<1>6. CASE ProcessUnique(m)
  <2>1. PICK s \in Sessions : Unclaimed(m) = {s} /\ Verify(m, s, "auto")
    BY <1>6 DEF ProcessUnique
  <2> QED
    BY <1>4, <1>6, <2>1, FirstCandidate DEF ProcessUnique, Sources
<1>7. CASE ProcessLate(m)
  <2>1. PICK s \in Sessions : LateCandidates(m) = {s} /\ VerifyLate(m, s)
    BY <1>7 DEF ProcessLate
  <2> QED
    BY <1>4, <1>7, <2>1, FirstCandidate DEF ProcessLate, VerifyLate, Sources
<1> QED
  BY <1>2, <1>3, <1>5, <1>6, <1>7 DEF Process

\* Every step opens, gives up or settles one session, or changes none.
LEMMA NextRefines ==
  ASSUME IInv, [Next]_vars
  PROVE  Abstract!Next \/ UNCHANGED <<phaseBar, settledBar>>
<1>1. ASSUME UNCHANGED <<status, payments>>
      PROVE  UNCHANGED <<phaseBar, settledBar>>
  BY <1>1, Stutter DEF Phase
<1>2. ASSUME NEW s \in Sessions, CreateSession(s)
      PROVE  Abstract!Open(s)
  <2>1. phaseBar' = [phaseBar EXCEPT ![s] = "open"]
    BY <1>2, PhaseStep DEF CreateSession, IInv, SessionStatus
  <2>2. phaseBar[s] = "none"
    BY <1>2 DEF CreateSession, phaseBar, Phase
  <2>3. settledBar' = settledBar
    BY <1>2 DEF CreateSession, settledBar
  <2> QED
    BY <2>1, <2>2, <2>3 DEF Abstract!Open, phaseBar, settledBar
<1>3. ASSUME NEW s \in Sessions, SessionStep(s)
      PROVE  Abstract!Open(s) \/ UNCHANGED <<phaseBar, settledBar>>
  BY <1>1, <1>2, <1>3 DEF SessionStep, CancelSessionRead, ExpireRead,
     ClaimCheckoutRead, ClaimSession, Begin, UpdateSessionClaim, sessionVars
<1>4. ASSUME NEW call \in calls, CallStep(call)
      PROVE  Abstract!GiveUp(call.session) \/ UNCHANGED <<phaseBar, settledBar>>
  <2>1. CASE CancelSessionWrite(call) \/ ExpireWrite(call)
    BY <2>1, GiveUpRefines DEF CancelSessionWrite, ExpireWrite, IInv, CallsHaveSession
  <2>2. CASE ClaimCheckoutWrite(call) \/ RetryHeld(call)
    BY <1>1, <2>2 DEF ClaimCheckoutWrite, RetryHeld, UpdateSessionClaim, sessionVars
  <2> QED
    BY <1>4, <2>1, <2>2 DEF CallStep
<1>5. \A call \in calls : call.session \in Sessions
  BY DEF IInv, TypeOK, CallRows
<1>6. ASSUME NEW m \in Messages, MessageStep(m)
      PROVE  (\E s \in Sessions : Abstract!Settle(m, s)) \/ UNCHANGED <<phaseBar, settledBar>>
  <2>1. CASE Ingest(m) \/ Resubmit(m)
    BY <1>1, <2>1 DEF Ingest, Resubmit, sessionVars
  <2> QED
    BY <1>6, <2>1, ProcessRefines DEF MessageStep
<1>7. CASE Crash \/ Tick \/ UNCHANGED vars
  BY <1>1, <1>7 DEF Crash, Tick, vars, sessionVars
<1> QED
  BY <1>3, <1>4, <1>5, <1>6, <1>7 DEF Next, Abstract!Next

\* The engine and the handlers implement Settlement.
THEOREM Refinement == Spec => ImplementsSettlement
<1>1. Init => Abstract!Init
  BY DEF Init, Abstract!Init, Phase
<1>2. IInv /\ [Next]_vars => [Abstract!Next]_(Abstract!vars)
  BY NextRefines DEF Abstract!vars, phaseBar, settledBar
<1> QED
  BY <1>1, <1>2, Invariance, PTL DEF Spec, ImplementsSettlement, Abstract!Spec

-----------------------------------------------------------------------------
(* Balances.                                                               *)

\* Once known, the tracked balance of a profile stays known and never falls
\* below the opening one.
TrackedGrows ==
  \A p \in Profiles :
    /\ tracked[p] # None <=> OpeningBalance[p] # None
    /\ tracked[p] # None => OpeningBalance[p] <= tracked[p]

\* Process moves the tracked balance of a profile only upwards, and to a
\* reported balance only by the amount of its SMS.
LEMMA BalanceStep ==
  ASSUME TypeOK, NEW m \in Messages, BalanceAccepted(m), NEW p \in Profiles
  PROVE  /\ tracked'[p] \in Nat \cup {None}
         /\ tracked[p] # None <=> tracked'[p] # None
         /\ tracked[p] # None => tracked[p] <= tracked'[p]
         /\ (BalanceChecked(m) /\ Content[m].profile = p) =>
              /\ tracked[p] # None
              /\ tracked'[p] = Content[m].balance
              /\ tracked'[p] = tracked[p] + Content[m].amount
<1> USE ContentAssumption, NoneAssumption
<1>1. Content[m].balance # None => Content[m].balance \in Nat /\ Content[m].amount \in Nat
  OBVIOUS
<1>2. tracked[p] # None => tracked[p] \in Nat
  BY DEF TypeOK
<1>3. tracked'[p] \in Nat \cup {None}
  BY BalanceAcceptedType
<1> QED
  BY <1>1, <1>2, <1>3 DEF BalanceAccepted, BalanceChecked, BalanceFits, TypeOK

\* Whatever becomes of an accepted SMS, the tracked balances only grow.
LEMMA TrackedStep ==
  ASSUME TypeOK, TrackedGrows, NEW m \in Messages, BalanceAccepted(m)
  PROVE  TrackedGrows'
<1> SUFFICES ASSUME NEW p \in Profiles
             PROVE  /\ tracked'[p] # None <=> OpeningBalance[p] # None
                    /\ tracked'[p] # None => OpeningBalance[p] <= tracked'[p]
  BY DEF TrackedGrows
<1>1. OpeningBalance[p] # None => OpeningBalance[p] \in Nat
  BY ContentAssumption
<1>2. tracked[p] # None => tracked[p] \in Nat
  BY DEF TypeOK
<1>3. tracked'[p] # None => tracked'[p] \in Nat
  BY BalanceStep
<1> QED
  BY <1>1, <1>2, <1>3, BalanceStep DEF TrackedGrows

\* What a step adds to the payments, if anything.
PaymentsGrow(m) ==
  \/ payments' = payments
  \/ \E row \in PaymentRows : row.sms = m /\ payments' = payments \cup {row}

\* A credited SMS always has a payment profile.
PaidHaveProfile == \A p \in payments : Content[p.sms].profile # None

\* The step of the balance that an SMS stands for is a step of numbers.
LEMMA CheckedNumbers ==
  ASSUME NEW m \in Messages, BalanceChecked(m)
  PROVE  Content[m].balance \in Nat /\ Content[m].amount \in Nat
BY ContentAssumption DEF BalanceChecked

\* An earlier credit ends below the tracked balance, where a new one begins.
LEMMA BalanceCredit ==
  ASSUME TypeOK, BalancesAccounted, TrackedGrows, PaidHaveProfile, SettledOnce',
         NEW m \in Messages, BalanceAccepted(m), PaymentsGrow(m)
  PROVE  BalancesAccounted' /\ PaidHaveProfile'
<1>1. \A p \in payments : p.sms \in Messages
  BY DEF TypeOK, PaymentRows
<1>2. \A p \in payments' : p \in payments \/ p.sms = m
  BY DEF PaymentsGrow
<1>3. Content[m].profile \in Profiles
  BY ContentAssumption DEF BalanceAccepted
<1>4. PaidHaveProfile'
  BY <1>2, <1>3, NoneAssumption DEF PaidHaveProfile
<1>5. \A p \in payments : Content[p.sms].profile \in Profiles
  BY <1>1, ContentAssumption DEF PaidHaveProfile
<1>6. \A profile \in Profiles :
        /\ OpeningBalance[profile] # None => OpeningBalance[profile] \in Nat
        /\ tracked[profile] # None => tracked[profile] \in Nat
  BY ContentAssumption DEF TypeOK
<1>7. \A p \in Checked' : /\ p \in payments' /\ p.sms \in Messages
                          /\ BalanceChecked(p.sms)
                          /\ p \in payments => p \in Checked
  BY <1>1, <1>2 DEF Checked, BalanceChecked
<1>8. ASSUME NEW p \in Checked', p.sms = m
      PROVE  LET profile == Content[m].profile IN
             /\ OpeningBalance[profile] # None /\ tracked'[profile] # None
             /\ OpeningBalance[profile] + Content[m].amount <= Content[m].balance
             /\ Content[m].balance <= tracked'[profile]
  <2> DEFINE profile == Content[m].profile
  <2>1. /\ tracked[profile] # None /\ tracked'[profile] # None
        /\ tracked'[profile] = Content[m].balance
        /\ tracked'[profile] = tracked[profile] + Content[m].amount
    BY <1>3, <1>7, <1>8, BalanceStep
  <2>2. OpeningBalance[profile] # None /\ OpeningBalance[profile] <= tracked[profile]
    BY <1>3, <2>1 DEF TrackedGrows
  <2>3. Content[m].balance \in Nat /\ Content[m].amount \in Nat
    BY <1>7, <1>8, CheckedNumbers
  <2> QED
    BY <1>3, <1>6, <2>1, <2>2, <2>3
<1>9. ASSUME NEW p \in Checked', p \in payments
      PROVE  LET profile == Content[p.sms].profile IN
             /\ OpeningBalance[profile] # None /\ tracked'[profile] # None
             /\ OpeningBalance[profile] + Content[p.sms].amount <= Content[p.sms].balance
             /\ Content[p.sms].balance <= tracked'[profile]
  <2> DEFINE profile == Content[p.sms].profile
  <2>1. /\ OpeningBalance[profile] # None /\ tracked[profile] # None
        /\ OpeningBalance[profile] + Content[p.sms].amount <= Content[p.sms].balance
        /\ Content[p.sms].balance <= tracked[profile]
    BY <1>7, <1>9 DEF BalancesAccounted
  <2>2. profile \in Profiles
    BY <1>5, <1>9
  <2>3. tracked'[profile] # None /\ tracked'[profile] \in Nat
        /\ tracked[profile] <= tracked'[profile]
    BY <2>1, <2>2, BalanceStep
  <2>4. Content[p.sms].balance \in Nat
    BY <1>7, CheckedNumbers
  <2> QED
    BY <1>6, <2>1, <2>2, <2>3, <2>4
<1>10. ASSUME NEW p \in Checked', p \in payments, NEW q \in Checked', q.sms = m,
              Content[p.sms].profile = Content[m].profile
       PROVE  Content[p.sms].balance + Content[m].amount <= Content[m].balance
  <2> DEFINE profile == Content[m].profile
  <2>1. Content[p.sms].balance <= tracked[profile]
    BY <1>7, <1>10 DEF BalancesAccounted
  <2>2. tracked[profile] # None
        /\ Content[m].balance = tracked[profile] + Content[m].amount
    BY <1>3, <1>7, <1>10, BalanceStep
  <2>3. Content[p.sms].balance \in Nat /\ Content[m].amount \in Nat
    BY <1>7, <1>10, CheckedNumbers
  <2> QED
    BY <1>3, <1>6, <2>1, <2>2, <2>3
<1>11. ASSUME NEW p \in Checked', NEW q \in Checked' \ {p},
              Content[q.sms].profile = Content[p.sms].profile
       PROVE  \/ Content[p.sms].balance + Content[q.sms].amount <= Content[q.sms].balance
              \/ Content[q.sms].balance + Content[p.sms].amount <= Content[p.sms].balance
  <2>1. CASE p \in payments /\ q \in payments
    BY <1>7, <1>11, <2>1 DEF BalancesAccounted
  <2>2. CASE p \in payments /\ q.sms = m
    BY <1>10, <1>11, <2>2
  <2>3. CASE q \in payments /\ p.sms = m
    BY <1>10, <1>11, <2>3
  <2>4. ~(p.sms = m /\ q.sms = m)
    BY <1>7, <1>11 DEF SettledOnce
  <2> QED
    BY <1>2, <1>7, <2>1, <2>2, <2>3, <2>4
<1>12. BalancesAccounted'
  BY <1>2, <1>7, <1>8, <1>9, <1>11 DEF BalancesAccounted
<1> QED
  BY <1>4, <1>12

\* Process credits an SMS only past the balance check.
LEMMA ProcessBalance ==
  ASSUME TypeOK, NEW m \in Messages, Process(m)
  PROVE  UNCHANGED <<payments, tracked>> \/ (BalanceAccepted(m) /\ PaymentsGrow(m))
<1> USE DEF PaymentsGrow
<1>1. CASE ProcessMatched(m) \/ ProcessDuplicate(m) \/ ProcessRejected(m)
  BY <1>1 DEF ProcessMatched, ProcessDuplicate, ProcessRejected
<1>2. CASE ProcessNoProfile(m) \/ ProcessSuspect(m)
  BY <1>2 DEF ProcessNoProfile, ProcessSuspect
<1>3. CASE ProcessHeld(m) \/ ProcessUnmatched(m)
  BY <1>3 DEF ProcessHeld, ProcessUnmatched
<1>4. ASSUME NEW s \in Sessions, NEW source \in Sources, Verify(m, s, source)
      PROVE  PaymentsGrow(m)
  BY <1>4, ContentAssumption DEF Verify, InsertPayment, PaymentRows
<1>5. ASSUME NEW s \in Sessions, VerifyLate(m, s)
      PROVE  PaymentsGrow(m)
  BY <1>4, <1>5 DEF VerifyLate, HoldLate, Sources
<1>6. CASE ProcessClaimed(m)
  <2>1. PICK s \in Sessions : VerifyLate(m, s) \/ Verify(m, s, "trxid_claim")
    BY <1>6, FirstCandidate DEF ProcessClaimed, FindMatchCandidates
  <2> QED
    BY <1>4, <1>5, <1>6, <2>1 DEF ProcessClaimed, Sources
<1>7. CASE ProcessUnique(m)
  BY <1>4, <1>7 DEF ProcessUnique, Sources
<1>8. CASE ProcessLate(m)
  BY <1>5, <1>8 DEF ProcessLate
<1> QED
  BY <1>1, <1>2, <1>3, <1>6, <1>7, <1>8 DEF Process

\* What BalancesAccounted needs to be inductive.
BalanceInv == BalancesAccounted /\ TrackedGrows /\ PaidHaveProfile

\* The balance invariant is kept by every step of the specification.
LEMMA NextBalance ==
  ASSUME IInv, IInv', BalanceInv, [Next]_vars
  PROVE  BalanceInv'
<1>1. ASSUME UNCHANGED <<payments, tracked>>
      PROVE  BalanceInv'
  BY <1>1 DEF BalanceInv, BalancesAccounted, Checked, TrackedGrows, PaidHaveProfile
<1>2. ASSUME NEW s \in Sessions, SessionStep(s)
      PROVE  UNCHANGED <<payments, tracked>>
  BY <1>2 DEF SessionStep, CreateSession, CancelSessionRead, ExpireRead, Begin,
     ClaimCheckoutRead, ClaimSession, UpdateSessionClaim
<1>3. ASSUME NEW call \in calls, CallStep(call)
      PROVE  UNCHANGED <<payments, tracked>>
  BY <1>3 DEF CallStep, CancelSessionWrite, ExpireWrite, UpdateSessionStatus,
     ClaimCheckoutWrite, UpdateSessionClaim, RetryHeld
<1>4. ASSUME NEW m \in Messages, MessageStep(m)
      PROVE  BalanceInv'
  <2>1. CASE Ingest(m) \/ Resubmit(m)
    BY <1>1, <2>1 DEF Ingest, Resubmit
  <2>2. CASE Process(m)
    BY <1>1, <2>2, ProcessBalance, BalanceCredit, TrackedStep DEF IInv, BalanceInv
  <2> QED
    BY <1>4, <2>1, <2>2 DEF MessageStep
<1>5. CASE Crash \/ Tick \/ UNCHANGED vars
  BY <1>1, <1>5 DEF Crash, Tick, vars
<1> QED
  BY <1>1, <1>2, <1>3, <1>4, <1>5 DEF Next

\* verifyBalance credits no part of a balance twice, whatever the order in which
\* the SMS of a profile are processed and processed again.
THEOREM BalancesConsistent == Spec => []BalancesAccounted
<1>1. Init => BalanceInv
  <2> SUFFICES ASSUME Init PROVE BalanceInv
    OBVIOUS
  <2>1. \A p \in Profiles : OpeningBalance[p] # None => OpeningBalance[p] \in Nat
    BY ContentAssumption
  <2>2. TrackedGrows
    BY <2>1 DEF Init, TrackedGrows
  <2>3. BalancesAccounted /\ PaidHaveProfile
    BY DEF Init, BalancesAccounted, Checked, PaidHaveProfile
  <2> QED
    BY <2>2, <2>3 DEF BalanceInv
<1>2. BalanceInv => BalancesAccounted
  BY DEF BalanceInv
<1> QED
  BY <1>1, <1>2, NextBalance, Invariance, PTL DEF Spec

-----------------------------------------------------------------------------
(* Late payments.                                                          *)

\* A new payment is recorded as late exactly when it is, and only by a
\* transaction that has read that the merchant accepts late matches.
CreditInTime(m) ==
  \A p \in payments' \ payments :
    /\ p.sms = m
    /\ Late(m, p.session) <=> p.source = "late_auto"
    /\ p.source = "late_auto" => TRUE \in AutoAcceptLateMatch

\* Each of the three priorities checks the expiry before it credits.
LEMMA ProcessInTime ==
  ASSUME NEW m \in Messages, Process(m)
  PROVE  CreditInTime(m) /\ UNCHANGED <<created, smsTime>>
<1>1. UNCHANGED <<created, smsTime>>
  BY DEF Process, ProcessMatched, ProcessDuplicate, ProcessRejected, ProcessNoProfile,
     ProcessSuspect, ProcessClaimed, ProcessUnique, ProcessHeld, ProcessLate,
     ProcessUnmatched, BalanceAccepted, Parse, sessionVars, smsVars
<1>2. ASSUME NEW s, NEW source, Verify(m, s, source)
      PROVE  \A p \in payments' \ payments :
               p.sms = m /\ p.session = s /\ p.source = source
  BY <1>2 DEF Verify, InsertPayment
<1>3. ASSUME NEW s, NEW source \in {"trxid_claim", "auto"}, Verify(m, s, source),
             ~Late(m, s)
      PROVE  CreditInTime(m)
  BY <1>2, <1>3 DEF CreditInTime
<1>4. ASSUME NEW s, VerifyLate(m, s), Late(m, s)
      PROVE  CreditInTime(m)
  <2>1. CASE TRUE \in AutoAcceptLateMatch /\ Verify(m, s, "late_auto")
    BY <1>2, <1>4, <2>1 DEF CreditInTime
  <2>2. CASE HoldLate(m, s)
    BY <2>2 DEF HoldLate, CreditInTime
  <2> QED
    BY <1>4, <2>1, <2>2 DEF VerifyLate
<1>5. CASE ProcessClaimed(m)
  <2>1. PICK s \in First(Claimants(m)) :
           IF Late(m, s) THEN VerifyLate(m, s) ELSE Verify(m, s, "trxid_claim")
    BY <1>5 DEF ProcessClaimed
  <2> QED
    BY <1>1, <1>3, <1>4, <2>1
<1>6. CASE ProcessUnique(m)
  <2>1. PICK s \in Sessions : Unclaimed(m) = {s} /\ Verify(m, s, "auto")
    BY <1>6 DEF ProcessUnique
  <2>2. ~Late(m, s)
    BY <2>1 DEF Unclaimed
  <2> QED
    BY <1>1, <1>3, <2>1, <2>2
<1>7. CASE ProcessLate(m)
  <2>1. PICK s \in Sessions : LateCandidates(m) = {s} /\ VerifyLate(m, s)
    BY <1>7 DEF ProcessLate
  <2>2. Late(m, s)
    BY <2>1 DEF LateCandidates
  <2> QED
    BY <1>1, <1>4, <2>1, <2>2
<1>8. CASE UNCHANGED payments
  BY <1>1, <1>8 DEF CreditInTime
<1> QED
  BY <1>1, <1>5, <1>6, <1>7, <1>8 DEF Process, ProcessMatched, ProcessDuplicate,
     ProcessRejected, ProcessNoProfile, ProcessSuspect, ProcessHeld, ProcessUnmatched

\* A paid session keeps its creation time, and a credited SMS its own time.
LEMMA NextInTime ==
  ASSUME IInv, PaidInTime, [Next]_vars
  PROVE  PaidInTime'
<1>1. \A p \in payments : /\ p.session \in Sessions /\ p.sms \in Messages
                          /\ status[p.session] # "none" /\ match[p.sms] # "none"
  BY DEF IInv, TypeOK, PaymentRows, TablesAgree, Paid
<1>2. ASSUME UNCHANGED payments,
             \A p \in payments : created'[p.session] = created[p.session]
                                 /\ smsTime'[p.sms] = smsTime[p.sms]
      PROVE  PaidInTime'
  BY <1>2 DEF PaidInTime, Late, Expires
<1>3. ASSUME NEW s \in Sessions, SessionStep(s)
      PROVE  PaidInTime'
  <2>1. CASE CreateSession(s)
    BY <1>1, <1>2, <2>1 DEF CreateSession, smsVars, IInv, TypeOK
  <2>2. UNCHANGED <<payments, smsTime>> /\ (~CreateSession(s) => UNCHANGED created)
    BY <1>3 DEF SessionStep, CreateSession, CancelSessionRead, ExpireRead, Begin,
       ClaimCheckoutRead, ClaimSession, UpdateSessionClaim, sessionVars, smsVars
  <2> QED
    BY <1>2, <2>1, <2>2
<1>4. ASSUME NEW call \in calls, CallStep(call)
      PROVE  UNCHANGED <<payments, created, smsTime>>
  BY <1>4 DEF CallStep, CancelSessionWrite, ExpireWrite, UpdateSessionStatus,
     ClaimCheckoutWrite, UpdateSessionClaim, RetryHeld, sessionVars, smsVars
<1>5. ASSUME NEW m \in Messages, MessageStep(m)
      PROVE  PaidInTime'
  <2>1. CASE Ingest(m)
    BY <1>1, <1>2, <2>1 DEF Ingest, sessionVars, IInv, TypeOK
  <2>2. CASE Resubmit(m)
    BY <1>2, <2>2 DEF Resubmit, sessionVars, smsVars
  <2>3. CASE Process(m)
    BY <2>3, ProcessInTime DEF CreditInTime, PaidInTime, Late, Expires
  <2> QED
    BY <1>5, <2>1, <2>2, <2>3 DEF MessageStep
<1>6. CASE Crash \/ Tick \/ UNCHANGED vars
  BY <1>2, <1>6 DEF Crash, Tick, vars, sessionVars, smsVars
<1> QED
  BY <1>2, <1>3, <1>4, <1>5, <1>6 DEF Next

\* No payment made after the expiry of its session is ever credited as if it were
\* in time, or by a transaction that read that late matches are not accepted.
THEOREM NoLateCredit == Spec => []PaidInTime
<1>1. Init => PaidInTime
  BY DEF Init, PaidInTime
<1> QED
  BY <1>1, NextInTime, Invariance, PTL DEF Spec
=============================================================================
