------------------------- MODULE MatchingTx_refines -------------------------
(***************************************************************************)
(* MatchingTx implements Commits.  The mapping takes the committed rows as *)
(* they are, so the steps that commit nothing are stutters; what is to be  *)
(* shown is that a commit is right, although the call decided on it from   *)
(* rows it read some time before.  The invariant says what its             *)
(* transaction holds by then, and what of its decision later commits leave *)
(* true: no session becomes pending again, and no parsed SMS unparsed.     *)
(***************************************************************************)
EXTENDS MatchingTx_proofs

-----------------------------------------------------------------------------
(* The invariant.                                                          *)

AfterParse ==
  {"profile", "balance", "candidates", "unmatched", "insert", "pay", "match", "hold", "held"}

AfterBalance == {"candidates", "unmatched", "insert", "pay", "match", "hold", "held"}

\* What the rows written by a transaction hold, statement by statement.
Written(c) ==
  LET m == sms[c]
      own == writes[c]
  IN  /\ pc[c] \in AfterParse => Holds(c, SmsRow(m)) /\ own[SmsRow(m)].parse = "parsed"
      /\ pc[c] \in {"profile", "balance"} => ~Holds(c, ProfileRow)
      /\ pc[c] = "balance" => Balance[m] # None
      /\ pc[c] \in AfterBalance =>
           /\ Balance[m] = None => ~Holds(c, ProfileRow)
           /\ Balance[m] # None => Holds(c, ProfileRow) /\ own[ProfileRow] = Balance[m]
      /\ pc[c] \in {"pay", "match"} => \A s \in todo[c] :
           Holds(c, PaymentRow(s, Trx[m])) =>
             own[PaymentRow(s, Trx[m])] = m /\ db[PaymentRow(s, Trx[m])] = None
      /\ pc[c] = "match" => \A s \in todo[c] :
           own[SessionRow(s)] = [status |-> "succeeded", review |-> FALSE]
      /\ pc[c] \in {"hold", "held"} => \A s \in Sessions :
           Holds(c, SessionRow(s)) =>
             own[SessionRow(s)] = [db[SessionRow(s)] EXCEPT !.review = TRUE]

\* The sessions a call that holds its SMS has flagged or is going to.
Flagged(c) == todo[c] \cup {s \in Sessions : Holds(c, SessionRow(s))}

NoneFits(m) == Abstract!Claimants(m) = {} /\ Abstract!Unclaimed(m) = {}

\* What a call has decided from rows it read some time ago, and what still
\* holds of the rows committed since: a session never becomes pending again,
\* and a parsed SMS stays parsed.
Decided(c) ==
  LET m == sms[c]
  IN  /\ pc[c] = "duplicate" => Abstract!TwinParsed(m)
      /\ pc[c] \in {"insert", "pay", "match"} => \A s \in todo[c] : Abstract!Preferred(m, s)
      /\ pc[c] = "unmatched" => NoneFits(m)
      /\ pc[c] \in {"hold", "held"} =>
           /\ Flagged(c) \subseteq {s \in Fits[m] : Claimed[s] = None}
           /\ \E s, t \in Flagged(c) : s # t
           /\ Abstract!Claimants(m) = {} /\ Abstract!Unclaimed(m) \subseteq Flagged(c)
      /\ pc[c] = "held" => todo[c] = {}

\* Who paid is parsed, and has the TrxID that was paid.
PayersParsed ==
  \A s \in Sessions, x \in TrxIds :
    db[PaymentRow(s, x)] # None =>
      Trx[db[PaymentRow(s, x)]] = x /\ db[SmsRow(db[PaymentRow(s, x)])].parse = "parsed"

CommitInv == PayersParsed /\ \A c \in Calls : Written(c) /\ Decided(c)

Pending(s) == db[SessionRow(s)].status = "pending"
IsParsed(m) == db[SmsRow(m)].parse = "parsed"

-----------------------------------------------------------------------------
(* What a commit shows, and what it leaves of other calls' decisions.      *)

\* The rows as Commits sees them.
LEMMA AbstractSets ==
  ASSUME NEW m \in Messages
  PROVE  /\ Abstract!Claimants(m) = {s \in Fits[m] : Pending(s) /\ Claimed[s] = Trx[m]}
         /\ Abstract!Unclaimed(m) = {s \in Fits[m] : Pending(s) /\ Claimed[s] = None}
         /\ Abstract!TwinParsed(m) <=> \E o \in Twins(m) : IsParsed(o)
<1>1. Fits[m] \subseteq Sessions
  BY TxAssumption
<1> QED
  BY <1>1 DEF Abstract!Claimants, Abstract!Unclaimed, Abstract!TwinParsed, Abstract!Parsed,
     Twins, Pending, IsParsed

LEMMA AbstractSetsNext ==
  ASSUME NEW m \in Messages
  PROVE  /\ Abstract!Claimants(m)' = {s \in Fits[m] : Pending(s)' /\ Claimed[s] = Trx[m]}
         /\ Abstract!Unclaimed(m)' = {s \in Fits[m] : Pending(s)' /\ Claimed[s] = None}
         /\ Abstract!TwinParsed(m)' <=> \E o \in Twins(m) : IsParsed(o)'
<1>1. Fits[m] \subseteq Sessions
  BY TxAssumption
<1> QED
  BY <1>1 DEF Abstract!Claimants, Abstract!Unclaimed, Abstract!TwinParsed, Abstract!Parsed,
     Twins, Pending, IsParsed

\* The committed rows only move forward: no session becomes pending again, and
\* no SMS loses its parsed state.
Forward ==
  /\ \A s \in Sessions : Pending(s)' => Pending(s)
  /\ \A m \in Messages : IsParsed(m) => IsParsed(m)'

\* What a call has decided remains right when the rows move forward.
LEMMA DecidedStays ==
  ASSUME Forward, NEW m \in Messages
  PROVE  /\ Abstract!Claimants(m)' \subseteq Abstract!Claimants(m)
         /\ Abstract!Unclaimed(m)' \subseteq Abstract!Unclaimed(m)
         /\ Abstract!TwinParsed(m) => Abstract!TwinParsed(m)'
         /\ \A s \in Sessions : Abstract!Preferred(m, s) => Abstract!Preferred(m, s)'
<1>1. Fits[m] \subseteq Sessions
  BY TxAssumption
<1>2. /\ Abstract!Claimants(m)' \subseteq Abstract!Claimants(m)
      /\ Abstract!Unclaimed(m)' \subseteq Abstract!Unclaimed(m)
      /\ Abstract!TwinParsed(m) => Abstract!TwinParsed(m)'
  BY <1>1, AbstractSets, AbstractSetsNext DEF Forward, Twins
<1>3. \A s \in Sessions : Abstract!Preferred(m, s) => Abstract!Preferred(m, s)'
  BY <1>2 DEF Abstract!Preferred
<1> QED
  BY <1>2, <1>3

\* The statements that commit.
Committing(c) ==
  MarkDuplicate(c) \/ MarkSuspect(c) \/ MarkUnmatched(c) \/ MarkMatched(c) \/ MarkHeld(c)

\* No other statement of a call changes what is committed.
LEMMA CommitsAlone ==
  ASSUME NEW c \in Calls, Process(c), ~Committing(c)
  PROVE  db' = db
BY DEF Process, Committing, Start, GetSMSMessage, FindDuplicateTrxID, UpdateSMSParsed, Rollback,
   GetProfile, UpdateTrackedBalance, FindMatchCandidates, InsertPayment, UpdateSession,
   FlagSession, Abort, Write

\* A commit shows what the call had written, and its SMS as it classified it.
Shown(c, m, match, session) ==
  /\ View(c, SmsRow(m)) \in SmsValues
  /\ db'[SmsRow(m)] = [View(c, SmsRow(m)) EXCEPT !.match = match, !.matched = session]
  /\ \A o \in Messages \ {m} : db'[SmsRow(o)] = db[SmsRow(o)]
  /\ \A s \in Sessions : db'[SessionRow(s)] = View(c, SessionRow(s))
  /\ \A s \in Sessions, x \in TrxIds : db'[PaymentRow(s, x)] = View(c, PaymentRow(s, x))
  /\ db'[ProfileRow] = View(c, ProfileRow)
  /\ \A d \in Calls \ {c} : \A x \in DOMAIN writes[d] : db'[x] = db[x]
  /\ pc'[c] = "over"

LEMMA Committed ==
  ASSUME IInv, NEW c \in Calls, NEW m \in Messages, m = sms[c],
         pc[c] \in {"duplicate", "balance", "unmatched", "held", "match"},
         NEW match \in {"unmatched", "held", "suspect", "duplicate", "matched"},
         NEW session \in Sessions \cup {None},
         Classify(c, match, session)
  PROVE  Shown(c, m, match, session)
<1> DEFINE r == SmsRow(m)
           v == [View(c, r) EXCEPT !.match = match, !.matched = session]
<1>1. RowsTyped /\ CallsTyped /\ LocksExclusive /\ OwnWrites(c)
  BY Typed DEF IInv
<1>3. r \in Rows /\ View(c, r) \in SmsValues
  BY <1>1, RowValues, ViewTyped
<1>4. v \in ValuesOf(r)
  BY <1>3, RowValues, ClassifiedRow
<1>5. WriteAndCommit(c, r, v) /\ pc'[c] = "over"
  BY <1>1 DEF Classify, Goto, CallsTyped
<1> HIDE DEF v
<1>6. /\ db'[r] = v
      /\ \A x \in Rows \ {r} : db'[x] = View(c, x)
      /\ \A d \in Calls \ {c} : \A x \in DOMAIN writes[d] : db'[x] = db[x]
  BY <1>1, <1>3, <1>4, <1>5, CommitRows
<1>7. \A o \in Messages \ {m} : db'[SmsRow(o)] = db[SmsRow(o)]
  <2> SUFFICES ASSUME NEW o \in Messages \ {m} PROVE db'[SmsRow(o)] = db[SmsRow(o)]
    OBVIOUS
  <2>1. SmsRow(o) \in Rows \ {r} /\ SmsRow(o) \notin DOMAIN writes[c]
    BY <1>1, RowKeys, RowValues DEF OwnWrites
  <2> QED
    BY <1>6, <2>1 DEF View, Holds
<1>8. /\ \A s \in Sessions : db'[SessionRow(s)] = View(c, SessionRow(s))
      /\ \A s \in Sessions, x \in TrxIds : db'[PaymentRow(s, x)] = View(c, PaymentRow(s, x))
      /\ db'[ProfileRow] = View(c, ProfileRow)
  BY <1>6, RowKeys, RowValues
<1> QED
  BY <1>3, <1>5, <1>6, <1>7, <1>8 DEF v, Shown

\* The arguments with which each of the five commits.
LEMMA CommitForm ==
  ASSUME IInv, NEW c \in Calls, Committing(c)
  PROVE  /\ pc[c] \in {"duplicate", "balance", "unmatched", "held", "match"}
         /\ sms[c] \in Messages
         /\ \E match \in {"unmatched", "held", "suspect", "duplicate", "matched"},
               session \in Sessions \cup {None} :
              /\ Classify(c, match, session)
              /\ pc[c] = "duplicate" => match = "duplicate" /\ session = None
              /\ pc[c] = "balance" => match = "suspect" /\ session = None
              /\ pc[c] = "unmatched" => match = "unmatched" /\ session = None
              /\ pc[c] = "held" => match = "held" /\ session = None
              /\ pc[c] = "match" => match = "matched" /\ session \in Sessions
                                    /\ todo[c] = {session}
<1>1. OwnWrites(c)
  BY DEF IInv
<1>2. CASE MarkMatched(c)
  BY <1>1, <1>2 DEF MarkMatched, OwnWrites
<1>3. CASE MarkDuplicate(c) \/ MarkSuspect(c) \/ MarkUnmatched(c) \/ MarkHeld(c)
  BY <1>1, <1>3 DEF MarkDuplicate, MarkSuspect, MarkUnmatched, MarkHeld, OwnWrites
<1> QED
  BY <1>2, <1>3 DEF Committing

\* A commit moves the rows forward, keeps the rows that others hold, and
\* changes no payment that is there.
LEMMA CommitForward ==
  ASSUME IInv, NEW c \in Calls, Written(c), Committing(c)
  PROVE  /\ Forward
         /\ \A d \in Calls \ {c} : \A r \in DOMAIN writes[d] : db'[r] = db[r]
         /\ \A s \in Sessions, x \in TrxIds :
              db[PaymentRow(s, x)] # None => db'[PaymentRow(s, x)] = db[PaymentRow(s, x)]
<1> PICK m \in Messages : m = sms[c]
  BY CommitForm
<1>1. PICK match \in {"unmatched", "held", "suspect", "duplicate", "matched"},
           session \in Sessions \cup {None} : Classify(c, match, session)
  BY CommitForm
<1>2. pc[c] \in {"duplicate", "balance", "unmatched", "held", "match"} /\ OwnWrites(c)
  BY CommitForm DEF IInv
<1>3. /\ View(c, SmsRow(m)) \in SmsValues
      /\ db'[SmsRow(m)] = [View(c, SmsRow(m)) EXCEPT !.match = match, !.matched = session]
      /\ \A o \in Messages \ {m} : db'[SmsRow(o)] = db[SmsRow(o)]
      /\ \A s \in Sessions : db'[SessionRow(s)] = View(c, SessionRow(s))
      /\ \A s \in Sessions, x \in TrxIds : db'[PaymentRow(s, x)] = View(c, PaymentRow(s, x))
      /\ \A d \in Calls \ {c} : \A r \in DOMAIN writes[d] : db'[r] = db[r]
  <2>1. Shown(c, m, match, session)
    BY <1>1, <1>2, Committed
  <2> QED
    BY <2>1 DEF Shown
<1>4. \A s \in Sessions : Pending(s)' => Pending(s)
  <2>1. CASE pc[c] = "match"
    BY <1>3, <2>1, CommitPayment DEF Pending
  <2>2. CASE pc[c] # "match"
    BY <1>2, <1>3, <2>2, CommitWithoutPayment DEF Pending
  <2> QED
    BY <2>1, <2>2
<1>5. \A o \in Messages : IsParsed(o) => IsParsed(o)'
  <2>1. db'[SmsRow(m)].parse = View(c, SmsRow(m)).parse
    BY <1>3 DEF SmsValues
  <2>2. Holds(c, SmsRow(m)) => View(c, SmsRow(m)).parse = "parsed"
    BY <1>2 DEF Written, AfterParse, OwnWrites, View, Holds
  <2>3. IsParsed(m) => IsParsed(m)'
    BY <2>1, <2>2 DEF IsParsed, View
  <2> QED
    BY <1>3, <2>3 DEF IsParsed
<1>6. \A s \in Sessions, x \in TrxIds :
        db[PaymentRow(s, x)] # None => db'[PaymentRow(s, x)] = db[PaymentRow(s, x)]
  <2>1. CASE pc[c] = "match"
    <3>1. PICK s \in Sessions :
            /\ todo[c] = {s}
            /\ \A t \in Sessions, x \in TrxIds :
                 <<t, x>> # <<s, Trx[m]>> => View(c, PaymentRow(t, x)) = db[PaymentRow(t, x)]
      BY <2>1, CommitPayment
    <3>2. db[PaymentRow(s, Trx[m])] # None =>
            View(c, PaymentRow(s, Trx[m])) = db[PaymentRow(s, Trx[m])]
      BY <2>1, <3>1 DEF Written, View
    <3> QED
      BY <1>3, <3>1, <3>2
  <2>2. CASE pc[c] # "match"
    BY <1>2, <1>3, <2>2, CommitWithoutPayment
  <2> QED
    BY <2>1, <2>2
<1> QED
  BY <1>3, <1>4, <1>5, <1>6 DEF Forward

\* A call that takes no step keeps what it has written and decided.
LEMMA OtherCallStays ==
  ASSUME IInv, Forward, NEW d \in Calls, Written(d), Decided(d),
         \A r \in DOMAIN writes[d] : db'[r] = db[r],
         writes'[d] = writes[d], pc'[d] = pc[d], sms'[d] = sms[d], todo'[d] = todo[d]
  PROVE  Written(d)' /\ Decided(d)'
<1>1. /\ pc[d] \notin {"idle", "over"} => sms[d] \in Messages
      /\ todo[d] \subseteq Sessions
  BY Typed DEF IInv, OwnWrites, CallsTyped
<1>2. Written(d)'
  BY DEF Written, Holds
<1>3. Flagged(d)' = Flagged(d)
  BY DEF Flagged, Holds
<1>4. Decided(d)'
  <2>1. CASE pc[d] = "duplicate"
    BY <1>1, <2>1, DecidedStays DEF Decided
  <2>2. CASE pc[d] \in {"insert", "pay", "match"}
    BY <1>1, <2>2, DecidedStays DEF Decided
  <2>3. CASE pc[d] = "unmatched"
    BY <1>1, <2>3, DecidedStays DEF Decided, NoneFits
  <2>4. CASE pc[d] \in {"hold", "held"}
    BY <1>1, <1>3, <2>4, DecidedStays DEF Decided
  <2> QED
    BY <2>1, <2>2, <2>3, <2>4 DEF Decided
<1> QED
  BY <1>2, <1>4

\* Payments keep their payers.
LEMMA PayersStay ==
  ASSUME IInv, PayersParsed, Forward,
         \A s \in Sessions, x \in TrxIds : db'[PaymentRow(s, x)] = db[PaymentRow(s, x)]
  PROVE  PayersParsed'
<1>1. \A s \in Sessions, x \in TrxIds : db[PaymentRow(s, x)] \in Messages \cup {None}
  BY Typed, RowValues DEF IInv, RowsTyped
<1> QED
  BY <1>1 DEF PayersParsed, Forward, IsParsed

\* A commit adds at most the payment of its own SMS, which is parsed.
LEMMA CommitPayers ==
  ASSUME IInv, PayersParsed, NEW c \in Calls, Written(c), Committing(c)
  PROVE  PayersParsed'
<1> PICK m \in Messages : m = sms[c]
  BY CommitForm
<1>1. PICK match \in {"unmatched", "held", "suspect", "duplicate", "matched"},
           session \in Sessions \cup {None} : Classify(c, match, session)
  BY CommitForm
<1>2. pc[c] \in {"duplicate", "balance", "unmatched", "held", "match"} /\ Forward
  BY CommitForm, CommitForward
<1>3. /\ View(c, SmsRow(m)) \in SmsValues
      /\ db'[SmsRow(m)] = [View(c, SmsRow(m)) EXCEPT !.match = match, !.matched = session]
      /\ \A s \in Sessions, x \in TrxIds : db'[PaymentRow(s, x)] = View(c, PaymentRow(s, x))
  <2>1. Shown(c, m, match, session)
    BY <1>1, <1>2, Committed
  <2> QED
    BY <2>1 DEF Shown
<1>4. CASE pc[c] = "match"
  <2>1. PICK s \in Sessions :
          /\ todo[c] = {s}
          /\ \A t \in Sessions, x \in TrxIds :
               <<t, x>> # <<s, Trx[m]>> => View(c, PaymentRow(t, x)) = db[PaymentRow(t, x)]
    BY <1>4, CommitPayment
  <2>2. \/ db'[PaymentRow(s, Trx[m])] = db[PaymentRow(s, Trx[m])]
        \/ db'[PaymentRow(s, Trx[m])] = m
    BY <1>3, <1>4, <2>1, TxAssumption DEF Written, View
  <2>3. IsParsed(m)'
    BY <1>3, <1>4 DEF Written, AfterParse, View, IsParsed, SmsValues
  <2>4. \A t \in Sessions, x \in TrxIds : db[PaymentRow(t, x)] \in Messages \cup {None}
    BY Typed, RowValues DEF IInv, RowsTyped
  <2>5. ASSUME NEW t \in Sessions, NEW x \in TrxIds, db'[PaymentRow(t, x)] # None
        PROVE  /\ Trx[db'[PaymentRow(t, x)]] = x
               /\ db'[SmsRow(db'[PaymentRow(t, x)])].parse = "parsed"
    <3>1. CASE db'[PaymentRow(t, x)] = db[PaymentRow(t, x)]
      BY <1>2, <2>4, <2>5, <3>1 DEF PayersParsed, Forward, IsParsed
    <3>2. CASE db'[PaymentRow(t, x)] # db[PaymentRow(t, x)]
      <4>1. t = s /\ x = Trx[m]
        BY <1>3, <2>1, <3>2
      <4>2. db'[PaymentRow(t, x)] = m
        BY <2>2, <3>2, <4>1
      <4> QED
        BY <2>3, <4>1, <4>2 DEF IsParsed
    <3> QED
      BY <3>1, <3>2
  <2> QED
    BY <2>5 DEF PayersParsed
<1>5. CASE pc[c] # "match"
  BY <1>2, <1>3, <1>5, CommitWithoutPayment, PayersStay
<1> QED
  BY <1>4, <1>5

-----------------------------------------------------------------------------
(* What a call has written and decided when it reaches a statement.        *)

\* Steps of a call that commit nothing: what it has written and decided is
\* right when the next statement is reached.
LEMMA FirstReads ==
  ASSUME IInv, NEW c \in Calls, Written(c), Decided(c),
         \/ \E m \in Messages : Start(c, m)
         \/ GetSMSMessage(c)
         \/ FindDuplicateTrxID(c)
         \/ Rollback(c)
  PROVE  Written(c)' /\ Decided(c)'
<1>1. /\ pc \in [Calls -> Statements] /\ sms \in [Calls -> Messages \cup {None}]
      /\ OwnWrites(c)
  BY Typed DEF IInv, CallsTyped
<1>2. ASSUME pc'[c] \in {"get", "dedupe", "parse", "over"}
      PROVE  Written(c)' /\ Decided(c)'
  BY <1>2 DEF Written, Decided, AfterParse, AfterBalance
<1>3. CASE \E m \in Messages : Start(c, m)
  BY <1>1, <1>2, <1>3 DEF Start, Goto
<1>4. CASE GetSMSMessage(c)
  BY <1>1, <1>2, <1>4 DEF GetSMSMessage, Goto
<1>5. CASE Rollback(c)
  BY <1>1, <1>2, <1>5 DEF Rollback, Goto
<1>6. CASE FindDuplicateTrxID(c)
  <2>1. PICK m \in Messages : m = sms[c]
    BY <1>1, <1>6 DEF FindDuplicateTrxID, OwnWrites
  <2>2. /\ sms'[c] = m /\ db' = db
        /\ pc'[c] = "parse" \/ (pc'[c] = "duplicate" /\ \E o \in Twins(m) : IsParsed(o))
    BY <1>1, <1>6, <2>1 DEF FindDuplicateTrxID, Goto, IsParsed
  <2>3. CASE pc'[c] = "duplicate"
    <3>1. Abstract!TwinParsed(m)'
      BY <2>2, <2>3, AbstractSetsNext DEF IsParsed
    <3>2. Abstract!TwinParsed(sms[c])'
      BY <2>2, <3>1 DEF Abstract!TwinParsed, Abstract!Parsed
    <3> QED
      BY <2>3, <3>2 DEF Written, Decided, AfterParse, AfterBalance
  <2> QED
    BY <1>2, <2>2, <2>3
<1> QED
  BY <1>3, <1>4, <1>5, <1>6

\* The SMS and the profile are written, and only they.
LEMMA FirstWrites ==
  ASSUME IInv, NEW c \in Calls, Written(c), Decided(c),
         UpdateSMSParsed(c) \/ GetProfile(c) \/ UpdateTrackedBalance(c)
  PROVE  Written(c)' /\ Decided(c)'
<1>1. RowsTyped /\ CallsTyped /\ LocksExclusive /\ OwnWrites(c)
  BY Typed DEF IInv
<1>2. PICK m \in Messages : m = sms[c]
  BY <1>1 DEF OwnWrites, UpdateSMSParsed, GetProfile, UpdateTrackedBalance
<1>3. CASE UpdateSMSParsed(c) /\ Rollback(c)
  BY <1>3, FirstReads
<1>4. CASE UpdateSMSParsed(c) /\ ~Rollback(c)
  <2> DEFINE r == SmsRow(m)
             v == [View(c, r) EXCEPT !.parse = "parsed"]
  <2>1. View(c, r) \in SmsValues
    BY <1>1, <1>2, RowValues, ViewTyped
  <2>2. r \in Rows /\ v \in ValuesOf(r) /\ v.parse = "parsed"
    BY <1>2, <2>1, RowValues DEF SmsValues
  <2>3. Write(c, r, v) /\ pc'[c] = "profile" /\ sms'[c] = m /\ pc[c] = "parse"
    BY <1>1, <1>2, <1>4 DEF UpdateSMSParsed, Goto, CallsTyped
  <2> HIDE DEF v
  <2>4. DOMAIN writes'[c] = DOMAIN writes[c] \cup {r} /\ writes'[c][r] = v
    BY <1>1, <2>2, <2>3, WriteRow
  <2>5. ~Holds(c, ProfileRow)'
    BY <1>1, <2>3, <2>4, RowKeys DEF OwnWrites, Holds
  <2> QED
    BY <2>2, <2>3, <2>4, <2>5 DEF Written, Decided, Holds, AfterBalance
<1>5. CASE GetProfile(c)
  <2>1. /\ pc[c] = "profile" /\ sms'[c] = m /\ writes' = writes
        /\ pc'[c] = IF Balance[m] = None THEN "candidates" ELSE "balance"
    BY <1>1, <1>2, <1>5 DEF GetProfile, Goto, CallsTyped
  <2> QED
    BY <1>2, <2>1 DEF Written, Decided, Holds, AfterParse, AfterBalance
<1>6. CASE UpdateTrackedBalance(c)
  <2>1. /\ pc[c] = "balance" /\ pc'[c] = "candidates" /\ sms'[c] = m
        /\ Write(c, ProfileRow, Balance[m]) /\ Balance[m] # None
    BY <1>1, <1>2, <1>6 DEF UpdateTrackedBalance, Goto, CallsTyped, Written
  <2>2. Balance[m] \in Nat
    BY <2>1, TxAssumption
  <2>3. /\ DOMAIN writes'[c] = DOMAIN writes[c] \cup {ProfileRow}
        /\ writes'[c][ProfileRow] = Balance[m]
        /\ \A x \in DOMAIN writes[c] \ {ProfileRow} : writes'[c][x] = writes[c][x]
    BY <1>1, <2>1, <2>2, RowValues, WriteRow
  <2> QED
    BY <1>2, <2>1, <2>3, RowKeys DEF Written, Decided, Holds, AfterParse, AfterBalance
<1> QED
  BY <1>3, <1>4, <1>5, <1>6

\* The candidates are chosen from the committed rows.
LEMMA ChoiceIsRight ==
  ASSUME IInv, NEW c \in Calls, Written(c), FindMatchCandidates(c)
  PROVE  Written(c)' /\ Decided(c)'
<1>1. RowsTyped /\ CallsTyped /\ OwnWrites(c)
  BY Typed DEF IInv
<1>2. PICK m \in Messages : m = sms[c]
  BY <1>1 DEF OwnWrites, FindMatchCandidates
<1>3. /\ pc[c] = "candidates" /\ UNCHANGED <<db, writes, sms>>
      /\ DOMAIN writes[c] \subseteq {SmsRow(m), ProfileRow}
      /\ \A s \in Sessions : ~Holds(c, SessionRow(s))
      /\ \A s \in Sessions, x \in TrxIds : ~Holds(c, PaymentRow(s, x))
      /\ Trx[m] \in TrxIds
  BY <1>1, <1>2, RowKeys, TxAssumption DEF FindMatchCandidates, OwnWrites, Holds
<1>4. /\ Fits[m] \subseteq Sessions /\ Sessions \subseteq Nat
      /\ Abstract!Claimants(m)' = Claimants(c) /\ Abstract!Unclaimed(m)' = Unclaimed(c)
  BY <1>2, <1>3, AbstractSetsNext, TxAssumption
     DEF Claimants, Unclaimed, Candidates, Pending
<1>5. ASSUME NEW next \in {"insert", "hold", "unmatched"}, NEW S \in SUBSET Sessions,
             Decide(c, next, S)
      PROVE  /\ pc'[c] = next /\ todo'[c] = S /\ Written(c)'
             /\ Flagged(c)' = S
  <2>1. pc'[c] = next /\ todo'[c] = S
    BY <1>1, <1>5 DEF Decide, Goto, CallsTyped
  <2>2. Flagged(c)' = S
    BY <1>3, <2>1 DEF Flagged, Holds
  <2>3. Written(c)'
    BY <1>3, <2>1 DEF Written, Holds, AfterParse, AfterBalance
  <2> QED
    BY <2>1, <2>2, <2>3
<1>6. CASE \E s \in Oldest(Claimants(c)) : Decide(c, "insert", {s})
  <2>1. PICK s \in Oldest(Claimants(c)) : Decide(c, "insert", {s})
    BY <1>6
  <2>2. /\ s \in Fits[m] /\ Claimed[s] = Trx[m] /\ \A t \in Claimants(c) : s <= t
    BY <1>2, <2>1 DEF Oldest, Claimants, Candidates
  <2>3. Abstract!Preferred(m, s)'
    BY <1>4, <2>2 DEF Abstract!Preferred
  <2> QED
    BY <1>2, <1>3, <1>4, <1>5, <2>1, <2>2, <2>3 DEF Decided
<1>7. CASE Claimants(c) = {} /\ \E s \in Sessions : Unclaimed(c) = {s} /\ Decide(c, "insert", {s})
  <2>1. PICK s \in Sessions : Unclaimed(c) = {s} /\ Decide(c, "insert", {s})
    BY <1>7
  <2>2. s \in Fits[m] /\ Claimed[s] = None
    BY <1>2, <2>1 DEF Unclaimed, Candidates
  <2>3. Abstract!Preferred(m, s)'
    BY <1>4, <1>7, <2>1, <2>2 DEF Abstract!Preferred
  <2> QED
    BY <1>2, <1>3, <1>5, <2>1, <2>3 DEF Decided
<1>8. CASE /\ Claimants(c) = {} /\ (\E s, t \in Unclaimed(c) : s # t)
           /\ Decide(c, "hold", Unclaimed(c))
  <2>1. Unclaimed(c) \subseteq {s \in Fits[m] : Claimed[s] = None}
    BY <1>2 DEF Unclaimed, Candidates
  <2>2. pc'[c] = "hold" /\ Written(c)' /\ Flagged(c)' = Unclaimed(c)
    BY <1>4, <1>5, <1>8, <2>1
  <2> QED
    BY <1>2, <1>3, <1>4, <1>8, <2>1, <2>2 DEF Decided
<1>9. CASE Claimants(c) = {} /\ Unclaimed(c) = {} /\ Decide(c, "unmatched", {})
  <2>1. pc'[c] = "unmatched" /\ Written(c)'
    BY <1>5, <1>9
  <2> QED
    BY <1>2, <1>3, <1>4, <1>9, <2>1 DEF Decided, NoneFits
<1> QED
  BY <1>6, <1>7, <1>8, <1>9 DEF FindMatchCandidates

\* What a call has decided is still right after a statement of its own that
\* commits nothing.
LEMMA ChoiceKept ==
  ASSUME db' = db, NEW m \in Messages
  PROVE  /\ Abstract!Claimants(m)' \subseteq Abstract!Claimants(m)
         /\ Abstract!Unclaimed(m)' \subseteq Abstract!Unclaimed(m)
         /\ \A s \in Sessions : Abstract!Preferred(m, s) => Abstract!Preferred(m, s)'
<1>1. Forward
  BY DEF Forward, Pending, IsParsed
<1> QED
  BY <1>1, DecidedStays

\* The payment is inserted, unless it is there.
LEMMA InsertIsRight ==
  ASSUME IInv, NEW c \in Calls, Written(c), Decided(c),
         NEW s \in Sessions, InsertPayment(c, s)
  PROVE  Written(c)' /\ Decided(c)'
<1>1. RowsTyped /\ CallsTyped /\ LocksExclusive /\ OwnWrites(c)
  BY Typed DEF IInv
<1>2. PICK m \in Messages : m = sms[c]
  BY <1>1 DEF OwnWrites, InsertPayment
<1> DEFINE r == PaymentRow(s, Trx[m])
<1>3. /\ Trx[m] \in TrxIds /\ todo[c] = {s} /\ r \notin DOMAIN writes[c]
      /\ r # SmsRow(m) /\ r # ProfileRow /\ r \in Rows /\ m \in ValuesOf(r)
  BY <1>1, <1>2, RowKeys, RowValues, TxAssumption DEF OwnWrites, InsertPayment
<1>4. /\ pc[c] = "insert" /\ pc'[c] = "pay" /\ sms'[c] = m /\ todo'[c] = {s}
      /\ Conflicts(s, Trx[m]) => UNCHANGED <<db, writes>>
      /\ ~Conflicts(s, Trx[m]) => Write(c, r, m)
  BY <1>1, <1>2, <1>3 DEF InsertPayment, Goto, CallsTyped
<1>5. /\ db' = db
      /\ \A x \in DOMAIN writes[c] : x \in DOMAIN writes'[c] /\ writes'[c][x] = writes[c][x]
      /\ Holds(c, ProfileRow)' => Holds(c, ProfileRow)
      /\ Holds(c, r)' => writes'[c][r] = m /\ db'[r] = None
  <2>1. CASE Conflicts(s, Trx[m])
    BY <1>3, <1>4, <2>1 DEF Holds
  <2>2. CASE ~Conflicts(s, Trx[m])
    <3>1. /\ db' = db
          /\ DOMAIN writes'[c] = DOMAIN writes[c] \cup {r}
          /\ writes'[c][r] = m
          /\ \A x \in DOMAIN writes[c] \ {r} : writes'[c][x] = writes[c][x]
      BY <1>1, <1>3, <1>4, <2>2, WriteRow
    <3> QED
      BY <1>3, <2>2, <3>1 DEF Holds, Conflicts
  <2> QED
    BY <2>1, <2>2
<1>6. Written(c)'
  BY <1>2, <1>4, <1>5 DEF Written, Holds, AfterParse, AfterBalance
<1>7. Abstract!Preferred(m, s)'
  BY <1>2, <1>3, <1>4, <1>5, ChoiceKept DEF Decided
<1> QED
  BY <1>2, <1>4, <1>6, <1>7 DEF Decided

\* The session paid for is written as a whole.
LEMMA UpdateIsRight ==
  ASSUME IInv, NEW c \in Calls, Written(c), Decided(c),
         NEW s \in Sessions, UpdateSession(c, s)
  PROVE  Written(c)' /\ Decided(c)'
<1> DEFINE r == SessionRow(s)
           v == [status |-> "succeeded", review |-> FALSE]
<1>1. RowsTyped /\ CallsTyped /\ LocksExclusive /\ OwnWrites(c)
  BY Typed DEF IInv
<1>2. PICK m \in Messages : m = sms[c]
  BY <1>1 DEF OwnWrites, UpdateSession
<1>3. /\ Trx[m] \in TrxIds /\ todo[c] = {s}
      /\ r # SmsRow(m) /\ r # ProfileRow /\ r # PaymentRow(s, Trx[m])
      /\ r \in Rows /\ v \in ValuesOf(r)
  <2>1. Trx[m] \in TrxIds /\ todo[c] = {s}
    BY <1>1, <1>2, TxAssumption DEF OwnWrites, UpdateSession
  <2>2. r # SmsRow(m) /\ r # ProfileRow /\ r # PaymentRow(s, Trx[m])
    BY RowKeys
  <2>3. r \in Rows /\ v \in ValuesOf(r)
    BY RowValues DEF SessionValues
  <2> QED
    BY <2>1, <2>2, <2>3
<1>4. /\ pc[c] = "pay" /\ pc'[c] = "match" /\ sms'[c] = m /\ todo'[c] = {s}
      /\ Write(c, r, v)
  BY <1>1, <1>2, <1>3 DEF UpdateSession, Goto, CallsTyped
<1> HIDE DEF v
<1>5. /\ db' = db
      /\ DOMAIN writes'[c] = DOMAIN writes[c] \cup {r}
      /\ writes'[c][r] = v
      /\ \A x \in DOMAIN writes[c] \ {r} : writes'[c][x] = writes[c][x]
  BY <1>1, <1>3, <1>4, WriteRow
<1>6. Written(c)'
  BY <1>2, <1>3, <1>4, <1>5 DEF Written, Holds, AfterParse, AfterBalance, v
<1>7. Abstract!Preferred(m, s)'
  BY <1>2, <1>3, <1>4, <1>5, ChoiceKept DEF Decided
<1> QED
  BY <1>2, <1>4, <1>6, <1>7 DEF Decided

\* A session held is flagged, and changed in nothing else.
LEMMA FlagIsRight ==
  ASSUME IInv, NEW c \in Calls, Written(c), Decided(c),
         NEW s \in Sessions, FlagSession(c, s)
  PROVE  Written(c)' /\ Decided(c)'
<1> DEFINE r == SessionRow(s)
           v == [View(c, r) EXCEPT !.review = TRUE]
<1>1. RowsTyped /\ CallsTyped /\ LocksExclusive /\ OwnWrites(c)
  BY Typed DEF IInv
<1>2. PICK m \in Messages : m = sms[c]
  BY <1>1 DEF OwnWrites, FlagSession
<1>3. db[r] \in SessionValues /\ View(c, r) \in SessionValues
  BY <1>1, RowValues, ViewTyped DEF RowsTyped
<1>4. /\ pc[c] = "hold" /\ sms'[c] = m /\ todo'[c] = todo[c] \ {s} /\ s \in todo[c]
      /\ pc'[c] = IF todo[c] = {s} THEN "held" ELSE "hold"
      /\ Write(c, r, v)
  BY <1>1, <1>2 DEF FlagSession, Goto, CallsTyped, Oldest
<1>5. v = [db[r] EXCEPT !.review = TRUE]
  <2>1. CASE Holds(c, r)
    <3>1. View(c, r) = [db[r] EXCEPT !.review = TRUE]
      BY <1>4, <2>1 DEF Written, View
    <3> QED
      BY <1>3, <3>1 DEF SessionValues
  <2>2. CASE ~Holds(c, r)
    BY <2>2 DEF View
  <2> QED
    BY <2>1, <2>2
<1>6. /\ r # SmsRow(m) /\ r # ProfileRow /\ r \in Rows /\ v \in ValuesOf(r)
  BY <1>3, RowKeys, RowValues DEF SessionValues
<1> HIDE DEF v
<1>7. /\ db' = db
      /\ DOMAIN writes'[c] = DOMAIN writes[c] \cup {r}
      /\ writes'[c][r] = v
      /\ \A x \in DOMAIN writes[c] \ {r} : writes'[c][x] = writes[c][x]
  BY <1>1, <1>4, <1>6, WriteRow
<1>8. ASSUME NEW t \in Sessions, Holds(c, SessionRow(t))'
      PROVE  writes'[c][SessionRow(t)] = [db'[SessionRow(t)] EXCEPT !.review = TRUE]
  <2>1. CASE t = s
    BY <1>5, <1>7, <2>1
  <2>2. CASE t # s
    BY <1>4, <1>7, <1>8, <2>2, RowKeys DEF Written, Holds
  <2> QED
    BY <2>1, <2>2
<1>9. Written(c)'
  BY <1>2, <1>4, <1>6, <1>7, <1>8 DEF Written, Holds, AfterParse, AfterBalance
<1>10. Flagged(c)' = Flagged(c)
  BY <1>4, <1>7, RowKeys DEF Flagged, Holds
<1>11. /\ Abstract!Claimants(m)' \subseteq Abstract!Claimants(m)
       /\ Abstract!Unclaimed(m)' \subseteq Abstract!Unclaimed(m)
  BY <1>7, ChoiceKept
<1>12. /\ Flagged(c)' \subseteq {t \in Fits[m] : Claimed[t] = None}
       /\ \E t, u \in Flagged(c)' : t # u
       /\ Abstract!Claimants(m)' = {} /\ Abstract!Unclaimed(m)' \subseteq Flagged(c)'
  BY <1>2, <1>4, <1>10, <1>11 DEF Decided
<1>13. pc'[c] = "held" => todo'[c] = {}
  BY <1>4
<1>14. pc'[c] \in {"hold", "held"} /\ sms'[c] = m
  BY <1>4
<1> QED
  BY <1>9, <1>12, <1>13, <1>14 DEF Decided

\* A statement that commits nothing.
LEMMA QuietStep ==
  ASSUME IInv, NEW c \in Calls, Written(c), Decided(c), Process(c), ~Committing(c)
  PROVE  Written(c)' /\ Decided(c)'
<1>1. CASE \/ \E m \in Messages : Start(c, m)
           \/ GetSMSMessage(c)
           \/ FindDuplicateTrxID(c)
           \/ Abort(c)
  BY <1>1, FirstReads DEF Abort
<1>2. CASE UpdateSMSParsed(c) \/ GetProfile(c) \/ UpdateTrackedBalance(c)
  BY <1>2, FirstWrites
<1>3. CASE FindMatchCandidates(c)
  BY <1>3, ChoiceIsRight
<1>4. CASE \E s \in Sessions : InsertPayment(c, s) \/ UpdateSession(c, s) \/ FlagSession(c, s)
  BY <1>4, InsertIsRight, UpdateIsRight, FlagIsRight
<1> QED
  BY <1>1, <1>2, <1>3, <1>4 DEF Process, Committing

-----------------------------------------------------------------------------
(* Every step keeps the invariant.                                         *)

\* A handler gives up a session that no transaction holds.
LEMMA GiveUpForward ==
  ASSUME IInv, NEW s \in Sessions, GiveUp(s)
  PROVE  /\ Forward
         /\ \A t \in Sessions, x \in TrxIds : db'[PaymentRow(t, x)] = db[PaymentRow(t, x)]
         /\ \A c \in Calls : \A r \in DOMAIN writes[c] : db'[r] = db[r]
<1> DEFINE r == SessionRow(s)
<1>1. RowsTyped /\ r \in Rows /\ db[r] \in SessionValues
  BY Typed, RowValues DEF IInv, RowsTyped
<1>2. /\ db'[r].status = "canceled"
      /\ \A x \in Rows \ {r} : db'[x] = db[x]
      /\ \A c \in Calls : r \notin DOMAIN writes[c] /\ DOMAIN writes[c] \subseteq Rows
  BY <1>1 DEF GiveUp, RowsTyped, Holds, SessionValues
<1>3. /\ \A t \in Sessions, x \in TrxIds : db'[PaymentRow(t, x)] = db[PaymentRow(t, x)]
      /\ \A m \in Messages : db'[SmsRow(m)] = db[SmsRow(m)]
      /\ \A t \in Sessions \ {s} : db'[SessionRow(t)] = db[SessionRow(t)]
  BY <1>2, RowKeys, RowValues
<1> QED
  BY <1>2, <1>3 DEF Forward, Pending, IsParsed

\* Every step keeps what the calls have written and decided.
LEMMA NextCommitInv == IInv /\ CommitInv /\ [Next]_vars => CommitInv'
<1> SUFFICES ASSUME IInv, CommitInv, [Next]_vars PROVE CommitInv'
  OBVIOUS
<1>1. ASSUME NEW c \in Calls, Process(c) PROVE CommitInv'
  <2>1. \A d \in Calls \ {c} : /\ writes'[d] = writes[d] /\ pc'[d] = pc[d]
                               /\ sms'[d] = sms[d] /\ todo'[d] = todo[d]
    BY <1>1, MovesAlone
  <2>2. CASE Committing(c)
    <3>1. /\ Forward
          /\ \A d \in Calls \ {c} : \A r \in DOMAIN writes[d] : db'[r] = db[r]
          /\ PayersParsed'
      BY <2>2, CommitForward, CommitPayers DEF CommitInv
    <3>2. \A d \in Calls \ {c} : Written(d)' /\ Decided(d)'
      BY <2>1, <3>1, OtherCallStays DEF CommitInv
    <3>3. pc'[c] = "over"
      BY <2>2, CommitForm, Typed DEF Classify, Goto, IInv, CallsTyped
    <3>4. Written(c)' /\ Decided(c)'
      BY <3>3 DEF Written, Decided, AfterParse, AfterBalance
    <3> QED
      BY <3>1, <3>2, <3>4 DEF CommitInv
  <2>3. CASE ~Committing(c)
    <3>1. db' = db
      BY <1>1, <2>3, CommitsAlone
    <3>2. Forward /\ PayersParsed'
      BY <3>1 DEF Forward, Pending, IsParsed, PayersParsed, CommitInv
    <3>3. \A d \in Calls \ {c} : Written(d)' /\ Decided(d)'
      BY <2>1, <3>1, <3>2, OtherCallStays DEF CommitInv
    <3> QED
      BY <1>1, <2>3, <3>2, <3>3, QuietStep DEF CommitInv
  <2> QED
    BY <2>2, <2>3
<1>2. ASSUME NEW s \in Sessions, GiveUp(s) PROVE CommitInv'
  <2>1. UNCHANGED <<writes, pc, sms, seen, todo>>
    BY <1>2 DEF GiveUp
  <2> QED
    BY <1>2, <2>1, GiveUpForward, OtherCallStays, PayersStay DEF CommitInv
<1>3. CASE UNCHANGED vars
  <2>1. UNCHANGED <<db, writes, pc, sms, seen, todo>>
    BY <1>3 DEF vars
  <2>2. Forward /\ PayersParsed'
    BY <2>1 DEF Forward, Pending, IsParsed, PayersParsed, CommitInv
  <2> QED
    BY <2>1, <2>2, OtherCallStays DEF CommitInv
<1> QED
  BY <1>1, <1>2, <1>3 DEF Next

\* No call has written or decided anything before it starts.
LEMMA InitCommitInv == Init => CommitInv
<1> SUFFICES ASSUME Init PROVE CommitInv
  OBVIOUS
<1>1. \A c \in Calls : pc[c] = "idle"
  BY DEF Init
<1>2. \A s \in Sessions, x \in TrxIds : db[PaymentRow(s, x)] = None
  BY NewRowValues, RowValues DEF Init
<1> QED
  BY <1>1, <1>2 DEF CommitInv, Written, Decided, PayersParsed, AfterParse, AfterBalance

\* Engine.Process: what a call has decided from rows it read some time ago
\* stays right until it commits, and who paid for a session is parsed.
THEOREM DecisionsStay == Spec => []CommitInv
<1> QED
  BY InitCommitInv, NextCommitInv, CommittedInvariant, PTL DEF Spec

-----------------------------------------------------------------------------
(* Every step is one of Commits, or shows nothing.                         *)

\* The rows of a new database are those Commits starts from.
LEMMA InitAbstract == Init => Abstract!Init
<1> SUFFICES ASSUME Init PROVE Abstract!Init
  OBVIOUS
<1>1. \A p \in Sessions \X TrxIds : p[1] \in Sessions /\ p[2] \in TrxIds
  OBVIOUS
<1>2. NewRow(ProfileRow) = Opening
  BY DEF NewRow, ProfileRow
<1> QED
  BY <1>1, <1>2, NewRowValues, RowValues DEF Init, Abstract!Init

\* No step of Commits shows where nothing is committed.
LEMMA SameRows == db' = db => UNCHANGED Abstract!vars
BY DEF Abstract!vars

\* What a commit writes beside its SMS.
NoSessionWritten(c) ==
  /\ \A s \in Sessions : View(c, SessionRow(s)) = db[SessionRow(s)]
  /\ \A s \in Sessions, x \in TrxIds : View(c, PaymentRow(s, x)) = db[PaymentRow(s, x)]

\* A call that holds its parsed SMS is alone with its TrxID.
LEMMA AloneWithTrx ==
  ASSUME ParsedOnce, NEW c \in Calls, NEW m \in Messages, ParsedIn(c, m)
  PROVE  ~Abstract!TwinParsed(m)
BY AbstractSets DEF ParsedOnce, ParsedSomewhere, IsParsed, Twins

\* A commit of a parsed SMS concludes what becomes of it.
LEMMA ShownConclude ==
  ASSUME ParsedOnce, NEW c \in Calls, NEW m \in Messages, NEW match, NEW session,
         Shown(c, m, match, session), ParsedIn(c, m)
  PROVE  Abstract!Conclude(m, match, session)
<1>1. /\ View(c, SmsRow(m)) \in SmsValues
      /\ db'[SmsRow(m)] = [View(c, SmsRow(m)) EXCEPT !.match = match, !.matched = session]
      /\ \A o \in Messages \ {m} : db'[SmsRow(o)] = db[SmsRow(o)]
      /\ View(c, SmsRow(m)).parse = "parsed"
  BY DEF Shown, ParsedIn, View
<1>2. db'[SmsRow(m)] = [parse |-> "parsed", match |-> match, matched |-> session]
  BY <1>1 DEF SmsValues
<1>3. [o \in Messages |-> db[SmsRow(o)]]' =
        [[o \in Messages |-> db[SmsRow(o)]] EXCEPT
           ![m] = [parse |-> "parsed", match |-> match, matched |-> session]]
  BY <1>1, <1>2
<1> QED
  BY <1>3, AloneWithTrx DEF Abstract!Conclude

\* The balance as Commits books it.
LEMMA BooksBalance ==
  ASSUME NEW c \in Calls, NEW m \in Messages, m = sms[c], pc[c] \in AfterBalance, Written(c),
         db'[ProfileRow] = View(c, ProfileRow)
  PROVE  Abstract!Book(m)
BY DEF Written, View, Abstract!Book

\* A commit that touches no session and no payment.
LEMMA OnlySms ==
  ASSUME NEW c \in Calls, NEW m \in Messages, NEW match, NEW session,
         Shown(c, m, match, session), NoSessionWritten(c)
  PROVE  /\ [s \in Sessions |-> db[SessionRow(s)]]' = [s \in Sessions |-> db[SessionRow(s)]]
         /\ [p \in Sessions \X TrxIds |-> db[PaymentRow(p[1], p[2])]]'
              = [p \in Sessions \X TrxIds |-> db[PaymentRow(p[1], p[2])]]
<1>1. /\ \A s \in Sessions : db'[SessionRow(s)] = db[SessionRow(s)]
      /\ \A s \in Sessions, x \in TrxIds : db'[PaymentRow(s, x)] = db[PaymentRow(s, x)]
  BY DEF Shown, NoSessionWritten
<1>2. \A p \in Sessions \X TrxIds : p[1] \in Sessions /\ p[2] \in TrxIds
  OBVIOUS
<1> QED
  BY <1>1, <1>2

\* The commits of a call that pays for nothing and flags nothing.
LEMMA ClassifyRefines ==
  ASSUME IInv, ParsedOnce, NEW c \in Calls, Written(c), Decided(c),
         NEW m \in Messages, m = sms[c],
         NEW match \in {"unmatched", "held", "suspect", "duplicate", "matched"},
         Shown(c, m, match, None),
         \/ pc[c] = "duplicate" /\ match = "duplicate"
         \/ pc[c] = "balance" /\ match = "suspect"
         \/ pc[c] = "unmatched" /\ match = "unmatched"
  PROVE  Abstract!Duplicate(m) \/ Abstract!Suspect(m) \/ Abstract!Leave(m)
<1>1. OwnWrites(c) /\ db'[ProfileRow] = View(c, ProfileRow)
  BY DEF IInv, Shown
<1>2. NoSessionWritten(c)
  BY <1>1, RowKeys DEF NoSessionWritten, OwnWrites, View, Holds
<1>3. /\ [s \in Sessions |-> db[SessionRow(s)]]' = [s \in Sessions |-> db[SessionRow(s)]]
      /\ [p \in Sessions \X TrxIds |-> db[PaymentRow(p[1], p[2])]]'
           = [p \in Sessions \X TrxIds |-> db[PaymentRow(p[1], p[2])]]
  BY <1>2, OnlySms
<1>4. CASE pc[c] = "duplicate"
  <2>1. /\ ~Holds(c, SmsRow(m)) /\ db'[ProfileRow] = db[ProfileRow]
        /\ Abstract!TwinParsed(m)
    BY <1>1, <1>4 DEF OwnWrites, View, Holds, Decided
  <2>2. /\ db'[SmsRow(m)] = [db[SmsRow(m)] EXCEPT !.match = "duplicate", !.matched = None]
        /\ \A o \in Messages \ {m} : db'[SmsRow(o)] = db[SmsRow(o)]
    BY <1>4, <2>1 DEF Shown, View
  <2>3. [o \in Messages |-> db[SmsRow(o)]]' =
          [[o \in Messages |-> db[SmsRow(o)]] EXCEPT
             ![m].match = "duplicate", ![m].matched = None]
    BY <2>2
  <2> QED
    BY <1>3, <2>1, <2>3 DEF Abstract!Duplicate
<1>5. CASE pc[c] \in {"balance", "unmatched"}
  <2>1. Holds(c, SmsRow(m)) /\ writes[c][SmsRow(m)].parse = "parsed"
    BY <1>5 DEF Written, AfterParse
  <2>2. Abstract!Conclude(m, match, None)
    BY <2>1, ShownConclude DEF ParsedIn
  <2>3. CASE pc[c] = "balance"
    <3>1. Balance[m] # None /\ db'[ProfileRow] = db[ProfileRow]
      BY <1>1, <2>3 DEF Written, View
    <3> QED
      BY <1>3, <2>2, <2>3, <3>1 DEF Abstract!Suspect
  <2>4. CASE pc[c] = "unmatched"
    <3>1. Abstract!Book(m) /\ NoneFits(m)
      BY <1>1, <2>4, BooksBalance DEF Decided, AfterBalance
    <3> QED
      BY <1>3, <2>2, <2>4, <3>1 DEF Abstract!Leave, NoneFits
  <2> QED
    BY <1>5, <2>3, <2>4
<1> QED
  BY <1>4, <1>5

\* The commit of a call that holds its SMS.
LEMMA HoldRefines ==
  ASSUME IInv, ParsedOnce, NEW c \in Calls, Written(c), Decided(c),
         NEW m \in Messages, m = sms[c], pc[c] = "held", Shown(c, m, "held", None)
  PROVE  Abstract!Hold(m, Flagged(c))
<1>1. /\ OwnWrites(c) /\ db'[ProfileRow] = View(c, ProfileRow) /\ todo[c] = {}
      /\ Holds(c, SmsRow(m)) /\ writes[c][SmsRow(m)].parse = "parsed"
  BY DEF IInv, Shown, Decided, Written, AfterParse
<1>2. Abstract!Conclude(m, "held", None)
  BY <1>1, ShownConclude DEF ParsedIn
<1>3. Abstract!Book(m)
  BY <1>1, BooksBalance DEF AfterBalance
<1>4. [s \in Sessions |-> db[SessionRow(s)]]' =
        [s \in Sessions |->
           IF s \in Flagged(c)
             THEN [[t \in Sessions |-> db[SessionRow(t)]][s] EXCEPT !.review = TRUE]
             ELSE [t \in Sessions |-> db[SessionRow(t)]][s]]
  <2>1. ASSUME NEW s \in Sessions
        PROVE  db'[SessionRow(s)] = IF s \in Flagged(c)
                                      THEN [db[SessionRow(s)] EXCEPT !.review = TRUE]
                                      ELSE db[SessionRow(s)]
    <3>1. s \in Flagged(c) <=> Holds(c, SessionRow(s))
      BY <1>1 DEF Flagged
    <3>2. db'[SessionRow(s)] = View(c, SessionRow(s))
      BY DEF Shown
    <3>3. Holds(c, SessionRow(s)) =>
            writes[c][SessionRow(s)] = [db[SessionRow(s)] EXCEPT !.review = TRUE]
      BY DEF Written
    <3> QED
      BY <3>1, <3>2, <3>3 DEF View
  <2> QED
    BY <2>1
<1>5. [p \in Sessions \X TrxIds |-> db[PaymentRow(p[1], p[2])]]'
        = [p \in Sessions \X TrxIds |-> db[PaymentRow(p[1], p[2])]]
  <2>1. \A s \in Sessions, x \in TrxIds : db'[PaymentRow(s, x)] = db[PaymentRow(s, x)]
    BY CommitWithoutPayment DEF Shown
  <2>2. \A p \in Sessions \X TrxIds : p[1] \in Sessions /\ p[2] \in TrxIds
    OBVIOUS
  <2> QED
    BY <2>1, <2>2
<1>6. /\ Flagged(c) \subseteq {s \in Fits[m] : Claimed[s] = None}
      /\ \E s, t \in Flagged(c) : s # t
      /\ Abstract!Claimants(m) = {} /\ Abstract!Unclaimed(m) \subseteq Flagged(c)
  BY DEF Decided
<1> QED
  BY <1>2, <1>3, <1>4, <1>5, <1>6 DEF Abstract!Hold

\* The commit of a call that has paid for a session.
LEMMA SettleRefines ==
  ASSUME IInv, ParsedOnce, PayersParsed, NEW c \in Calls, Written(c), Decided(c),
         NEW m \in Messages, m = sms[c], NEW s \in Sessions, todo[c] = {s},
         pc[c] = "match", Shown(c, m, "matched", s)
  PROVE  Abstract!Settle(m, s)
<1>1. /\ OwnWrites(c) /\ db'[ProfileRow] = View(c, ProfileRow)
      /\ Holds(c, SmsRow(m)) /\ writes[c][SmsRow(m)].parse = "parsed"
      /\ Abstract!Preferred(m, s)
  BY DEF IInv, Shown, Decided, Written, AfterParse
<1>2. ~Abstract!TwinParsed(m)
  BY <1>1, AloneWithTrx DEF ParsedIn
<1>3. Abstract!Conclude(m, "matched", s)
  BY <1>1, ShownConclude DEF ParsedIn
<1>4. Abstract!Book(m)
  BY <1>1, BooksBalance DEF AfterBalance
<1>5. /\ View(c, PaymentRow(s, Trx[m])) # None
      /\ \A t \in Sessions \ {s} : View(c, SessionRow(t)) = db[SessionRow(t)]
      /\ \A t \in Sessions, x \in TrxIds :
           <<t, x>> # <<s, Trx[m]>> => View(c, PaymentRow(t, x)) = db[PaymentRow(t, x)]
      /\ Trx[m] \in TrxIds
  BY CommitPayment, TxAssumption
<1>6. [t \in Sessions |-> db[SessionRow(t)]]' =
        [[t \in Sessions |-> db[SessionRow(t)]] EXCEPT
           ![s] = [status |-> "succeeded", review |-> FALSE]]
  <2>1. View(c, SessionRow(s)) = [status |-> "succeeded", review |-> FALSE]
    <3>1. Holds(c, SessionRow(s))
      BY <1>1 DEF OwnWrites, Holds
    <3> QED
      BY <3>1 DEF Written, View
  <2>2. \A t \in Sessions : db'[SessionRow(t)] = View(c, SessionRow(t))
    BY DEF Shown
  <2>3. \A t \in Sessions : db'[SessionRow(t)] =
          IF t = s THEN [status |-> "succeeded", review |-> FALSE] ELSE db[SessionRow(t)]
    BY <1>5, <2>1, <2>2
  <2> QED
    BY <2>3
\* Its payment is new, or there already: then it is paid by an SMS of the same
\* TrxID that is parsed, which is m.
<1>7. /\ db[PaymentRow(s, Trx[m])] \in {None, m}
      /\ View(c, PaymentRow(s, Trx[m])) = m
  <2>1. CASE Holds(c, PaymentRow(s, Trx[m]))
    BY <2>1 DEF Written, View
  <2>2. CASE ~Holds(c, PaymentRow(s, Trx[m]))
    <3>1. PICK o \in Messages : db[PaymentRow(s, Trx[m])] = o
      BY <1>5, <2>2, Typed, RowValues DEF View, IInv, RowsTyped
    <3>2. Trx[o] = Trx[m] /\ IsParsed(o)
      BY <1>5, <2>2, <3>1 DEF PayersParsed, IsParsed, View
    <3>3. o = m
      BY <1>2, <3>2 DEF Abstract!TwinParsed, Abstract!Parsed, IsParsed
    <3> QED
      BY <2>2, <3>1, <3>3 DEF View
  <2> QED
    BY <2>1, <2>2
<1>8. [p \in Sessions \X TrxIds |-> db[PaymentRow(p[1], p[2])]]' =
        [[p \in Sessions \X TrxIds |-> db[PaymentRow(p[1], p[2])]] EXCEPT
           ![<<s, Trx[m]>>] = m]
  <2>1. \A p \in Sessions \X TrxIds : /\ p[1] \in Sessions /\ p[2] \in TrxIds
                                      /\ p = <<p[1], p[2]>>
    OBVIOUS
  <2>2. \A p \in Sessions \X TrxIds :
          db'[PaymentRow(p[1], p[2])] =
            IF p = <<s, Trx[m]>> THEN m ELSE db[PaymentRow(p[1], p[2])]
    BY <1>5, <1>7, <2>1 DEF Shown
  <2> QED
    BY <1>5, <2>2
<1>9. [p \in Sessions \X TrxIds |-> db[PaymentRow(p[1], p[2])]][<<s, Trx[m]>>] \in {None, m}
  BY <1>5, <1>7
<1> QED
  BY <1>1, <1>3, <1>4, <1>6, <1>8, <1>9 DEF Abstract!Settle

\* Every commit is a step of Commits.
LEMMA CommitRefines ==
  ASSUME IInv, ParsedOnce, CommitInv, NEW c \in Calls, Committing(c)
  PROVE  Abstract!Next
<1> PICK m \in Messages : m = sms[c]
  BY CommitForm
<1>1. PICK match \in {"unmatched", "held", "suspect", "duplicate", "matched"},
           session \in Sessions \cup {None} :
        /\ Classify(c, match, session)
        /\ pc[c] = "duplicate" => match = "duplicate" /\ session = None
        /\ pc[c] = "balance" => match = "suspect" /\ session = None
        /\ pc[c] = "unmatched" => match = "unmatched" /\ session = None
        /\ pc[c] = "held" => match = "held" /\ session = None
        /\ pc[c] = "match" => match = "matched" /\ session \in Sessions
                              /\ todo[c] = {session}
  BY CommitForm
<1>2. pc[c] \in {"duplicate", "balance", "unmatched", "held", "match"}
  BY CommitForm
<1>3. Shown(c, m, match, session)
  BY <1>1, <1>2, Committed
<1>4. Written(c) /\ Decided(c) /\ PayersParsed
  BY DEF CommitInv
<1>5. CASE pc[c] \in {"duplicate", "balance", "unmatched"}
  <2>1. Abstract!Duplicate(m) \/ Abstract!Suspect(m) \/ Abstract!Leave(m)
    BY <1>1, <1>3, <1>4, <1>5, ClassifyRefines
  <2> QED
    BY <2>1 DEF Abstract!Next
<1>6. CASE pc[c] = "held"
  <2>1. Abstract!Hold(m, Flagged(c))
    BY <1>1, <1>3, <1>4, <1>6, HoldRefines
  <2>2. Flagged(c) \in SUBSET Sessions
    BY Typed DEF Flagged, IInv, CallsTyped
  <2> QED
    BY <2>1, <2>2 DEF Abstract!Next
<1>7. CASE pc[c] = "match"
  <2>1. Abstract!Settle(m, session) /\ session \in Sessions
    BY <1>1, <1>3, <1>4, <1>7, SettleRefines
  <2> QED
    BY <2>1 DEF Abstract!Next
<1> QED
  BY <1>2, <1>5, <1>6, <1>7

\* So is giving up a session.
LEMMA GiveUpRefines ==
  ASSUME IInv, NEW s \in Sessions, GiveUp(s)
  PROVE  Abstract!GiveUp(s)
<1>1. /\ db' = [db EXCEPT ![SessionRow(s)].status = "canceled"]
      /\ DOMAIN db = Rows /\ SessionRow(s) \in Rows
  BY Typed, RowValues DEF GiveUp, IInv, RowsTyped
<1>2. /\ db'[SessionRow(s)] = [db[SessionRow(s)] EXCEPT !.status = "canceled"]
      /\ \A r \in Rows \ {SessionRow(s)} : db'[r] = db[r]
  BY <1>1
<1>3. /\ \A t \in Sessions, x \in TrxIds : db'[PaymentRow(t, x)] = db[PaymentRow(t, x)]
      /\ \A m \in Messages : db'[SmsRow(m)] = db[SmsRow(m)]
      /\ \A t \in Sessions \ {s} : db'[SessionRow(t)] = db[SessionRow(t)]
      /\ db'[ProfileRow] = db[ProfileRow]
  BY <1>2, RowKeys, RowValues
<1>4. \A p \in Sessions \X TrxIds : p[1] \in Sessions /\ p[2] \in TrxIds
  OBVIOUS
<1>5. [t \in Sessions |-> db[SessionRow(t)]]' =
        [[t \in Sessions |-> db[SessionRow(t)]] EXCEPT ![s].status = "canceled"]
  BY <1>2, <1>3
<1> QED
  BY <1>3, <1>4, <1>5 DEF Abstract!GiveUp

\* Whatever step is taken.
LEMMA StepRefines ==
  ASSUME IInv, ParsedOnce, CommitInv, [Next]_vars
  PROVE  [Abstract!Next]_(Abstract!vars)
<1>1. ASSUME NEW c \in Calls, Process(c), ~Committing(c) PROVE UNCHANGED Abstract!vars
  BY <1>1, CommitsAlone, SameRows
<1>2. ASSUME NEW c \in Calls, Committing(c) PROVE Abstract!Next
  BY <1>2, CommitRefines
<1>3. ASSUME NEW s \in Sessions, GiveUp(s) PROVE Abstract!Next
  BY <1>3, GiveUpRefines DEF Abstract!Next
<1>4. CASE UNCHANGED vars
  BY <1>4, SameRows DEF vars
<1> QED
  BY <1>1, <1>2, <1>3, <1>4 DEF Next

\* Engine.Process, however its transactions overlap, are kept waiting or are
\* aborted, commits whole outcomes, each of them right for the rows committed
\* before it: it implements Commits.
THEOREM CommitsImplemented == Spec => ImplementsCommits
<1>1. Init => CommitInv /\ Abstract!Init
  BY InitCommitInv, InitAbstract
<1>2. IInv /\ ParsedOnce /\ CommitInv /\ [Next]_vars => [Abstract!Next]_(Abstract!vars)
  BY StepRefines
<1>3. Init => ParsedOnce
  BY InitParsedOnce
<1> QED
  BY <1>1, <1>2, <1>3, NextParsedOnce, DecisionsStay, CommittedInvariant, PTL
     DEF Spec, ImplementsCommits, Abstract!Spec
=============================================================================
