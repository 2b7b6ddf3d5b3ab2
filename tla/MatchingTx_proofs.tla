-------------------------- MODULE MatchingTx_proofs --------------------------
(***************************************************************************)
(* Theorems about MatchingTx: what is committed stays consistent, one row  *)
(* is parsed per TrxID, and no calls wait for each other in a circle, for  *)
(* any number of calls, SMS and sessions.                                  *)
(***************************************************************************)
EXTENDS MatchingTx, FiniteSetTheorems, WellFoundedInduction, TLAPS

-----------------------------------------------------------------------------
(* The rows.                                                               *)

\* Rows of different tables, or with different keys, are different.
LEMMA RowKeys ==
  /\ \A m, o : SmsRow(m) = SmsRow(o) => m = o
  /\ \A s, t : SessionRow(s) = SessionRow(t) => s = t
  /\ \A s, t, x, y : PaymentRow(s, x) = PaymentRow(t, y) => s = t /\ x = y
  /\ \A m, s, x : /\ SmsRow(m) # SessionRow(s) /\ SmsRow(m) # PaymentRow(s, x)
                  /\ SmsRow(m) # ProfileRow
  /\ \A s, t, x : /\ SessionRow(s) # PaymentRow(t, x) /\ SessionRow(s) # ProfileRow
                  /\ PaymentRow(t, x) # ProfileRow
<1>1. \A m, o : SmsRow(m)[1] = "sms" /\ (SmsRow(m) = SmsRow(o) => m = o)
  BY DEF SmsRow
<1>2. \A s, t : SessionRow(s)[1] = "session" /\ (SessionRow(s) = SessionRow(t) => s = t)
  BY DEF SessionRow
<1>3. \A s, t, x, y : /\ PaymentRow(s, x)[1] = "payment"
                      /\ PaymentRow(s, x) = PaymentRow(t, y) => s = t /\ x = y
  BY DEF PaymentRow
<1>4. ProfileRow[1] = "profile"
  BY DEF ProfileRow
<1> QED
  BY <1>1, <1>2, <1>3, <1>4

\* What each kind of row may hold.
LEMMA RowValues ==
  /\ \A m \in Messages : SmsRow(m) \in Rows /\ ValuesOf(SmsRow(m)) = SmsValues
  /\ \A s \in Sessions : SessionRow(s) \in Rows /\ ValuesOf(SessionRow(s)) = SessionValues
  /\ \A s \in Sessions, x \in TrxIds :
       /\ PaymentRow(s, x) \in Rows
       /\ ValuesOf(PaymentRow(s, x)) = Messages \cup {None}
  /\ ProfileRow \in Rows /\ ValuesOf(ProfileRow) = Nat
BY DEF Rows, ValuesOf, SmsRow, SessionRow, PaymentRow, ProfileRow

\* Classifying an SMS keeps the type of its row, and what it was parsed to.
LEMMA ClassifiedRow ==
  ASSUME NEW row \in SmsValues,
         NEW match \in {"unmatched", "held", "suspect", "duplicate", "matched"},
         NEW session \in Sessions \cup {None}
  PROVE  /\ [row EXCEPT !.match = match, !.matched = session] \in SmsValues
         /\ [row EXCEPT !.match = match, !.matched = session].parse = row.parse
BY DEF SmsValues

\* The rows a new database holds.
LEMMA NewRowValues ==
  /\ \A r \in Rows : NewRow(r) \in ValuesOf(r)
  /\ \A m \in Messages : NewRow(SmsRow(m)) =
       [parse |-> "pending", match |-> "unmatched", matched |-> None]
  /\ \A s \in Sessions : NewRow(SessionRow(s)) = [status |-> "pending", review |-> FALSE]
  /\ \A s \in Sessions, x \in TrxIds : NewRow(PaymentRow(s, x)) = None
<1>1. /\ \A m : NewRow(SmsRow(m)) = [parse |-> "pending", match |-> "unmatched", matched |-> None]
      /\ \A s : NewRow(SessionRow(s)) = [status |-> "pending", review |-> FALSE]
      /\ \A s, x : NewRow(PaymentRow(s, x)) = None
      /\ NewRow(ProfileRow) = Opening
  BY DEF NewRow, SmsRow, SessionRow, PaymentRow, ProfileRow
<1>2. \A m \in Messages : NewRow(SmsRow(m)) \in ValuesOf(SmsRow(m))
  BY <1>1, RowValues, ZenonT(30) DEF SmsValues
<1>3. \A s \in Sessions : NewRow(SessionRow(s)) \in ValuesOf(SessionRow(s))
  BY <1>1, RowValues DEF SessionValues
<1>4. \A s \in Sessions, x \in TrxIds : NewRow(PaymentRow(s, x)) \in ValuesOf(PaymentRow(s, x))
  BY <1>1, RowValues
<1>5. NewRow(ProfileRow) \in ValuesOf(ProfileRow)
  BY <1>1, RowValues, TxAssumption
<1>6. \A r \in Rows : NewRow(r) \in ValuesOf(r)
  BY <1>2, <1>3, <1>4, <1>5 DEF Rows
<1> QED
  BY <1>1, <1>6

-----------------------------------------------------------------------------
(* What a write and a commit do.                                           *)

\* The rows are typed, and every transaction is.
RowsTyped ==
  /\ db = [r \in Rows |-> db[r]]
  /\ \A r \in Rows : db[r] \in ValuesOf(r)
  /\ writes = [c \in Calls |-> [r \in DOMAIN writes[c] |-> writes[c][r]]]
  /\ \A c \in Calls :
       /\ DOMAIN writes[c] \subseteq Rows
       /\ \A r \in DOMAIN writes[c] : writes[c][r] \in ValuesOf(r)

\* A statement of a transaction reads a typed value.
LEMMA ViewTyped ==
  ASSUME RowsTyped, NEW c \in Calls, NEW r \in Rows
  PROVE  View(c, r) \in ValuesOf(r)
BY DEF RowsTyped, View, Holds

\* A write changes one row of one transaction.
LEMMA WriteRow ==
  ASSUME RowsTyped, LocksExclusive,
         NEW c \in Calls, NEW r \in Rows, NEW v \in ValuesOf(r), Write(c, r, v)
  PROVE  /\ RowsTyped' /\ LocksExclusive' /\ db' = db
         /\ \A d \in Calls \ {c} : writes'[d] = writes[d]
         /\ DOMAIN writes'[c] = DOMAIN writes[c] \cup {r}
         /\ writes'[c][r] = v
         /\ \A x \in DOMAIN writes[c] \ {r} : writes'[c][x] = writes[c][x]
<1>1. DOMAIN writes = Calls
  BY DEF RowsTyped
<1>2. writes'[c] = [x \in DOMAIN writes[c] \cup {r} |-> IF x = r THEN v ELSE writes[c][x]]
  BY <1>1 DEF Write, With
<1>3. /\ \A d \in Calls \ {c} : writes'[d] = writes[d]
      /\ writes' = [d \in Calls |-> writes'[d]]
  BY <1>1 DEF Write
<1>4. \A d \in Calls : writes'[d] = [x \in DOMAIN writes'[d] |-> writes'[d][x]]
  BY <1>2, <1>3 DEF RowsTyped
<1>5. \A d \in Calls : /\ DOMAIN writes'[d] \subseteq Rows
                       /\ \A x \in DOMAIN writes'[d] : writes'[d][x] \in ValuesOf(x)
  <2>1. /\ DOMAIN writes'[c] \subseteq Rows
        /\ \A x \in DOMAIN writes'[c] : writes'[c][x] \in ValuesOf(x)
    BY <1>2 DEF RowsTyped
  <2>2. ASSUME NEW d \in Calls, d # c
        PROVE  /\ DOMAIN writes'[d] \subseteq Rows
               /\ \A x \in DOMAIN writes'[d] : writes'[d][x] \in ValuesOf(x)
    <3>1. writes'[d] = writes[d]
      BY <1>3, <2>2
    <3> QED
      BY <3>1 DEF RowsTyped
  <2> QED
    BY <2>1, <2>2
<1>6. LocksExclusive'
  BY <1>2, <1>3 DEF LocksExclusive, Holds, Write, Free
<1>7. RowsTyped'
  <2>1. writes' = [d \in Calls |-> [x \in DOMAIN writes'[d] |-> writes'[d][x]]]
    BY <1>3, <1>4
  <2> QED
    BY <1>5, <2>1 DEF RowsTyped, Write
<1> QED
  BY <1>2, <1>3, <1>6, <1>7 DEF Write

\* A commit makes the transaction's rows visible and releases them.
LEMMA CommitRows ==
  ASSUME RowsTyped, LocksExclusive,
         NEW c \in Calls, NEW r \in Rows, NEW v \in ValuesOf(r), WriteAndCommit(c, r, v)
  PROVE  /\ RowsTyped' /\ LocksExclusive'
         /\ db'[r] = v
         /\ \A x \in Rows \ {r} : db'[x] = View(c, x)
         /\ \A d \in Calls \ {c} : writes'[d] = writes[d]
         /\ \A d \in Calls \ {c} : \A x \in DOMAIN writes[d] : db'[x] = db[x]
         /\ DOMAIN writes'[c] = {}
<1>1. DOMAIN writes = Calls
  BY DEF RowsTyped
<1>2. /\ \A d \in Calls \ {c} : writes'[d] = writes[d]
      /\ writes'[c] = NoWrites
      /\ writes' = [d \in Calls |-> writes'[d]]
  BY <1>1 DEF WriteAndCommit
<1>3. DOMAIN writes'[c] = {} /\ writes'[c] = [x \in DOMAIN writes'[c] |-> writes'[c][x]]
  BY <1>2 DEF NoWrites
<1>4. \A d \in Calls : writes'[d] = [x \in DOMAIN writes'[d] |-> writes'[d][x]]
  BY <1>2, <1>3 DEF RowsTyped
<1>5. /\ db' = [x \in Rows |-> db'[x]]
      /\ \A x \in Rows : db'[x] = IF x \in DOMAIN With(c, r, v) THEN With(c, r, v)[x] ELSE db[x]
  BY DEF WriteAndCommit
<1>6. /\ DOMAIN With(c, r, v) = DOMAIN writes[c] \cup {r}
      /\ With(c, r, v)[r] = v
      /\ \A x \in DOMAIN writes[c] \ {r} : With(c, r, v)[x] = writes[c][x]
  BY DEF With
<1>7. db'[r] = v /\ \A x \in Rows \ {r} : db'[x] = View(c, x)
  BY <1>5, <1>6 DEF View, Holds
<1>8. \A x \in Rows : db'[x] \in ValuesOf(x)
  BY <1>7, ViewTyped
<1>9. \A d \in Calls \ {c} : \A x \in DOMAIN writes[d] : x \in Rows /\ x # r /\ ~Holds(c, x)
  BY DEF WriteAndCommit, Free, Holds, LocksExclusive, RowsTyped
<1>10. \A d \in Calls \ {c} : \A x \in DOMAIN writes[d] : db'[x] = db[x]
  BY <1>7, <1>9 DEF View
<1>11. LocksExclusive'
  BY <1>2, <1>3 DEF LocksExclusive, Holds
<1>12. RowsTyped'
  <2>1. writes' = [d \in Calls |-> [x \in DOMAIN writes'[d] |-> writes'[d][x]]]
    BY <1>2, <1>4
  <2>2. \A d \in Calls : /\ DOMAIN writes'[d] \subseteq Rows
                         /\ \A x \in DOMAIN writes'[d] : writes'[d][x] \in ValuesOf(x)
    BY <1>2, <1>3 DEF RowsTyped
  <2> QED
    BY <1>5, <1>8, <2>1, <2>2 DEF RowsTyped
<1> QED
  BY <1>2, <1>3, <1>7, <1>10, <1>11, <1>12

\* A rollback only releases the rows.
LEMMA RollbackRows ==
  ASSUME RowsTyped, LocksExclusive, NEW c \in Calls,
         writes' = [writes EXCEPT ![c] = NoWrites], db' = db
  PROVE  /\ RowsTyped' /\ LocksExclusive'
         /\ \A d \in Calls \ {c} : writes'[d] = writes[d]
         /\ DOMAIN writes'[c] = {}
<1>1. DOMAIN writes = Calls
  BY DEF RowsTyped
<1>2. /\ \A d \in Calls \ {c} : writes'[d] = writes[d]
      /\ writes'[c] = NoWrites
      /\ writes' = [d \in Calls |-> writes'[d]]
  BY <1>1
<1>3. DOMAIN writes'[c] = {} /\ writes'[c] = [x \in DOMAIN writes'[c] |-> writes'[c][x]]
  BY <1>2 DEF NoWrites
<1>4. writes' = [d \in Calls |-> [x \in DOMAIN writes'[d] |-> writes'[d][x]]]
  BY <1>2, <1>3 DEF RowsTyped
<1>5. \A d \in Calls : /\ DOMAIN writes'[d] \subseteq Rows
                       /\ \A x \in DOMAIN writes'[d] : writes'[d][x] \in ValuesOf(x)
  BY <1>2, <1>3 DEF RowsTyped
<1> QED
  BY <1>2, <1>3, <1>4, <1>5 DEF RowsTyped, LocksExclusive, Holds

-----------------------------------------------------------------------------
(* The inductive invariant IInv.                                           *)

\* CommittedAgree, row by row.
AgreeOnSession(s) ==
  /\ db[SessionRow(s)].status = "succeeded" => \E x \in TrxIds : db[PaymentRow(s, x)] # None
  /\ (\E x \in TrxIds : db[PaymentRow(s, x)] # None) => db[SessionRow(s)].status # "pending"

AgreeOnSms(m) ==
  db[SmsRow(m)].match = "matched" =>
    /\ db[SmsRow(m)].matched \in Sessions
    /\ db[PaymentRow(db[SmsRow(m)].matched, Trx[m])] # None

RowsAgree ==
  /\ \A s \in Sessions : AgreeOnSession(s)
  /\ \A m \in Messages : AgreeOnSms(m)

\* The pairs of Payments are the payment rows that exist.
LEMMA AgreeByRow == (CommittedAgree <=> RowsAgree) /\ (CommittedAgree' <=> RowsAgree')
<1>1. Trx \in [Messages -> TrxIds]
  BY TxAssumption
<1>2. \A s, x : <<s, x>> \in Payments <=>
        s \in Sessions /\ x \in TrxIds /\ db[PaymentRow(s, x)] # None
  BY DEF Payments
<1>3. (\A p \in Payments : db[SessionRow(p[1])].status # "pending") <=>
        \A s \in Sessions, x \in TrxIds :
          db[PaymentRow(s, x)] # None => db[SessionRow(s)].status # "pending"
  <2>1. \A p \in Payments : /\ p[1] \in Sessions /\ p[2] \in TrxIds
                            /\ db[PaymentRow(p[1], p[2])] # None
    BY DEF Payments
  <2>2. \A s, x : <<s, x>>[1] = s
    OBVIOUS
  <2> QED
    BY <1>2, <2>1, <2>2
<1>4. CommittedAgree <=> RowsAgree
  BY <1>1, <1>2, <1>3 DEF CommittedAgree, RowsAgree, AgreeOnSession, AgreeOnSms
<1>5. \A s, x : <<s, x>> \in Payments' <=>
        s \in Sessions /\ x \in TrxIds /\ db'[PaymentRow(s, x)] # None
  BY DEF Payments
<1>6. (\A p \in Payments' : db'[SessionRow(p[1])].status # "pending") <=>
        \A s \in Sessions, x \in TrxIds :
          db'[PaymentRow(s, x)] # None => db'[SessionRow(s)].status # "pending"
  <2>1. \A p \in Payments' : /\ p[1] \in Sessions /\ p[2] \in TrxIds
                            /\ db'[PaymentRow(p[1], p[2])] # None
    BY DEF Payments
  <2>2. \A s, x : <<s, x>>[1] = s
    OBVIOUS
  <2> QED
    BY <1>5, <2>1, <2>2
<1>7. CommittedAgree' <=> RowsAgree'
  BY <1>1, <1>5, <1>6 DEF CommittedAgree, RowsAgree, AgreeOnSession, AgreeOnSms
<1> QED
  BY <1>4, <1>7

\* The local state of the calls.
CallsTyped ==
  /\ pc \in [Calls -> Statements]
  /\ sms \in [Calls -> Messages \cup {None}]
  /\ seen \in [Calls -> Nat]
  /\ todo \in [Calls -> SUBSET Sessions]

LEMMA Typed == (TypeOK <=> RowsTyped /\ CallsTyped) /\ (TypeOK' <=> RowsTyped' /\ CallsTyped')
BY DEF TypeOK, RowsTyped, CallsTyped

\* What a step of one call leaves true of another call's transaction: the
\* rows it holds keep their committed status, and no payment disappears.
LEMMA OthersKept ==
  ASSUME NEW d \in Calls, OwnWrites(d), sms[d] \in Messages \cup {None},
         writes'[d] = writes[d], pc'[d] = pc[d], sms'[d] = sms[d], todo'[d] = todo[d],
         \A s \in Sessions : SessionRow(s) \in DOMAIN writes[d] =>
           db'[SessionRow(s)].status = db[SessionRow(s)].status,
         \A s \in Sessions, x \in TrxIds :
           db[PaymentRow(s, x)] # None => db'[PaymentRow(s, x)] # None
  PROVE  OwnWrites(d)'
<1>1. \A r : View(d, r)' = IF Holds(d, r) THEN writes[d][r] ELSE db'[r]
  BY DEF View, Holds
<1>2. sms[d] \in Messages => Trx[sms[d]] \in TrxIds
  BY TxAssumption
<1> QED
  BY <1>1, <1>2 DEF OwnWrites, View, Holds

\* A payment row a transaction sees as missing is missing.
LEMMA SeenPayments ==
  ASSUME NEW c \in Calls, OwnWrites(c), NEW s \in Sessions, NEW x \in TrxIds,
         pc[c] \in Statements, db[PaymentRow(s, x)] # None
  PROVE  View(c, PaymentRow(s, x)) # None
BY RowKeys DEF OwnWrites, View, Holds, Statements

\* The commit of a call that pays for nothing keeps the status of every
\* session and adds no payment.
LEMMA CommitWithoutPayment ==
  ASSUME IInv, NEW c \in Calls, pc[c] \in {"duplicate", "balance", "unmatched", "held"}
  PROVE  /\ \A s \in Sessions : View(c, SessionRow(s)).status = db[SessionRow(s)].status
         /\ \A s \in Sessions, x \in TrxIds : View(c, PaymentRow(s, x)) = db[PaymentRow(s, x)]
<1>1. OwnWrites(c)
  BY DEF IInv
<1>2. /\ \A s \in Sessions, x \in TrxIds : ~Holds(c, PaymentRow(s, x))
      /\ pc[c] # "held" => \A s \in Sessions : ~Holds(c, SessionRow(s))
  BY <1>1, RowKeys DEF OwnWrites, Holds
<1>3. pc[c] = "held" => \A s \in Sessions :
        Holds(c, SessionRow(s)) => writes[c][SessionRow(s)].status = db[SessionRow(s)].status
  BY <1>1 DEF OwnWrites, Holds
<1> QED
  BY <1>2, <1>3 DEF View

\* The commit of a call that pays for session s.
LEMMA CommitPayment ==
  ASSUME IInv, NEW c \in Calls, pc[c] = "match"
  PROVE  \E s \in Sessions :
           /\ todo[c] = {s}
           /\ View(c, SessionRow(s)).status = "succeeded"
           /\ View(c, PaymentRow(s, Trx[sms[c]])) # None
           /\ \A t \in Sessions \ {s} : View(c, SessionRow(t)) = db[SessionRow(t)]
           /\ \A t \in Sessions, x \in TrxIds :
                <<t, x>> # <<s, Trx[sms[c]]>> => View(c, PaymentRow(t, x)) = db[PaymentRow(t, x)]
BY RowKeys DEF IInv, OwnWrites, View, Holds

\* Committing with the SMS classified keeps the invariant, if an SMS is
\* matched only to the session the call has paid for.
LEMMA ClassifyKeeps ==
  ASSUME IInv, NEW c \in Calls, NEW match, NEW session,
         pc[c] \in {"duplicate", "balance", "unmatched", "held", "match"},
         match \in {"unmatched", "held", "suspect", "duplicate", "matched"},
         session \in Sessions \cup {None},
         match = "matched" <=> pc[c] = "match",
         pc[c] = "match" => todo[c] = {session},
         Classify(c, match, session)
  PROVE  IInv'
<1> DEFINE m == sms[c]
           r == SmsRow(m)
           v == [View(c, r) EXCEPT !.match = match, !.matched = session]
<1>1. /\ m \in Messages /\ r \in Rows /\ ValuesOf(r) = SmsValues
      /\ RowsTyped /\ CallsTyped /\ LocksExclusive
  BY RowValues, Typed DEF IInv, OwnWrites
<1>2. v \in ValuesOf(r) /\ v.match = match /\ v.matched = session
  <2>1. View(c, r) \in SmsValues
    BY <1>1, ViewTyped
  <2> QED
    BY <1>1, <2>1 DEF SmsValues
<1>3. WriteAndCommit(c, r, v)
  BY DEF Classify
<1> HIDE DEF v
<1>4. /\ RowsTyped' /\ LocksExclusive'
      /\ db'[r] = v
      /\ \A x \in Rows \ {r} : db'[x] = View(c, x)
      /\ \A d \in Calls \ {c} : writes'[d] = writes[d]
      /\ \A d \in Calls \ {c} : \A x \in DOMAIN writes[d] : db'[x] = db[x]
      /\ DOMAIN writes'[c] = {}
  BY <1>1, <1>2, <1>3, CommitRows
<1>5. /\ pc' = [pc EXCEPT ![c] = "over"]
      /\ UNCHANGED <<sms, seen, todo>>
  BY DEF Classify, Goto
<1>6. TypeOK'
  BY <1>1, <1>4, <1>5, Typed DEF CallsTyped, Statements
<1>7. /\ \A s \in Sessions : db'[SessionRow(s)] = View(c, SessionRow(s))
      /\ \A s \in Sessions, x \in TrxIds : db'[PaymentRow(s, x)] = View(c, PaymentRow(s, x))
  BY <1>4, RowKeys, RowValues
<1>8. \A s \in Sessions, x \in TrxIds :
        db[PaymentRow(s, x)] # None => db'[PaymentRow(s, x)] # None
  BY <1>1, <1>7, SeenPayments DEF IInv, CallsTyped
<1>9. \A d \in Calls : OwnWrites(d)'
  <2>1. ASSUME NEW d \in Calls \ {c} PROVE OwnWrites(d)'
    BY <1>1, <1>4, <1>5, <1>8, OthersKept DEF IInv, CallsTyped
  <2>2. OwnWrites(c)'
    BY <1>1, <1>4, <1>5 DEF OwnWrites, CallsTyped
  <2> QED
    BY <2>1, <2>2
<1>10. RowsAgree
  BY AgreeByRow DEF IInv
<1>11. \A s \in Sessions : AgreeOnSession(s)'
  <2>1. CASE pc[c] = "match"
    <3>1. PICK s \in Sessions :
            /\ todo[c] = {s}
            /\ View(c, SessionRow(s)).status = "succeeded"
            /\ View(c, PaymentRow(s, Trx[m])) # None
            /\ \A t \in Sessions \ {s} : View(c, SessionRow(t)) = db[SessionRow(t)]
            /\ \A t \in Sessions, x \in TrxIds :
                 <<t, x>> # <<s, Trx[m]>> => View(c, PaymentRow(t, x)) = db[PaymentRow(t, x)]
      BY <2>1, CommitPayment
    <3>2. Trx[m] \in TrxIds
      BY <1>1, TxAssumption
    <3>3. AgreeOnSession(s)'
      BY <1>7, <3>1, <3>2 DEF AgreeOnSession
    <3>4. ASSUME NEW t \in Sessions \ {s} PROVE AgreeOnSession(t)'
      BY <1>7, <1>10, <3>1 DEF RowsAgree, AgreeOnSession
    <3> QED
      BY <3>3, <3>4
  <2>2. CASE pc[c] # "match"
    BY <1>7, <1>10, <2>2, CommitWithoutPayment DEF RowsAgree, AgreeOnSession
  <2> QED
    BY <2>1, <2>2
<1>12. \A o \in Messages : AgreeOnSms(o)'
  <2>1. ASSUME NEW o \in Messages, o = m PROVE AgreeOnSms(o)'
    <3>1. db'[SmsRow(o)] = v
      BY <1>4, <2>1
    <3>2. pc[c] = "match" => /\ session \in Sessions
                             /\ View(c, PaymentRow(session, Trx[o])) # None
      BY <2>1, CommitPayment
    <3>3. Trx[o] \in TrxIds
      BY TxAssumption
    <3> QED
      BY <1>2, <1>7, <3>1, <3>2, <3>3 DEF AgreeOnSms
  <2>2. ASSUME NEW o \in Messages \ {m} PROVE AgreeOnSms(o)'
    <3>1. db'[SmsRow(o)] = db[SmsRow(o)]
      <4>1. SmsRow(o) \in Rows \ {r} /\ SmsRow(o) \notin DOMAIN writes[c]
        BY RowKeys, RowValues DEF IInv, OwnWrites
      <4> QED
        BY <1>4, <4>1 DEF View, Holds
    <3>2. Trx[o] \in TrxIds
      BY TxAssumption
    <3> QED
      BY <1>8, <1>10, <3>1, <3>2 DEF RowsAgree, AgreeOnSms
  <2> QED
    BY <2>1, <2>2
<1> QED
  BY <1>4, <1>6, <1>9, <1>11, <1>12, AgreeByRow DEF IInv, RowsAgree

\* A step of call c that commits nothing keeps the invariant, if it keeps
\* what the invariant says of c.
LEMMA LocalKeeps ==
  ASSUME IInv, NEW c \in Calls, db' = db, RowsTyped', LocksExclusive', CallsTyped',
         \A d \in Calls \ {c} : /\ writes'[d] = writes[d] /\ pc'[d] = pc[d]
                               /\ sms'[d] = sms[d] /\ todo'[d] = todo[d],
         OwnWrites(c)'
  PROVE  IInv'
<1>1. ASSUME NEW d \in Calls \ {c} PROVE OwnWrites(d)'
  BY <1>1, Typed, OthersKept DEF IInv, CallsTyped
<1>2. RowsAgree'
  BY AgreeByRow DEF IInv, RowsAgree, AgreeOnSession, AgreeOnSms
<1> QED
  BY <1>1, <1>2, Typed, AgreeByRow DEF IInv

\* The statements that only read.
LEMMA ReadKeeps ==
  ASSUME IInv, NEW c \in Calls,
         \/ \E m \in Messages : Start(c, m)
         \/ GetSMSMessage(c)
         \/ FindDuplicateTrxID(c)
         \/ GetProfile(c)
         \/ FindMatchCandidates(c)
  PROVE  IInv'
<1>1. RowsTyped /\ CallsTyped /\ LocksExclusive /\ OwnWrites(c)
  BY Typed DEF IInv
<1>2. UNCHANGED <<db, writes>> => RowsTyped' /\ LocksExclusive'
  BY <1>1 DEF RowsTyped, LocksExclusive, Holds
<1>3. CASE \E m \in Messages : Start(c, m)
  <2>1. CallsTyped' /\ OwnWrites(c)'
    BY <1>1, <1>3 DEF Start, Goto, CallsTyped, Statements, OwnWrites
  <2> QED
    BY <1>1, <1>2, <1>3, <2>1, LocalKeeps DEF Start, Goto, CallsTyped
<1>4. CASE GetSMSMessage(c)
  <2>1. CallsTyped' /\ OwnWrites(c)'
    BY <1>1, <1>4 DEF GetSMSMessage, Goto, CallsTyped, Statements, OwnWrites
  <2> QED
    BY <1>1, <1>2, <1>4, <2>1, LocalKeeps DEF GetSMSMessage, Goto, CallsTyped
<1>5. CASE FindDuplicateTrxID(c)
  <2>1. CallsTyped' /\ OwnWrites(c)'
    BY <1>1, <1>5 DEF FindDuplicateTrxID, Goto, CallsTyped, Statements, OwnWrites
  <2> QED
    BY <1>1, <1>2, <1>5, <2>1, LocalKeeps DEF FindDuplicateTrxID, Goto, CallsTyped
<1>6. CASE GetProfile(c)
  <2>1. db[ProfileRow] \in Nat
    BY <1>1, RowValues DEF RowsTyped
  <2>2. CallsTyped' /\ OwnWrites(c)'
    BY <1>1, <1>6, <2>1 DEF GetProfile, Goto, CallsTyped, Statements, OwnWrites
  <2> QED
    BY <1>1, <1>2, <1>6, <2>2, LocalKeeps DEF GetProfile, Goto, CallsTyped
<1>7. CASE FindMatchCandidates(c)
  <2>1. sms[c] \in Messages /\ Fits[sms[c]] \subseteq Sessions
    BY <1>1, <1>7, TxAssumption DEF FindMatchCandidates, OwnWrites
  <2>2. /\ Unclaimed(c) \subseteq Sessions
        /\ Oldest(Claimants(c)) \subseteq Sessions
    BY <2>1 DEF Unclaimed, Claimants, Candidates, Oldest
  <2>3. /\ pc[c] = "candidates" /\ UNCHANGED <<db, writes, sms, seen>>
        /\ DOMAIN writes[c] \subseteq {SmsRow(sms[c]), ProfileRow}
    BY <1>1, <1>7 DEF FindMatchCandidates, OwnWrites
  <2>4. ASSUME NEW next \in {"insert", "hold", "unmatched"}, NEW S \in SUBSET Sessions,
               Decide(c, next, S), next = "insert" => \E s \in Sessions : S = {s}
        PROVE  IInv'
    <3>1. CallsTyped' /\ pc'[c] = next /\ todo'[c] = S
      BY <1>1, <2>3, <2>4 DEF Decide, Goto, CallsTyped, Statements
    <3>2. OwnWrites(c)'
      BY <2>1, <2>3, <2>4, <3>1, RowKeys DEF OwnWrites
    <3> QED
      BY <1>1, <1>2, <2>3, <2>4, <3>1, <3>2, LocalKeeps DEF Decide, Goto, CallsTyped
  <2>5. CASE \E s \in Sessions : Decide(c, "insert", {s})
    BY <2>4, <2>5
  <2>6. CASE Decide(c, "hold", Unclaimed(c)) \/ Decide(c, "unmatched", {})
    BY <2>2, <2>4, <2>6
  <2> QED
    BY <1>7, <2>2, <2>5, <2>6 DEF FindMatchCandidates
<1> QED
  BY <1>3, <1>4, <1>5, <1>6, <1>7

\* A rollback, whatever the call had written.
LEMMA RollbackKeeps ==
  ASSUME IInv, NEW c \in Calls, Rollback(c)
  PROVE  IInv'
<1>1. RowsTyped /\ CallsTyped /\ LocksExclusive /\ OwnWrites(c)
  BY Typed DEF IInv
<1>2. /\ RowsTyped' /\ LocksExclusive' /\ db' = db
      /\ \A d \in Calls \ {c} : writes'[d] = writes[d]
      /\ DOMAIN writes'[c] = {}
  BY <1>1, RollbackRows DEF Rollback
<1>3. CallsTyped' /\ OwnWrites(c)'
  BY <1>1, <1>2 DEF Rollback, Goto, CallsTyped, Statements, OwnWrites
<1> QED
  BY <1>1, <1>2, <1>3, LocalKeeps DEF Rollback, Goto, CallsTyped

\* UpdateSMSParsed and UpdateTrackedBalance write the SMS and the profile.
LEMMA FirstWritesKeep ==
  ASSUME IInv, NEW c \in Calls, UpdateSMSParsed(c) \/ UpdateTrackedBalance(c)
  PROVE  IInv'
<1>1. RowsTyped /\ CallsTyped /\ LocksExclusive /\ OwnWrites(c)
  BY Typed DEF IInv
<1>2. sms[c] \in Messages
  BY <1>1 DEF OwnWrites, UpdateSMSParsed, UpdateTrackedBalance
<1>3. CASE UpdateSMSParsed(c) /\ Rollback(c)
  BY <1>3, RollbackKeeps
<1>4. CASE UpdateSMSParsed(c) /\ ~Rollback(c)
  <2> DEFINE r == SmsRow(sms[c])
             v == [View(c, r) EXCEPT !.parse = "parsed"]
  <2>1. r \in Rows /\ v \in ValuesOf(r)
    <3>1. View(c, r) \in SmsValues
      BY <1>1, <1>2, RowValues, ViewTyped
    <3> QED
      BY <1>2, <3>1, RowValues DEF SmsValues
  <2>2. Write(c, r, v) /\ Goto(c, "profile") /\ UNCHANGED <<sms, seen, todo>> /\ pc[c] = "parse"
    BY <1>4 DEF UpdateSMSParsed
  <2> HIDE DEF v
  <2>3. /\ RowsTyped' /\ LocksExclusive' /\ db' = db
        /\ \A d \in Calls \ {c} : writes'[d] = writes[d]
        /\ DOMAIN writes'[c] = DOMAIN writes[c] \cup {r}
    BY <1>1, <2>1, <2>2, WriteRow
  <2>4. CallsTyped' /\ OwnWrites(c)'
    BY <1>1, <1>2, <2>2, <2>3 DEF Goto, CallsTyped, Statements, OwnWrites
  <2> QED
    BY <1>1, <2>2, <2>3, <2>4, LocalKeeps DEF Goto, CallsTyped
<1>5. CASE UpdateTrackedBalance(c)
  <2>1. Balance[sms[c]] \in Nat
    <3>1. seen[c] + Amount[sms[c]] \in Nat
      BY <1>1, <1>2, TxAssumption DEF CallsTyped
    <3> QED
      BY <1>5, <3>1 DEF UpdateTrackedBalance, BalanceFits
  <2>2. /\ RowsTyped' /\ LocksExclusive' /\ db' = db
        /\ \A d \in Calls \ {c} : writes'[d] = writes[d]
        /\ DOMAIN writes'[c] = DOMAIN writes[c] \cup {ProfileRow}
    BY <1>1, <1>5, <2>1, RowValues, WriteRow DEF UpdateTrackedBalance
  <2>3. CallsTyped' /\ OwnWrites(c)'
    BY <1>1, <1>2, <1>5, <2>2 DEF UpdateTrackedBalance, Goto, CallsTyped, Statements, OwnWrites
  <2> QED
    BY <1>1, <1>5, <2>2, <2>3, LocalKeeps DEF UpdateTrackedBalance, Goto, CallsTyped
<1> QED
  BY <1>3, <1>4, <1>5

\* InsertPayment: the payment row is there afterwards, as this call sees it.
LEMMA InsertKeeps ==
  ASSUME IInv, NEW c \in Calls, NEW s \in Sessions, InsertPayment(c, s)
  PROVE  IInv'
<1> DEFINE r == PaymentRow(s, Trx[sms[c]])
<1>1. RowsTyped /\ CallsTyped /\ LocksExclusive /\ OwnWrites(c)
  BY Typed DEF IInv
<1>2. /\ sms[c] \in Messages /\ Trx[sms[c]] \in TrxIds /\ sms[c] # None
      /\ todo[c] = {s}
      /\ DOMAIN writes[c] \subseteq {SmsRow(sms[c]), ProfileRow}
      /\ r \notin DOMAIN writes[c]
  BY <1>1, RowKeys, TxAssumption DEF OwnWrites, InsertPayment
<1>3. pc[c] = "insert" /\ Goto(c, "pay") /\ UNCHANGED <<sms, seen, todo>>
  BY DEF InsertPayment
<1>4. CASE Conflicts(s, Trx[sms[c]])
  <2>1. UNCHANGED <<db, writes>> /\ db[r] # None
    BY <1>4 DEF InsertPayment, Conflicts
  <2>2. RowsTyped' /\ LocksExclusive'
    BY <1>1, <2>1 DEF RowsTyped, LocksExclusive, Holds
  <2>3. CallsTyped' /\ OwnWrites(c)'
    BY <1>1, <1>2, <1>3, <2>1 DEF Goto, CallsTyped, Statements, OwnWrites, View, Holds
  <2> QED
    BY <1>1, <1>3, <2>1, <2>2, <2>3, LocalKeeps DEF Goto, CallsTyped
<1>5. CASE ~Conflicts(s, Trx[sms[c]])
  <2>1. Write(c, r, sms[c])
    BY <1>5 DEF InsertPayment
  <2>2. /\ RowsTyped' /\ LocksExclusive' /\ db' = db
        /\ \A d \in Calls \ {c} : writes'[d] = writes[d]
        /\ DOMAIN writes'[c] = DOMAIN writes[c] \cup {r}
        /\ writes'[c][r] = sms[c]
    BY <1>1, <1>2, <2>1, RowValues, WriteRow
  <2>3. CallsTyped' /\ OwnWrites(c)'
    BY <1>1, <1>2, <1>3, <2>2 DEF Goto, CallsTyped, Statements, OwnWrites, View, Holds
  <2> QED
    BY <1>1, <1>3, <2>2, <2>3, LocalKeeps DEF Goto, CallsTyped
<1> QED
  BY <1>4, <1>5

\* The session paid for is written.
LEMMA UpdateSessionKeeps ==
  ASSUME IInv, NEW c \in Calls, NEW s \in Sessions, UpdateSession(c, s)
  PROVE  IInv'
<1> DEFINE r == SessionRow(s)
           v == [status |-> "succeeded", review |-> FALSE]
           pay == PaymentRow(s, Trx[sms[c]])
<1>1. RowsTyped /\ CallsTyped /\ LocksExclusive /\ OwnWrites(c)
  BY Typed DEF IInv
<1>2. /\ sms[c] \in Messages /\ todo[c] = {s}
      /\ DOMAIN writes[c] \subseteq {SmsRow(sms[c]), ProfileRow, pay, r}
      /\ View(c, pay) # None
  BY <1>1 DEF OwnWrites, UpdateSession
<1>3. Write(c, r, v) /\ Goto(c, "match") /\ UNCHANGED <<sms, seen, todo>>
  BY DEF UpdateSession
<1>4. r \in Rows /\ v \in ValuesOf(r)
  BY RowValues DEF SessionValues
<1>5. /\ RowsTyped' /\ LocksExclusive' /\ db' = db
      /\ \A d \in Calls \ {c} : writes'[d] = writes[d]
      /\ DOMAIN writes'[c] = DOMAIN writes[c] \cup {r}
      /\ writes'[c][r].status = "succeeded"
      /\ \A x \in DOMAIN writes[c] \ {r} : writes'[c][x] = writes[c][x]
  BY <1>1, <1>3, <1>4, WriteRow
<1>6. pay # r
  BY RowKeys
<1>7. CallsTyped'
  BY <1>1, <1>3 DEF Goto, CallsTyped, Statements
<1>8. View(c, pay)' # None
  BY <1>2, <1>3, <1>5, <1>6 DEF View, Holds
<1>9. OwnWrites(c)'
  BY <1>1, <1>2, <1>3, <1>5, <1>8 DEF Goto, CallsTyped, OwnWrites
<1> QED
  BY <1>1, <1>3, <1>5, <1>7, <1>9, LocalKeeps DEF Goto, CallsTyped

\* A session held is flagged: its status is kept.
LEMMA FlagKeeps ==
  ASSUME IInv, NEW c \in Calls, NEW s \in Sessions, FlagSession(c, s)
  PROVE  IInv'
<1> DEFINE r == SessionRow(s)
           v == [View(c, r) EXCEPT !.review = TRUE]
<1>1. RowsTyped /\ CallsTyped /\ LocksExclusive /\ OwnWrites(c) /\ pc[c] = "hold"
  BY Typed DEF IInv, FlagSession
<1>2. /\ sms[c] \in Messages
      /\ DOMAIN writes[c] \subseteq {SmsRow(sms[c]), ProfileRow}
                                    \cup {SessionRow(t) : t \in Sessions}
      /\ \A t \in Sessions : SessionRow(t) \in DOMAIN writes[c] =>
           writes[c][SessionRow(t)].status = db[SessionRow(t)].status
  BY <1>1 DEF OwnWrites
<1>3. r \in Rows /\ v \in ValuesOf(r) /\ v.status = db[r].status
  <2>1. View(c, r) \in SessionValues
    BY <1>1, RowValues, ViewTyped
  <2>2. View(c, r).status = db[r].status
    BY <1>2 DEF View, Holds
  <2> QED
    BY <2>1, <2>2, RowValues DEF SessionValues
<1>4. Write(c, r, v) /\ UNCHANGED <<sms, seen>>
  BY DEF FlagSession
<1> HIDE DEF v
<1>5. /\ RowsTyped' /\ LocksExclusive' /\ db' = db
      /\ \A d \in Calls \ {c} : writes'[d] = writes[d]
      /\ DOMAIN writes'[c] = DOMAIN writes[c] \cup {r}
      /\ writes'[c][r] = v
      /\ \A x \in DOMAIN writes[c] \ {r} : writes'[c][x] = writes[c][x]
  BY <1>1, <1>3, <1>4, WriteRow
<1>6. /\ todo' = [todo EXCEPT ![c] = todo[c] \ {s}]
      /\ pc' = [pc EXCEPT ![c] = IF todo[c] = {s} THEN "held" ELSE "hold"]
  BY DEF FlagSession, Goto
<1>7. CallsTyped'
  BY <1>1, <1>4, <1>6 DEF CallsTyped, Statements
<1>8. pc'[c] \in {"hold", "held"}
  BY <1>1, <1>6 DEF CallsTyped
<1>9. \A t \in Sessions : SessionRow(t) \in DOMAIN writes'[c] =>
        writes'[c][SessionRow(t)].status = db'[SessionRow(t)].status
  BY <1>2, <1>3, <1>5
<1>10. OwnWrites(c)'
  BY <1>2, <1>4, <1>5, <1>8, <1>9 DEF OwnWrites
<1> QED
  BY <1>1, <1>4, <1>5, <1>6, <1>7, <1>10, LocalKeeps DEF CallsTyped

\* A handler gives up a session no transaction holds.
LEMMA GiveUpKeeps ==
  ASSUME IInv, NEW s \in Sessions, GiveUp(s)
  PROVE  IInv'
<1> DEFINE r == SessionRow(s)
<1>1. RowsTyped /\ CallsTyped /\ LocksExclusive /\ RowsAgree
  BY Typed, AgreeByRow DEF IInv
<1>2. r \in Rows /\ db[r] \in SessionValues
  BY <1>1, RowValues DEF RowsTyped
<1>3. /\ db' = [x \in Rows |-> db'[x]]
      /\ \A x \in Rows \ {r} : db'[x] = db[x]
      /\ db'[r] = [db[r] EXCEPT !.status = "canceled"]
  BY <1>1, <1>2 DEF GiveUp, RowsTyped
<1>4. db'[r] \in SessionValues /\ db'[r].status = "canceled"
  BY <1>2, <1>3 DEF SessionValues
<1>5. UNCHANGED <<writes, pc, sms, seen, todo>> /\ \A c \in Calls : ~Holds(c, r)
  BY DEF GiveUp
<1>6. RowsTyped' /\ CallsTyped' /\ LocksExclusive'
  BY <1>1, <1>2, <1>3, <1>4, <1>5, RowValues DEF RowsTyped, CallsTyped, LocksExclusive, Holds
<1>7. /\ \A t \in Sessions, x \in TrxIds : db'[PaymentRow(t, x)] = db[PaymentRow(t, x)]
      /\ \A m \in Messages : db'[SmsRow(m)] = db[SmsRow(m)]
      /\ \A t \in Sessions \ {s} : db'[SessionRow(t)] = db[SessionRow(t)]
  BY <1>3, RowKeys, RowValues
<1>8. \A c \in Calls : OwnWrites(c)'
  <2>1. \A c \in Calls, t \in Sessions :
          SessionRow(t) \in DOMAIN writes[c] => db'[SessionRow(t)] = db[SessionRow(t)]
    BY <1>5, <1>7 DEF Holds
  <2> QED
    BY <1>1, <1>5, <1>7, <2>1, OthersKept DEF IInv, CallsTyped
<1>9. RowsAgree'
  <2>1. \A t \in Sessions : AgreeOnSession(t)'
    BY <1>1, <1>4, <1>7 DEF RowsAgree, AgreeOnSession
  <2>2. ASSUME NEW m \in Messages PROVE AgreeOnSms(m)'
    <3>1. db'[SmsRow(m)] = db[SmsRow(m)] /\ Trx[m] \in TrxIds
      BY <1>7, TxAssumption
    <3> QED
      BY <1>1, <1>7, <3>1 DEF RowsAgree, AgreeOnSms
  <2> QED
    BY <2>1, <2>2 DEF RowsAgree
<1> QED
  BY <1>6, <1>8, <1>9, Typed, AgreeByRow DEF IInv

\* The invariant holds before any call.
LEMMA InitIInv == Init => IInv
<1> SUFFICES ASSUME Init PROVE IInv
  OBVIOUS
<1>1. /\ \A c \in Calls : writes[c] = NoWrites /\ DOMAIN writes[c] = {}
      /\ writes = [c \in Calls |-> writes[c]]
      /\ \A c \in Calls : writes[c] = [r \in DOMAIN writes[c] |-> writes[c][r]]
  BY DEF Init, NoWrites
<1>2. RowsTyped
  BY <1>1, NewRowValues DEF Init, RowsTyped
<1>3. CallsTyped
  BY DEF Init, CallsTyped, Statements
<1>4. LocksExclusive /\ \A c \in Calls : OwnWrites(c)
  BY <1>1 DEF Init, LocksExclusive, OwnWrites, Holds
<1>5. RowsAgree
  <2>1. \A s \in Sessions : AgreeOnSession(s)
    BY NewRowValues, RowValues DEF Init, AgreeOnSession
  <2>2. \A m \in Messages : AgreeOnSms(m)
    BY NewRowValues, RowValues DEF Init, AgreeOnSms
  <2> QED
    BY <2>1, <2>2 DEF RowsAgree
<1> QED
  BY <1>2, <1>3, <1>4, <1>5, Typed, AgreeByRow DEF IInv

\* Every step keeps the invariant.
LEMMA NextIInv == IInv /\ [Next]_vars => IInv'
<1> SUFFICES ASSUME IInv, [Next]_vars PROVE IInv'
  OBVIOUS
<1>1. ASSUME NEW c \in Calls, Process(c) PROVE IInv'
  <2>1. OwnWrites(c) /\ LocksExclusive /\ TypeOK
    BY DEF IInv
  <2>2. CASE \/ \E m \in Messages : Start(c, m)
             \/ GetSMSMessage(c)
             \/ FindDuplicateTrxID(c)
             \/ GetProfile(c)
             \/ FindMatchCandidates(c)
    BY <2>2, ReadKeeps
  <2>3. CASE MarkDuplicate(c)
    BY <2>3, ClassifyKeeps DEF MarkDuplicate
  <2>4. CASE UpdateSMSParsed(c) \/ UpdateTrackedBalance(c)
    BY <2>4, FirstWritesKeep
  <2>5. CASE MarkSuspect(c)
    BY <2>5, ClassifyKeeps DEF MarkSuspect
  <2>6. CASE MarkUnmatched(c)
    BY <2>6, ClassifyKeeps DEF MarkUnmatched
  <2>7. CASE MarkMatched(c)
    <3>1. PICK s \in Sessions : todo[c] = {s}
      BY <2>1, <2>7 DEF MarkMatched, OwnWrites
    <3>2. Classify(c, "matched", s) /\ pc[c] = "match"
      BY <2>7, <3>1 DEF MarkMatched
    <3> QED
      BY <3>1, <3>2, ClassifyKeeps
  <2>8. CASE MarkHeld(c)
    BY <2>8, ClassifyKeeps DEF MarkHeld
  <2>9. CASE \E s \in Sessions : InsertPayment(c, s) \/ UpdateSession(c, s) \/ FlagSession(c, s)
    BY <2>9, InsertKeeps, UpdateSessionKeeps, FlagKeeps
  <2>10. CASE Abort(c)
    BY <2>10, RollbackKeeps DEF Abort
  <2> QED
    BY <1>1, <2>2, <2>3, <2>4, <2>5, <2>6, <2>7, <2>8, <2>9, <2>10 DEF Process
<1>2. ASSUME NEW s \in Sessions, GiveUp(s) PROVE IInv'
  BY <1>2, GiveUpKeeps
<1>3. CASE UNCHANGED vars
  <2>1. UNCHANGED <<db, writes, pc, sms, seen, todo>>
    BY <1>3 DEF vars
  <2>2. TypeOK' /\ LocksExclusive' /\ RowsAgree'
    BY <2>1, Typed, AgreeByRow
       DEF IInv, RowsTyped, CallsTyped, LocksExclusive, Holds, RowsAgree, AgreeOnSession, AgreeOnSms
  <2>3. \A c \in Calls : OwnWrites(c)'
    BY <2>1, Typed, OthersKept DEF IInv, CallsTyped
  <2> QED
    BY <2>2, <2>3, AgreeByRow DEF IInv
<1> QED
  BY <1>1, <1>2, <1>3 DEF Next

\* The inductive invariant: locks are exclusive, each transaction has written
\* what its next statement relies on, and what is committed agrees.
THEOREM CommittedInvariant == Spec => []IInv
<1> QED
  BY InitIInv, NextIInv, PTL DEF Spec

\* Sessions, payments and SMS agree after every commit, whichever calls of
\* Process overlap and wherever they are aborted.
THEOREM CommitsAgree == Spec => []CommittedAgree
<1>1. IInv => CommittedAgree
  BY DEF IInv
<1> QED
  BY <1>1, CommittedInvariant, PTL

-----------------------------------------------------------------------------
(* One parsed row per TrxID.                                               *)

\* An SMS is parsed in the committed row, or in the transaction that holds it.
ParsedIn(c, m) == Holds(c, SmsRow(m)) /\ writes[c][SmsRow(m)].parse = "parsed"

ParsedSomewhere(m) ==
  db[SmsRow(m)].parse = "parsed" \/ \E c \in Calls : ParsedIn(c, m)

\* The inductive form of OneParsedRowPerTrx: the unique index counts the rows
\* that are not committed yet.
ParsedOnce ==
  \A m, o \in Messages : (o \in Twins(m) /\ ParsedSomewhere(m)) => ~ParsedSomewhere(o)

\* A step that parses nothing new keeps it.
LEMMA NothingParsed ==
  ASSUME ParsedOnce, \A m \in Messages : ParsedSomewhere(m)' => ParsedSomewhere(m)
  PROVE  ParsedOnce'
BY DEF ParsedOnce, Twins

\* A write to a row keeps it, unless it parses the SMS of that row.
LEMMA WriteParsesNothing ==
  ASSUME IInv, ParsedOnce, NEW c \in Calls, NEW r \in Rows, NEW v \in ValuesOf(r),
         Write(c, r, v), \A m \in Messages : r # SmsRow(m)
  PROVE  ParsedOnce'
<1>1. /\ db' = db
      /\ \A d \in Calls \ {c} : writes'[d] = writes[d]
      /\ DOMAIN writes'[c] = DOMAIN writes[c] \cup {r}
      /\ \A x \in DOMAIN writes[c] \ {r} : writes'[c][x] = writes[c][x]
  BY Typed, WriteRow DEF IInv
<1>2. \A d \in Calls, m \in Messages : ParsedIn(d, m)' => ParsedIn(d, m)
  BY <1>1 DEF ParsedIn, Holds
<1> QED
  BY <1>1, <1>2, NothingParsed DEF ParsedSomewhere

\* Classifying an SMS does not parse it.
LEMMA ClassifyParsesNothing ==
  ASSUME IInv, ParsedOnce, NEW c \in Calls, NEW match, NEW session,
         pc[c] \in {"duplicate", "balance", "unmatched", "held", "match"},
         match \in {"unmatched", "held", "suspect", "duplicate", "matched"},
         session \in Sessions \cup {None},
         Classify(c, match, session)
  PROVE  ParsedOnce'
<1> DEFINE r == SmsRow(sms[c])
           v == [View(c, r) EXCEPT !.match = match, !.matched = session]
<1>1. RowsTyped /\ LocksExclusive /\ sms[c] \in Messages
  BY Typed DEF IInv, OwnWrites
<1>2. r \in Rows /\ v \in ValuesOf(r) /\ v.parse = View(c, r).parse
  <2>1. View(c, r) \in SmsValues
    BY <1>1, RowValues, ViewTyped
  <2>2. PICK w \in SmsValues : w = View(c, r)
    BY <2>1
  <2>3. [w EXCEPT !.match = match, !.matched = session] \in SmsValues
        /\ [w EXCEPT !.match = match, !.matched = session].parse = w.parse
    BY Zenon DEF SmsValues
  <2> QED
    BY <1>1, <2>2, <2>3, RowValues
<1>3. WriteAndCommit(c, r, v)
  BY DEF Classify
<1> HIDE DEF v
<1>4. /\ db'[r] = v
      /\ \A x \in Rows \ {r} : db'[x] = View(c, x)
      /\ \A d \in Calls \ {c} : writes'[d] = writes[d]
      /\ DOMAIN writes'[c] = {}
  BY <1>1, <1>2, <1>3, CommitRows
<1>5. \A m \in Messages : db'[SmsRow(m)].parse = "parsed" => ParsedSomewhere(m)
  <2>1. \A m \in Messages : db'[SmsRow(m)].parse = View(c, SmsRow(m)).parse
    BY <1>2, <1>4, RowValues
  <2> QED
    BY <2>1 DEF View, ParsedSomewhere, ParsedIn
<1>6. \A d \in Calls, m \in Messages : ParsedIn(d, m)' => ParsedIn(d, m)
  BY <1>4 DEF ParsedIn, Holds
<1> QED
  BY <1>5, <1>6, NothingParsed DEF ParsedSomewhere

\* UpdateSMSParsed gets past the unique index only if no twin is parsed.
LEMMA UpdateParsesOne ==
  ASSUME IInv, ParsedOnce, NEW c \in Calls, UpdateSMSParsed(c), ~Rollback(c)
  PROVE  ParsedOnce'
<1> DEFINE r == SmsRow(sms[c])
           v == [View(c, r) EXCEPT !.parse = "parsed"]
<1>1. /\ RowsTyped /\ LocksExclusive /\ sms[c] \in Messages
      /\ DOMAIN writes[c] = {}
  BY Typed DEF IInv, OwnWrites, UpdateSMSParsed
<1>2. r \in Rows /\ v \in ValuesOf(r)
  <2>1. View(c, r) \in SmsValues
    BY <1>1, RowValues, ViewTyped
  <2> QED
    BY <1>1, <2>1, RowValues DEF SmsValues
<1>3. Write(c, r, v)
  BY DEF UpdateSMSParsed
<1> HIDE DEF v
<1>4. /\ db' = db
      /\ \A d \in Calls \ {c} : writes'[d] = writes[d]
      /\ DOMAIN writes'[c] = {r}
  BY <1>1, <1>2, <1>3, WriteRow
<1>5. \A o \in Twins(sms[c]) : ~ParsedSomewhere(o)
  <2>1. \A o \in Twins(sms[c]) : db[SmsRow(o)].parse # "parsed"
    BY DEF UpdateSMSParsed
  <2>2. \A o \in Twins(sms[c]), d \in Calls : ~Holds(d, SmsRow(o))
    BY <1>1 DEF UpdateSMSParsed, IndexFree, Holds
  <2> QED
    BY <2>1, <2>2 DEF ParsedSomewhere, ParsedIn
<1>6. \A m \in Messages : m # sms[c] /\ ParsedSomewhere(m)' => ParsedSomewhere(m)
  <2>1. \A d \in Calls, m \in Messages :
          m # sms[c] /\ ParsedIn(d, m)' => ParsedIn(d, m)
    BY <1>4, RowKeys DEF ParsedIn, Holds
  <2> QED
    BY <1>4, <2>1 DEF ParsedSomewhere
<1>7. UNCHANGED sms
  BY DEF UpdateSMSParsed
<1> QED
  BY <1>1, <1>5, <1>6, <1>7 DEF ParsedOnce, Twins

\* Every step keeps one parsed row per TrxID.
LEMMA NextParsedOnce == IInv /\ ParsedOnce /\ [Next]_vars => ParsedOnce'
<1> SUFFICES ASSUME IInv, ParsedOnce, [Next]_vars PROVE ParsedOnce'
  OBVIOUS
<1>1. ASSUME UNCHANGED <<db, writes>> PROVE ParsedOnce'
  BY <1>1, NothingParsed DEF ParsedSomewhere, ParsedIn, Holds
<1>2. ASSUME NEW c \in Calls, Rollback(c) PROVE ParsedOnce'
  <2>1. /\ db' = db
        /\ \A d \in Calls \ {c} : writes'[d] = writes[d]
        /\ DOMAIN writes'[c] = {}
    BY <1>2, Typed, RollbackRows DEF IInv, Rollback
  <2>2. \A d \in Calls, m \in Messages : ParsedIn(d, m)' => ParsedIn(d, m)
    BY <2>1 DEF ParsedIn, Holds
  <2> QED
    BY <2>1, <2>2, NothingParsed DEF ParsedSomewhere
<1>3. ASSUME NEW c \in Calls, Process(c) PROVE ParsedOnce'
  <2>1. /\ OwnWrites(c) /\ RowsTyped /\ CallsTyped
        /\ pc[c] \notin {"idle", "over"} => sms[c] \in Messages /\ Trx[sms[c]] \in TrxIds
    BY Typed, TxAssumption DEF IInv, OwnWrites
  <2>2. CASE \/ \E m \in Messages : Start(c, m)
             \/ GetSMSMessage(c)
             \/ FindDuplicateTrxID(c)
             \/ GetProfile(c)
             \/ FindMatchCandidates(c)
    BY <1>1, <2>2 DEF Start, GetSMSMessage, FindDuplicateTrxID, GetProfile, FindMatchCandidates
  <2>3. CASE MarkDuplicate(c) \/ MarkSuspect(c) \/ MarkUnmatched(c) \/ MarkHeld(c)
    BY <2>3, ClassifyParsesNothing DEF MarkDuplicate, MarkSuspect, MarkUnmatched, MarkHeld
  <2>4. CASE MarkMatched(c)
    BY <2>1, <2>4, ClassifyParsesNothing DEF MarkMatched, OwnWrites
  <2>5. CASE UpdateSMSParsed(c)
    BY <1>2, <2>5, UpdateParsesOne
  <2>6. CASE UpdateTrackedBalance(c)
    <3>1. Balance[sms[c]] \in Nat
      <4>1. seen[c] + Amount[sms[c]] \in Nat
        BY <2>1, <2>6, TxAssumption DEF UpdateTrackedBalance, CallsTyped
      <4> QED
        BY <2>6, <4>1 DEF UpdateTrackedBalance, BalanceFits
    <3> QED
      BY <2>6, <3>1, RowKeys, RowValues, WriteParsesNothing DEF UpdateTrackedBalance
  <2>7. ASSUME NEW s \in Sessions, InsertPayment(c, s) PROVE ParsedOnce'
    <3>1. CASE Conflicts(s, Trx[sms[c]])
      BY <1>1, <2>7, <3>1 DEF InsertPayment
    <3>2. CASE ~Conflicts(s, Trx[sms[c]])
      <4>1. Write(c, PaymentRow(s, Trx[sms[c]]), sms[c]) /\ pc[c] = "insert"
        BY <2>7, <3>2 DEF InsertPayment
      <4> QED
        BY <2>1, <4>1, RowKeys, RowValues, WriteParsesNothing
    <3> QED
      BY <3>1, <3>2
  <2>8. ASSUME NEW s \in Sessions, UpdateSession(c, s) PROVE ParsedOnce'
    <3>1. [status |-> "succeeded", review |-> FALSE] \in ValuesOf(SessionRow(s))
      BY RowValues DEF SessionValues
    <3>2. Write(c, SessionRow(s), [status |-> "succeeded", review |-> FALSE])
      BY <2>8 DEF UpdateSession
    <3> QED
      BY <3>1, <3>2, RowKeys, RowValues, WriteParsesNothing
  <2>9. ASSUME NEW s \in Sessions, FlagSession(c, s) PROVE ParsedOnce'
    <3>1. View(c, SessionRow(s)) \in SessionValues
      BY <2>1, RowValues, ViewTyped
    <3>2. [View(c, SessionRow(s)) EXCEPT !.review = TRUE] \in SessionValues
      BY <3>1 DEF SessionValues
    <3> QED
      BY <2>9, <3>2, RowKeys, RowValues, WriteParsesNothing DEF FlagSession
  <2>10. CASE Abort(c)
    BY <1>2, <2>10 DEF Abort
  <2> QED
    BY <1>3, <2>2, <2>3, <2>4, <2>5, <2>6, <2>7, <2>8, <2>9, <2>10 DEF Process
<1>4. ASSUME NEW s \in Sessions, GiveUp(s) PROVE ParsedOnce'
  <2>1. writes' = writes /\ \A m \in Messages : db'[SmsRow(m)] = db[SmsRow(m)]
    BY <1>4, RowKeys, RowValues, Typed DEF GiveUp, IInv, RowsTyped
  <2> QED
    BY <2>1, NothingParsed DEF ParsedSomewhere, ParsedIn, Holds
<1> QED
  BY <1>1, <1>3, <1>4 DEF Next, vars

LEMMA InitParsedOnce == Init => ParsedOnce
<1> SUFFICES ASSUME Init PROVE ParsedOnce
  OBVIOUS
<1>1. \A m \in Messages : db[SmsRow(m)].parse = "pending"
  BY NewRowValues, RowValues DEF Init
<1>2. \A c \in Calls, r \in Rows : ~Holds(c, r)
  BY DEF Init, Holds, NoWrites
<1> QED
  BY <1>1, <1>2, RowValues DEF ParsedOnce, ParsedSomewhere, ParsedIn

\* However many calls parse SMS with the same TrxID at once, one parsed row of
\* it is committed (the unique index of migration 000009).
THEOREM TrxParsedOnce == Spec => []OneParsedRowPerTrx
<1>1. ParsedOnce => OneParsedRowPerTrx
  BY DEF ParsedOnce, ParsedSomewhere, OneParsedRowPerTrx
<1> QED
  BY <1>1, InitParsedOnce, NextParsedOnce, CommittedInvariant, PTL DEF Spec

-----------------------------------------------------------------------------
(* No circle of waiting transactions.                                      *)

\* A call that has parsed its SMS holds its row, and one that flags sessions
\* holds only older ones than those it has yet to flag.
LockedInOrder(c) ==
  /\ pc[c] \in {"profile", "balance", "candidates", "unmatched", "insert", "pay", "match",
                "hold", "held"} => Holds(c, SmsRow(sms[c]))
  /\ pc[c] = "hold" =>
       \A s \in Sessions, t \in todo[c] : Holds(c, SessionRow(s)) => s < t

OrderInv == \A c \in Calls : LockedInOrder(c)

\* A call that executes a statement moves on from it, and touches no other's
\* transaction.
LEMMA MovesAlone ==
  ASSUME IInv, NEW x \in Calls, Process(x)
  PROVE  \A c \in Calls \ {x} : /\ writes'[c] = writes[c] /\ pc'[c] = pc[c]
                                /\ sms'[c] = sms[c] /\ todo'[c] = todo[c]
<1> SUFFICES ASSUME NEW c \in Calls, c # x
             PROVE  /\ writes'[c] = writes[c] /\ pc'[c] = pc[c]
                    /\ sms'[c] = sms[c] /\ todo'[c] = todo[c]
  OBVIOUS
<1>1. /\ pc \in [Calls -> Statements] /\ sms \in [Calls -> Messages \cup {None}]
      /\ todo \in [Calls -> SUBSET Sessions] /\ DOMAIN writes = Calls
  BY Typed DEF IInv, RowsTyped, CallsTyped
<1>2. ASSUME NEW r, NEW v, Write(x, r, v) \/ WriteAndCommit(x, r, v)
      PROVE  writes'[c] = writes[c]
  BY <1>1, <1>2 DEF Write, WriteAndCommit
<1>3. ASSUME NEW st, Goto(x, st) PROVE pc'[c] = pc[c]
  BY <1>1, <1>3 DEF Goto
<1>4. CASE Rollback(x)
  BY <1>1, <1>3, <1>4 DEF Rollback
<1>5. ASSUME NEW match, NEW session, Classify(x, match, session)
      PROVE  /\ writes'[c] = writes[c] /\ pc'[c] = pc[c]
             /\ sms'[c] = sms[c] /\ todo'[c] = todo[c]
  BY <1>2, <1>3, <1>5 DEF Classify
<1>6. CASE \E m \in Messages : Start(x, m)
  BY <1>1, <1>3, <1>6 DEF Start
<1>7. CASE GetSMSMessage(x) \/ FindDuplicateTrxID(x) \/ GetProfile(x)
  BY <1>1, <1>3, <1>7 DEF GetSMSMessage, FindDuplicateTrxID, GetProfile
<1>8. CASE MarkDuplicate(x) \/ MarkSuspect(x) \/ MarkUnmatched(x) \/ MarkHeld(x) \/ MarkMatched(x)
  BY <1>5, <1>8 DEF MarkDuplicate, MarkSuspect, MarkUnmatched, MarkHeld, MarkMatched
<1>9. CASE UpdateSMSParsed(x)
  BY <1>2, <1>3, <1>4, <1>9 DEF UpdateSMSParsed
<1>10. CASE UpdateTrackedBalance(x)
  BY <1>2, <1>3, <1>10 DEF UpdateTrackedBalance
<1>11. CASE FindMatchCandidates(x)
  BY <1>1, <1>3, <1>11 DEF FindMatchCandidates, Decide
<1>12. ASSUME NEW s \in Sessions, InsertPayment(x, s) \/ UpdateSession(x, s) \/ FlagSession(x, s)
       PROVE  /\ writes'[c] = writes[c] /\ pc'[c] = pc[c]
              /\ sms'[c] = sms[c] /\ todo'[c] = todo[c]
  BY <1>1, <1>2, <1>3, <1>12 DEF InsertPayment, UpdateSession, FlagSession
<1>13. CASE Abort(x)
  BY <1>4, <1>13 DEF Abort
<1> QED
  BY <1>6, <1>7, <1>8, <1>9, <1>10, <1>11, <1>12, <1>13 DEF Process

\* A write adds one row to those the transaction holds.
LEMMA WriteHolds ==
  ASSUME IInv, NEW x \in Calls, NEW r, NEW v, Write(x, r, v)
  PROVE  DOMAIN writes'[x] = DOMAIN writes[x] \cup {r}
BY Typed DEF IInv, RowsTyped, Write, With

LEMMA ProcessInOrder ==
  ASSUME IInv, OrderInv, NEW x \in Calls, Process(x)
  PROVE  LockedInOrder(x)'
<1>1. /\ pc \in [Calls -> Statements] /\ sms \in [Calls -> Messages \cup {None}]
      /\ todo \in [Calls -> SUBSET Sessions] /\ DOMAIN writes = Calls
      /\ OwnWrites(x) /\ LockedInOrder(x)
  BY Typed DEF IInv, RowsTyped, CallsTyped, OrderInv
<1>2. ASSUME pc'[x] \in {"over", "get", "dedupe", "duplicate", "parse"}
      PROVE  LockedInOrder(x)'
  BY <1>2 DEF LockedInOrder
<1>3. ASSUME NEW st, st \in Statements, Goto(x, st) PROVE pc'[x] = st
  BY <1>1, <1>3 DEF Goto
<1>4. CASE Rollback(x)
  BY <1>2, <1>3, <1>4 DEF Rollback, Statements
<1>5. ASSUME NEW match, NEW session, Classify(x, match, session)
      PROVE  LockedInOrder(x)'
  BY <1>2, <1>3, <1>5 DEF Classify, Statements
<1>6. CASE \/ \E m \in Messages : Start(x, m)
           \/ GetSMSMessage(x) \/ FindDuplicateTrxID(x)
  BY <1>2, <1>3, <1>6 DEF Start, GetSMSMessage, FindDuplicateTrxID, Statements
<1>7. CASE MarkDuplicate(x) \/ MarkSuspect(x) \/ MarkUnmatched(x) \/ MarkHeld(x) \/ MarkMatched(x)
  BY <1>5, <1>7 DEF MarkDuplicate, MarkSuspect, MarkUnmatched, MarkHeld, MarkMatched
\* The rows held, the SMS and the sessions to update stay, or rows are added.
<1>8. ASSUME DOMAIN writes[x] \subseteq DOMAIN writes'[x], sms'[x] = sms[x],
             pc[x] \in {"profile", "balance", "candidates", "unmatched", "insert", "pay",
                        "match", "hold", "held"},
             pc'[x] # "hold"
      PROVE  LockedInOrder(x)'
  BY <1>1, <1>8 DEF LockedInOrder, Holds
<1>9. CASE UpdateSMSParsed(x)
  <2>1. CASE ~Rollback(x)
    <3>1. /\ Goto(x, "profile") /\ UNCHANGED sms
          /\ SmsRow(sms[x]) \in DOMAIN writes'[x]
      BY <1>9, <2>1, WriteHolds DEF UpdateSMSParsed
    <3> QED
      BY <1>3, <3>1 DEF LockedInOrder, Holds, Statements
  <2> QED
    BY <1>4, <2>1
<1>10. CASE GetProfile(x)
  <2>1. /\ pc[x] = "profile" /\ pc'[x] # "hold" /\ UNCHANGED <<writes, sms>>
    BY <1>3, <1>10 DEF GetProfile, Statements
  <2> QED
    BY <1>8, <2>1
<1>11. CASE UpdateTrackedBalance(x)
  <2>1. /\ pc[x] = "balance" /\ pc'[x] # "hold" /\ UNCHANGED sms
        /\ DOMAIN writes[x] \subseteq DOMAIN writes'[x]
    BY <1>3, <1>11, WriteHolds DEF UpdateTrackedBalance, Statements
  <2> QED
    BY <1>8, <2>1
<1>12. CASE FindMatchCandidates(x)
  <2>1. pc[x] = "candidates" /\ UNCHANGED <<writes, sms>>
    BY <1>12 DEF FindMatchCandidates
  <2>2. \A s \in Sessions : SessionRow(s) \notin DOMAIN writes[x]
    \* Before the sessions are read, only the SMS and the profile are held.
    BY <1>1, <2>1, RowKeys DEF OwnWrites
  <2> QED
    BY <1>1, <2>1, <2>2 DEF LockedInOrder, Holds
<1>13. ASSUME NEW s \in Sessions, InsertPayment(x, s)
       PROVE  LockedInOrder(x)'
  <2>1. /\ pc[x] = "insert" /\ pc'[x] # "hold" /\ UNCHANGED sms
        /\ DOMAIN writes[x] \subseteq DOMAIN writes'[x]
    BY <1>3, <1>13, WriteHolds DEF InsertPayment, Statements
  <2> QED
    BY <1>8, <2>1
<1>14. ASSUME NEW s \in Sessions, UpdateSession(x, s)
       PROVE  LockedInOrder(x)'
  <2>1. /\ pc[x] = "pay" /\ pc'[x] # "hold" /\ UNCHANGED sms
        /\ DOMAIN writes[x] \subseteq DOMAIN writes'[x]
    BY <1>3, <1>14, WriteHolds DEF UpdateSession, Statements
  <2> QED
    BY <1>8, <2>1
<1>15. ASSUME NEW s \in Sessions, FlagSession(x, s)
       PROVE  LockedInOrder(x)'
  <2>1. /\ pc[x] = "hold" /\ UNCHANGED sms /\ s \in Oldest(todo[x])
        /\ todo'[x] = todo[x] \ {s}
        /\ DOMAIN writes'[x] = DOMAIN writes[x] \cup {SessionRow(s)}
    BY <1>1, <1>15, WriteHolds DEF FlagSession
  <2>2. Holds(x, SmsRow(sms[x]))'
    BY <1>1, <2>1 DEF LockedInOrder, Holds
  <2>3. ASSUME NEW o \in Sessions, NEW t \in todo'[x], Holds(x, SessionRow(o))'
        PROVE  o < t
    <3>1. t \in todo[x] /\ t # s /\ t \in Nat /\ s \in Nat /\ s <= t
      BY <1>1, <2>1, TxAssumption DEF Oldest
    <3>2. CASE o = s
      BY <3>1, <3>2
    <3>3. CASE o # s
      BY <1>1, <2>1, <2>3, <3>1, <3>3, RowKeys DEF LockedInOrder, Holds
    <3> QED
      BY <3>2, <3>3
  <2> QED
    BY <2>2, <2>3 DEF LockedInOrder
<1>16. CASE Abort(x)
  BY <1>4, <1>16 DEF Abort
<1> QED
  BY <1>6, <1>7, <1>9, <1>10, <1>11, <1>12, <1>13, <1>14, <1>15, <1>16 DEF Process

LEMMA NextOrderInv == IInv /\ OrderInv /\ [Next]_vars => OrderInv'
<1> SUFFICES ASSUME IInv, OrderInv, [Next]_vars PROVE OrderInv'
  OBVIOUS
<1>1. ASSUME NEW x \in Calls, Process(x) PROVE OrderInv'
  <2> SUFFICES ASSUME NEW c \in Calls, c # x PROVE LockedInOrder(c)'
    BY <1>1, ProcessInOrder DEF OrderInv
  <2>1. /\ writes'[c] = writes[c] /\ pc'[c] = pc[c] /\ sms'[c] = sms[c] /\ todo'[c] = todo[c]
    BY <1>1, MovesAlone
  <2> QED
    BY <2>1 DEF OrderInv, LockedInOrder, Holds
<1>2. CASE (\E s \in Sessions : GiveUp(s)) \/ UNCHANGED vars
  BY <1>2 DEF GiveUp, vars, OrderInv, LockedInOrder, Holds
<1> QED
  BY <1>1, <1>2 DEF Next

\* The order in which the rows are locked.
Rank(r) ==
  IF r[1] = "sms" THEN 0
  ELSE IF r[1] = "profile" THEN 1
  ELSE IF r[1] = "payment" THEN 2
  ELSE 3 + r[2]

LEMMA Ranks ==
  /\ \A m : Rank(SmsRow(m)) = 0
  /\ Rank(ProfileRow) = 1
  /\ \A s, x : Rank(PaymentRow(s, x)) = 2
  /\ \A s \in Nat : Rank(SessionRow(s)) = 3 + s
<1>1. \A m : SmsRow(m)[1] = "sms"
  BY DEF SmsRow
<1>2. ProfileRow[1] = "profile"
  BY DEF ProfileRow
<1>3. \A s, x : PaymentRow(s, x)[1] = "payment"
  BY DEF PaymentRow
<1>4. \A s \in Nat : SessionRow(s)[1] = "session" /\ SessionRow(s)[2] = s
  BY DEF SessionRow
<1> QED
  BY <1>1, <1>2, <1>3, <1>4 DEF Rank

\* The rows there are have a rank, bounded by the newest session.
LEMMA RanksBounded ==
  ASSUME NEW B \in Nat, Sessions \subseteq 0 .. B, NEW r \in Rows
  PROVE  Rank(r) \in 0 .. B + 3
BY Ranks DEF Rows

\* What a call that is kept waiting holds comes before what it waits for.
LEMMA WaitsForLater ==
  ASSUME IInv, OrderInv, NEW d \in Calls, NEW e \in Calls, d # e,
         NEW r, Holds(d, r), NEW w \in Wanted(d), Holds(e, w)
  PROVE  Rank(r) < Rank(w)
<1>1. /\ pc \in [Calls -> Statements] /\ todo \in [Calls -> SUBSET Sessions]
      /\ OwnWrites(d) /\ LockedInOrder(d) /\ ~Holds(d, w) /\ Sessions \subseteq Nat
  BY Typed, TxAssumption DEF IInv, CallsTyped, OrderInv, LocksExclusive, RowsTyped, Holds
<1>2. pc[d] \in Statements
  BY <1>1
<1>3. CASE pc[d] \in {"idle", "over", "get", "dedupe", "duplicate", "parse"}
  BY <1>1, <1>3 DEF OwnWrites, Holds
<1>4. CASE pc[d] \in {"unmatched", "held", "match"}
  \* It wants the row of its own SMS, which it holds.
  <2>1. Wanted(d) = {SmsRow(sms[d])}
    BY <1>4 DEF Wanted
  <2> QED
    BY <1>1, <1>4, <2>1 DEF LockedInOrder
<1>5. CASE pc[d] = "balance"
  <2>1. Wanted(d) = IF BalanceFits(d) THEN {ProfileRow} ELSE {SmsRow(sms[d])}
    BY <1>5 DEF Wanted
  <2>2. w = ProfileRow
    BY <1>1, <1>5, <2>1 DEF LockedInOrder
  <2>3. r = SmsRow(sms[d])
    BY <1>1, <1>5, <2>2 DEF OwnWrites, Holds
  <2> QED
    BY <2>2, <2>3, Ranks
<1>6. CASE pc[d] = "insert"
  <2>1. w \in {PaymentRow(s, Trx[sms[d]]) : s \in todo[d]}
    BY <1>6 DEF Wanted
  <2>2. Rank(w) = 2
    BY <2>1, Ranks
  <2>3. r = SmsRow(sms[d]) \/ r = ProfileRow
    BY <1>1, <1>6 DEF OwnWrites, Holds
  <2> QED
    BY <2>2, <2>3, Ranks
<1>7. CASE pc[d] = "pay"
  <2>1. PICK s \in Sessions :
          /\ todo[d] = {s}
          /\ DOMAIN writes[d] \subseteq {SmsRow(sms[d]), ProfileRow}
               \cup {PaymentRow(s, Trx[sms[d]]), SessionRow(s)}
    BY <1>1, <1>7 DEF OwnWrites
  <2>2. Wanted(d) = {SessionRow(o) : o \in todo[d]}
    BY <1>7 DEF Wanted
  <2>3. w = SessionRow(s)
    BY <2>1, <2>2
  <2>4. r \in {SmsRow(sms[d]), ProfileRow, PaymentRow(s, Trx[sms[d]])}
    BY <1>1, <2>1, <2>3 DEF Holds
  <2>5. s \in Nat
    BY <1>1
  <2> QED
    BY <2>3, <2>4, <2>5, Ranks
<1>8. CASE pc[d] = "hold"
  <2>1. Wanted(d) = {SessionRow(o) : o \in Oldest(todo[d])}
    BY <1>8 DEF Wanted
  <2>2. PICK t \in todo[d] : w = SessionRow(t)
    BY <2>1 DEF Oldest
  <2>3. t \in Nat /\ Rank(w) = 3 + t
    BY <1>1, <2>2, Ranks
  <2>4. r \in {SmsRow(sms[d]), ProfileRow} \cup {SessionRow(o) : o \in Sessions}
    BY <1>1, <1>8 DEF OwnWrites, Holds
  <2>5. CASE r \in {SmsRow(sms[d]), ProfileRow}
    BY <2>3, <2>5, Ranks
  <2>6. ASSUME NEW o \in Sessions, r = SessionRow(o) PROVE Rank(r) < Rank(w)
    <3>1. o < t /\ o \in Nat
      BY <1>1, <1>8, <2>6 DEF LockedInOrder
    <3> QED
      BY <2>3, <2>6, <3>1, Ranks
  <2> QED
    BY <2>4, <2>5, <2>6
<1>9. CASE pc[d] \in {"profile", "candidates"}
  BY <1>9 DEF Wanted
<1> QED
  BY <1>2, <1>3, <1>4, <1>5, <1>6, <1>7, <1>8, <1>9 DEF Statements

\* Of numbers up to a bound one is the greatest.
LEMMA Greatest ==
  ASSUME NEW B \in Nat, NEW S, S \subseteq 0 .. B, S # {}
  PROVE  \E n \in S : \A k \in S : k <= n
<1> DEFINE T == {B - n : n \in S}
           L == OpToRel(<, Nat)
<1>1. T \subseteq Nat /\ T # {}
  <2>1. \A n \in S : B - n \in Nat
    OBVIOUS
  <2>2. PICK n : n \in S
    OBVIOUS
  <2>3. B - n \in T
    BY <2>2
  <2> QED
    BY <2>1, <2>3
<1>2. IsWellFoundedOn(L, Nat)
  BY NatLessThanWellFounded
<1> HIDE DEF L, T
<1>3. PICK x \in T : \A y \in T : ~(<<y, x>> \in L)
  BY <1>1, <1>2, WFMin
<1>4. \A y \in T : ~(y < x)
  BY <1>1, <1>3 DEF OpToRel, L
<1>5. PICK n \in S : x = B - n
  BY DEF T
<1>6. ASSUME NEW k \in S PROVE k <= n
  <2>1. B - k \in T
    BY DEF T
  <2>2. ~(B - k < B - n)
    BY <1>4, <1>5, <2>1
  <2> QED
    BY <2>2
<1> QED
  BY <1>6

\* The table holds finitely many sessions: none is newer than some number.
LEMMA SessionsBounded == \E B \in Nat : Sessions \subseteq 0 .. B
<1> DEFINE Bounded(T) == \E B \in Nat : T \subseteq 0 .. B
           R == StrictSubsetOrdering(Sessions)
           U == {T \in SUBSET Sessions : ~Bounded(T)}
<1> SUFFICES ASSUME ~Bounded(Sessions) PROVE FALSE
  OBVIOUS
<1>1. IsWellFoundedOn(R, SUBSET Sessions)
  <2>1. IsFiniteSet(Sessions)
    BY TxAssumption
  <2>2. FiniteSubsetsOf(Sessions) = SUBSET Sessions
    BY <2>1, FS_FiniteSubsetsOfFinite
  <2>3. IsWellFoundedOn(StrictSubsetOrdering(Sessions), FiniteSubsetsOf(Sessions))
    BY FS_StrictSubsetOrderingWellFounded
  <2> QED
    BY <2>2, <2>3
<1>2. Sessions \in U /\ U \subseteq SUBSET Sessions
  OBVIOUS
<1>3. PICK T \in U : \A V \in U : <<V, T>> \notin R
  <2> HIDE DEF R, U
  <2> QED
    BY <1>1, <1>2, WFMin
<1>4. T \subseteq Sessions /\ ~Bounded(T)
  OBVIOUS
<1>5. T # {}
  <2>1. {} \subseteq 0 .. 0 /\ 0 \in Nat
    OBVIOUS
  <2> QED
    BY <1>4, <2>1
<1>6. PICK s : s \in T
  BY <1>5
<1>7. T \ {s} \notin U
  <2>1. <<T \ {s}, T>> \in R
    BY <1>4, <1>6 DEF StrictSubsetOrdering
  <2> QED
    BY <1>3, <2>1
<1>8. PICK B \in Nat : T \ {s} \subseteq 0 .. B
  BY <1>4, <1>7
<1>9. s \in Nat /\ B + s \in Nat
  BY <1>4, <1>6, <1>8, TxAssumption
<1>10. ASSUME NEW t \in T PROVE t \in 0 .. B + s
  BY <1>8, <1>9
<1> QED
  BY <1>4, <1>9, <1>10

\* Engine.Process: however many transactions overlap, they never wait for each
\* other in a circle, as every one of them locks its rows in one order.
THEOREM NoDeadlock == Spec => []NoWaitCycle
<1>1. IInv /\ OrderInv => NoWaitCycle
  <2> SUFFICES ASSUME IInv, OrderInv, NEW C \in SUBSET Calls, C # {},
                      \A c \in C : \E d \in C : WaitsFor(c, d)
               PROVE  FALSE
    BY DEF NoWaitCycle
  <2> PICK B \in Nat : Sessions \subseteq 0 .. B
    BY SessionsBounded
  <2> DEFINE Kept(c, d, r) == c # d /\ r \in Wanted(c) /\ Holds(d, r)
             S == {n \in 0 .. B + 3 : \E c, d \in C : \E r \in Rows : Kept(c, d, r) /\ Rank(r) = n}
  <2>1. \A c \in C : \E d \in C : \E r \in Rows : Kept(c, d, r)
    BY Typed DEF WaitsFor, Holds, IInv, RowsTyped
  <2>2. S # {}
    <3>1. PICK c \in C, d \in C, r \in Rows : Kept(c, d, r)
      BY <2>1
    <3>2. Rank(r) \in 0 .. B + 3
      BY RanksBounded
    <3>3. Rank(r) \in S
      BY <3>1, <3>2
    <3> QED
      BY <3>3
  <2>3. PICK n \in S : \A k \in S : k <= n
    <3> HIDE DEF S
    <3>1. S \subseteq 0 .. B + 3 /\ B + 3 \in Nat
      BY DEF S
    <3> QED
      BY <2>2, <3>1, Greatest
  <2>4. PICK c \in C, d \in C, r \in Rows : Kept(c, d, r) /\ Rank(r) = n
    OBVIOUS
  <2>5. PICK e \in C, w \in Rows : Kept(d, e, w)
    BY <2>1
  <2>6. Rank(r) < Rank(w)
    BY <2>4, <2>5, WaitsForLater
  <2>7. Rank(w) \in S
    BY <2>5, RanksBounded
  <2> QED
    BY <2>3, <2>4, <2>6, <2>7
<1>2. Init => OrderInv
  BY DEF Init, OrderInv, LockedInOrder
<1> QED
  BY <1>1, <1>2, NextOrderInv, CommittedInvariant, PTL DEF Spec
=============================================================================
