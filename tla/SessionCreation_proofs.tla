----------------------- MODULE SessionCreation_proofs -----------------------
(***************************************************************************)
(* Proofs about SessionCreation: the inductive invariant, and from it that *)
(* answers belong to the request, that a retry creates nothing and that    *)
(* replays agree; and how far the calls can exceed the plan's limit.       *)
(***************************************************************************)
EXTENDS SessionCreation, FiniteSetTheorems, TLAPS

\* The initial state satisfies the invariant.
LEMMA InitInv == Init => IInv
<1> SUFFICES ASSUME Init PROVE IInv
  OBVIOUS
<1> USE CreationAssumption, NoneAssumption DEF Init
<1>1. TypeOK
  BY DEF TypeOK
<1>2. Created = {} /\ Replayed = {}
  BY DEF Created, Replayed
<1>3. \A c \in Calls : Progress(c)
  BY DEF Progress
<1>4. RowsSound /\ AnswersOwnSession /\ ResponsesKept /\ PastCheck
  BY <1>2 DEF RowsSound, AnswersOwnSession, ResponsesKept, PastCheck
<1> QED
  BY <1>1, <1>3, <1>4 DEF IInv

\* A key that is one merchant's after a step was so before it, as requests
\* are never taken back.
LEMMA OneMerchantBefore ==
  ASSUME NEW k,
         \A c \in Calls : request[c] # None => request'[c] = request[c],
         OneMerchant(k)'
  PROVE  OneMerchant(k)
BY DEF OneMerchant

\* What PastCheck asks of one call.
Warned(c) ==
  \A d \in before[c] :
    (request[c].key # None /\ OneMerchant(request[c].key) /\ expiries = 0)
      => request[d] # request[c]

Past(c) == pc[c] \in {"limit", "create", "count", "store"} \/ c \in sessions

LEMMA PastCheckWarned ==
  PastCheck <=> \A c \in Calls : before[c] \subseteq Created /\ (Past(c) => Warned(c))
BY DEF PastCheck, Past, Warned

\* A step that leaves the requests alone keeps PastCheck, if the calls that it
\* takes past Check have been warned.
LEMMA PastCheckKept ==
  ASSUME PastCheck, UNCHANGED <<request, before>>,
         expiries' = 0 => expiries = 0, Created \subseteq Created',
         \A c \in Calls : Past(c)' => (Past(c) \/ Warned(c))
  PROVE  PastCheck'
<1>1. \A c \in Calls : Warned(c) => Warned(c)'
  BY DEF Warned, OneMerchant
<1>2. \A c \in Calls : before[c] \subseteq Created /\ (Past(c) => Warned(c))
  BY PastCheckWarned
<1>3. \A c \in Calls : before'[c] \subseteq Created' /\ (Past(c)' => Warned(c)')
  BY <1>1, <1>2
<1> QED
  BY <1>3 DEF PastCheck, Past, Warned

\* The calls answered with a session, after a step that answers at most c.
LEMMA CreatedAfter ==
  ASSUME NEW c \in Calls, answer \in [Calls -> Answers \cup {None}], NEW a,
         answer' = [answer EXCEPT ![c] = a]
  PROVE  /\ (a # None /\ a.code = "created") => Created' = Created \cup {c}
         /\ ~(a # None /\ a.code = "created") => Created' = Created \ {c}
BY DEF Created

\* A call that is sent on to the next statement.
LEMMA GotoKeeps ==
  ASSUME IInv, NEW c \in Calls, NEW st \in {"limit", "create"}, Goto(c, st),
         UNCHANGED <<request, sessions, counter, keys, expiries, before>>,
         faults' \in 0 .. MaxFaults,
         \/ st = "limit" /\ pc[c] = "check" /\ Warned(c)
         \/ st = "create" /\ pc[c] = "limit"
  PROVE  IInv'
<1> USE DEF Goto
<1>1. TypeOK'
  BY DEF IInv, TypeOK
<1>2. Created' = Created /\ Replayed' = Replayed
  BY DEF Created, Replayed
<1>3. pc'[c] = st /\ \A d \in Calls \ {c} : pc'[d] = pc[d]
  BY DEF IInv, TypeOK
<1>4. \A d \in Calls : Progress(d)'
  BY <1>3 DEF IInv, Progress
<1>5. RowsSound' /\ AnswersOwnSession' /\ ResponsesKept'
  BY <1>2 DEF IInv, RowsSound, AnswersOwnSession, ResponsesKept
<1>6. \A d \in Calls : Past(d)' => (Past(d) \/ Warned(d))
  BY <1>3 DEF Past
<1>7. PastCheck'
  BY <1>2, <1>6, PastCheckKept DEF IInv
<1> QED
  BY <1>1, <1>4, <1>5, <1>7 DEF IInv

\* A call that ends without a session to answer.
LEMMA RefusalKeeps ==
  ASSUME IInv, NEW c \in Calls, NEW code \in {"conflict", "limit", "error"},
         pc[c] \notin {"idle", "over"}, Answer(c, code, None),
         UNCHANGED <<request, sessions, counter, keys, expiries, before>>,
         faults' \in 0 .. MaxFaults
  PROVE  IInv'
<1> USE DEF Answer
<1>1. TypeOK'
  BY DEF IInv, TypeOK, Answers
<1>2. answer[c] = None
  BY DEF IInv, Progress
<1>0. [code |-> code, session |-> None] \in Answers
  BY DEF Answers
<1>3. answer'[c].code = code /\ answer'[c] # None /\ \A d \in Calls \ {c} : answer'[d] = answer[d]
  BY <1>0, NoneAssumption DEF IInv, TypeOK
<1>4. Created' = Created /\ Replayed' = Replayed /\ c \notin Created
  BY <1>2, <1>3 DEF Created, Replayed
<1>5. pc'[c] = "over" /\ \A d \in Calls \ {c} : pc'[d] = pc[d]
  BY DEF IInv, TypeOK
<1>6. \A d \in Calls : Progress(d)'
  BY <1>3, <1>5 DEF IInv, Progress
<1>7. \A d \in Created : answer'[d] = answer[d]
  BY <1>3, <1>4 DEF Created
<1>8. RowsSound' /\ AnswersOwnSession'
  BY <1>4, <1>7 DEF IInv, RowsSound, AnswersOwnSession
<1>9. ResponsesKept'
  BY <1>4, <1>7 DEF IInv, ResponsesKept, Replayed
<1>10. \A d \in Calls : Past(d)' => (Past(d) \/ Warned(d))
  BY <1>5 DEF Past
<1>11. PastCheck'
  BY <1>4, <1>10, PastCheckKept DEF IInv
<1> QED
  BY <1>1, <1>6, <1>8, <1>9, <1>11 DEF IInv

\* A call that is asked something.
LEMMA StartKeeps ==
  ASSUME IInv, NEW c \in Calls, NEW r \in Requests, Start(c, r)
  PROVE  IInv'
<1> USE DEF Start, Goto
<1>1. TypeOK'
  BY DEF IInv, TypeOK, Created
<1>2. request[c] = None /\ answer[c] = None /\ c \notin sessions
  BY DEF IInv, Progress
<1>3. request'[c] = r /\ r # None /\ \A d \in Calls \ {c} : request'[d] = request[d]
  BY NoneAssumption DEF IInv, TypeOK
<1>4. /\ pc'[c] = (IF r.key = None THEN "limit" ELSE "check")
      /\ \A d \in Calls \ {c} : pc'[d] = pc[d]
  BY DEF IInv, TypeOK
<1>5. before'[c] = Created /\ \A d \in Calls \ {c} : before'[d] = before[d]
  BY DEF IInv, TypeOK
<1>6. Created' = Created /\ Replayed' = Replayed /\ c \notin Created
  BY <1>2 DEF Created, Replayed
<1>7. \A d \in Calls : Progress(d)'
  BY <1>2, <1>3, <1>4 DEF IInv, Progress
<1>8. RowsSound' /\ AnswersOwnSession'
  <2>1. \A d \in sessions : request'[d] = request[d]
    BY <1>2, <1>3 DEF IInv, TypeOK
  <2>2. \A d \in Created : request'[d] = request[d]
    BY <1>3, <1>6 DEF Created
  <2> QED
    BY <1>6, <2>1, <2>2 DEF IInv, RowsSound, AnswersOwnSession
<1>9. ResponsesKept'
  <2>1. \A d \in Created : request'[d] = request[d]
    BY <1>3, <1>6 DEF Created
  <2> QED
    BY <1>6, <2>1 DEF IInv, ResponsesKept, Replayed
<1>10. PastCheck'
  <2>1. ASSUME NEW d \in Calls \ {c}, Warned(d)
        PROVE  Warned(d)'
    <3>1. \A k : OneMerchant(k)' => OneMerchant(k)
      BY <1>2, <1>3 DEF OneMerchant
    <3>2. \A e \in before[d] : request'[e] = request[e]
      BY <1>3, <1>6 DEF IInv, PastCheck, Created
    <3> QED
      BY <1>3, <1>5, <2>1, <3>1, <3>2 DEF Warned
  <2>2. \A d \in Calls \ {c} : Past(d)' <=> Past(d)
    BY <1>4 DEF Past
  <2>3. Past(c)' => Warned(c)'
    BY <1>2, <1>3, <1>4 DEF Past, Warned
  <2>4. \A d \in Calls : before'[d] \subseteq Created'
    BY <1>5, <1>6 DEF IInv, PastCheck
  <2>5. \A d \in Calls : Past(d)' => Warned(d)'
    BY <2>1, <2>2, <2>3, PastCheckWarned DEF IInv
  <2> QED
    BY <2>4, <2>5 DEF PastCheck, Past, Warned
<1> QED
  BY <1>1, <1>7, <1>8, <1>9, <1>10 DEF IInv

\* A call that finds no row of its merchant's has no answered call with its
\* request before it.
LEMMA MissWarns ==
  ASSUME IInv, NEW c \in Calls, pc[c] = "check", ~Found(request[c])
  PROVE  Warned(c)
<1> SUFFICES ASSUME NEW d \in before[c], request[d] = request[c],
                    request[c].key # None, OneMerchant(request[c].key), expiries = 0
             PROVE  FALSE
  BY DEF Warned
<1> DEFINE k == request[c].key
<1>1. request[c] \in Requests /\ k \in Keys
  BY DEF IInv, TypeOK, Progress, Requests
<1>2. d \in Created
  BY DEF IInv, PastCheck
<1>3. keys[k] # None /\ ~keys[k].expired
  BY <1>1, <1>2 DEF IInv, ResponsesKept
<1>4. keys[k].session \in Calls
  BY <1>1, <1>3 DEF IInv, TypeOK, KeyRows
<1>5. /\ request[keys[k].session].merchant = keys[k].merchant
      /\ request[keys[k].session].key = k
      /\ request[keys[k].session] # None
  <2>1. request[keys[k].session] =
          [merchant |-> keys[k].merchant, key |-> k, body |-> keys[k].body]
    BY <1>1, <1>3 DEF IInv, RowsSound
  <2>2. [merchant |-> keys[k].merchant, key |-> k, body |-> keys[k].body] \in Requests
    BY <1>1, <1>3 DEF IInv, TypeOK, KeyRows, Requests
  <2> QED
    BY <2>1, <2>2, NoneAssumption
<1>6. keys[k].merchant = request[c].merchant
  BY <1>1, <1>4, <1>5, NoneAssumption DEF OneMerchant
<1> QED
  BY <1>3, <1>6 DEF Found

\* A call that replays the stored response.
LEMMA ReplayKeeps ==
  ASSUME IInv, NEW c \in Calls, pc[c] = "check", Found(request[c]),
         keys[request[c].key].body = request[c].body,
         Answer(c, "created", keys[request[c].key].session),
         UNCHANGED <<request, sessions, counter, keys, faults, expiries, before>>
  PROVE  IInv'
<1> DEFINE k == request[c].key
           s == keys[k].session
<1> USE DEF Answer
<1>1. request[c] \in Requests /\ k \in Keys /\ keys[k] # None /\ k # None
  BY NoneAssumption DEF IInv, TypeOK, Progress, Requests, Found
<1>2. s \in Calls /\ s \in sessions /\ c \notin sessions /\ answer[c] = None
  BY <1>1 DEF IInv, TypeOK, KeyRows, RowsSound, Progress
<1>3. [code |-> "created", session |-> s] \in Answers
  BY <1>2 DEF Answers
<1>4. TypeOK'
  BY <1>3 DEF IInv, TypeOK
<1>5. /\ answer'[c] = [code |-> "created", session |-> s] /\ answer'[c] # None
      /\ \A d \in Calls \ {c} : answer'[d] = answer[d]
  BY <1>3, NoneAssumption DEF IInv, TypeOK
<1>6. pc'[c] = "over" /\ \A d \in Calls \ {c} : pc'[d] = pc[d]
  BY DEF IInv, TypeOK
<1>7. c \notin Created /\ Created' = Created \cup {c} /\ Replayed' = Replayed \cup {c}
  BY <1>2, <1>5 DEF Created, Replayed
<1>8. \A d \in Calls : Progress(d)'
  BY <1>2, <1>5, <1>6 DEF IInv, Progress
<1>9. RowsSound'
  BY DEF IInv, RowsSound
<1>10. AnswersOwnSession'
  <2>1. request[s].merchant = request[c].merchant /\ request[s].body = request[c].body
    <3>1. request[s] = [merchant |-> keys[k].merchant, key |-> k, body |-> keys[k].body]
      BY <1>1 DEF IInv, RowsSound
    <3>2. keys[k].merchant = request[c].merchant /\ keys[k].body = request[c].body
      BY DEF Found
    <3> QED
      BY <3>1, <3>2
  <2>2. \A d \in Created : answer'[d] = answer[d]
    BY <1>5, <1>7 DEF Created
  <2> QED
    BY <1>2, <1>5, <1>7, <2>1, <2>2 DEF IInv, AnswersOwnSession
<1>11. ResponsesKept'
  <2>1. \A d \in Created : answer'[d] = answer[d]
    BY <1>5, <1>7 DEF Created
  <2>2. Replayed \subseteq Created
    BY DEF Replayed
  <2> QED
    BY <1>1, <1>5, <1>7, <2>1, <2>2 DEF IInv, ResponsesKept
<1>12. PastCheck'
  <2>1. \A d \in Calls : Past(d)' => (Past(d) \/ Warned(d))
    BY <1>6 DEF Past
  <2> QED
    BY <1>7, <2>1, PastCheckKept DEF IInv
<1> QED
  BY <1>4, <1>8, <1>9, <1>10, <1>11, <1>12 DEF IInv

\* The row of the session is inserted.
LEMMA CreateKeeps ==
  ASSUME IInv, NEW c \in Calls, CreateSession(c)
  PROVE  IInv'
<1> USE DEF CreateSession, Goto
<1>1. TypeOK'
  BY DEF IInv, TypeOK
<1>2. Created' = Created /\ Replayed' = Replayed
  BY DEF Created, Replayed
<1>3. pc'[c] = "count" /\ \A d \in Calls \ {c} : pc'[d] = pc[d]
  BY DEF IInv, TypeOK
<1>4. \A d \in Calls : Progress(d)'
  BY <1>3 DEF IInv, Progress
<1>5. RowsSound' /\ AnswersOwnSession' /\ ResponsesKept'
  BY <1>2 DEF IInv, RowsSound, AnswersOwnSession, ResponsesKept
<1>6. \A d \in Calls : Past(d)' => Past(d)
  BY <1>3 DEF Past
<1>7. PastCheck'
  BY <1>2, <1>6, PastCheckKept DEF IInv
<1> QED
  BY <1>1, <1>4, <1>5, <1>7 DEF IInv

\* A call that answers with the session it has created, its row inserted or
\* another kept.
LEMMA AnswerKeeps ==
  ASSUME IInv, NEW c \in Calls, pc[c] \in {"count", "store"}, Answer(c, "created", c),
         UNCHANGED <<request, sessions, faults, expiries, before>>,
         counter' \in [Merchants -> Nat],
         \/ request[c].key = None /\ keys' = keys
         \/ request[c].key # None /\ keys' = [keys EXCEPT ![request[c].key] = Stored(c)]
  PROVE  IInv'
<1> DEFINE k == request[c].key
<1> USE DEF Answer
<1>1. request[c] \in Requests /\ c \in sessions /\ answer[c] = None
  BY DEF IInv, TypeOK, Progress
<1>2. [code |-> "created", session |-> c] \in Answers
  BY DEF Answers
<1>3. RowOf(c) \in KeyRows /\ RowOf(c) # None
  <2>1. request[c].merchant \in Merchants /\ request[c].body \in Bodies
    BY <1>1 DEF Requests
  <2>2. RowOf(c) \in KeyRows
    BY <2>1 DEF RowOf, KeyRows
  <2> QED
    BY <2>2, NoneAssumption
<1>4. \A j \in Keys : keys'[j] = (IF j = k /\ keys[j] = None THEN RowOf(c) ELSE keys[j])
  BY <1>1, NoneAssumption DEF IInv, TypeOK, Stored
<1>5. keys' \in [Keys -> KeyRows \cup {None}]
  BY <1>1, <1>3 DEF IInv, TypeOK, Stored, Requests
<1>6. TypeOK'
  BY <1>2, <1>5 DEF IInv, TypeOK
<1>7. /\ answer'[c] = [code |-> "created", session |-> c] /\ answer'[c] # None
      /\ \A d \in Calls \ {c} : answer'[d] = answer[d]
  BY <1>2, NoneAssumption DEF IInv, TypeOK
<1>8. pc'[c] = "over" /\ \A d \in Calls \ {c} : pc'[d] = pc[d]
  BY DEF IInv, TypeOK
<1>9. c \notin Created /\ Created' = Created \cup {c} /\ Replayed' = Replayed
  BY <1>1, <1>7 DEF Created, Replayed
<1>10. \A d \in Calls : Progress(d)'
  BY <1>1, <1>7, <1>8 DEF IInv, Progress
<1>11. \A d \in Created : answer'[d] = answer[d]
  BY <1>7, <1>9 DEF Created
<1>12. RowsSound'
  <2>1. request[c] = [merchant |-> request[c].merchant, key |-> k, body |-> request[c].body]
    BY <1>1 DEF Requests
  <2>2. ASSUME NEW j \in Keys, keys'[j] # None
        PROVE  /\ keys'[j].session \in sessions
               /\ request[keys'[j].session] =
                    [merchant |-> keys'[j].merchant, key |-> j, body |-> keys'[j].body]
    BY <1>1, <1>4, <2>1, <2>2 DEF IInv, RowsSound, RowOf
  <2> QED
    BY <2>2 DEF RowsSound
<1>13. AnswersOwnSession'
  BY <1>1, <1>7, <1>9, <1>11 DEF IInv, AnswersOwnSession
<1>14. ResponsesKept'
  <2> SUFFICES ASSUME expiries = 0
               PROVE  /\ \A j \in Keys : keys'[j] # None => ~keys'[j].expired
                      /\ \A d \in Created' :
                           request[d].key # None => keys'[request[d].key] # None
                      /\ \A d \in Replayed :
                           /\ request[d].key # None
                           /\ answer'[d].session = keys'[request[d].key].session
    BY <1>9 DEF ResponsesKept
  <2>1. \A d \in Created : request[d] \in Requests
    BY DEF IInv, TypeOK, Progress, Created
  <2>2. \A d \in Created : request[d].key # None =>
          keys[request[d].key] # None /\ keys'[request[d].key] = keys[request[d].key]
    BY <1>4, <2>1 DEF IInv, ResponsesKept, Requests
  <2>3. k # None => keys'[k] # None
    BY <1>1, <1>3, <1>4 DEF Requests
  <2>4. Replayed \subseteq Created
    BY DEF Replayed
  <2>5. \A j \in Keys : keys'[j] # None => ~keys'[j].expired
    BY <1>4 DEF IInv, ResponsesKept, RowOf
  <2> QED
    BY <1>9, <1>11, <2>2, <2>3, <2>4, <2>5 DEF IInv, ResponsesKept
<1>15. PastCheck'
  <2>1. \A d \in Calls : Past(d)' => Past(d)
    BY <1>8 DEF Past
  <2> QED
    BY <1>9, <2>1, PastCheckKept DEF IInv
<1> QED
  BY <1>6, <1>10, <1>12, <1>13, <1>14, <1>15 DEF IInv

\* A call with a key goes on from the counter to the key.
LEMMA CountKeeps ==
  ASSUME IInv, NEW c \in Calls, pc[c] = "count", Goto(c, "store"), request[c].key # None,
         UNCHANGED <<request, sessions, keys, faults, expiries, before>>,
         counter' \in [Merchants -> Nat]
  PROVE  IInv'
<1> USE DEF Goto
<1>1. TypeOK'
  BY DEF IInv, TypeOK
<1>2. Created' = Created /\ Replayed' = Replayed
  BY DEF Created, Replayed
<1>3. pc'[c] = "store" /\ \A d \in Calls \ {c} : pc'[d] = pc[d]
  BY DEF IInv, TypeOK
<1>4. \A d \in Calls : Progress(d)'
  BY <1>3 DEF IInv, Progress
<1>5. RowsSound' /\ AnswersOwnSession' /\ ResponsesKept'
  BY <1>2 DEF IInv, RowsSound, AnswersOwnSession, ResponsesKept
<1>6. \A d \in Calls : Past(d)' => Past(d)
  BY <1>3 DEF Past
<1>7. PastCheck'
  BY <1>2, <1>6, PastCheckKept DEF IInv
<1> QED
  BY <1>1, <1>4, <1>5, <1>7 DEF IInv

\* Keys grow old and are deleted.
LEMMA AgeKeeps ==
  ASSUME IInv, (\E k \in Keys : Expire(k)) \/ Cleanup
  PROVE  IInv'
<1>1. UNCHANGED <<pc, request, answer, sessions, counter, faults, before>>
  BY DEF Expire, Cleanup
<1>2. expiries' # 0
  <2>1. CASE \E k \in Keys : Expire(k)
    BY <2>1 DEF Expire, IInv, TypeOK
  <2>2. CASE Cleanup
    BY <2>2 DEF Cleanup, IInv, ResponsesKept
  <2> QED
    BY <2>1, <2>2
<1>3. expiries' \in 0 .. MaxExpiries
  BY CreationAssumption DEF Expire, Cleanup, IInv, TypeOK
<1>4. \A k \in Keys : keys'[k] # None =>
        /\ keys[k] # None
        /\ keys'[k] = keys[k] \/ keys'[k] = [keys[k] EXCEPT !.expired = TRUE]
  BY DEF Expire, Cleanup, IInv, TypeOK
<1>5. keys' \in [Keys -> KeyRows \cup {None}]
  <2>1. CASE \E k \in Keys : Expire(k)
    <3>1. \A row \in KeyRows : [row EXCEPT !.expired = TRUE] \in KeyRows
      BY DEF KeyRows
    <3> QED
      BY <2>1, <3>1 DEF Expire, IInv, TypeOK
  <2>2. CASE Cleanup
    BY <2>2 DEF Cleanup, IInv, TypeOK
  <2> QED
    BY <2>1, <2>2
<1>6. TypeOK'
  BY <1>1, <1>3, <1>5 DEF IInv, TypeOK
<1>7. Created' = Created
  BY <1>1 DEF Created
<1>8. \A d \in Calls : Progress(d)'
  BY <1>1 DEF IInv, Progress
<1>9. RowsSound'
  <2>1. \A k \in Keys : keys'[k] # None =>
          /\ keys'[k].session = keys[k].session
          /\ keys'[k].merchant = keys[k].merchant /\ keys'[k].body = keys[k].body
    BY <1>4 DEF IInv, TypeOK, KeyRows
  <2> QED
    BY <1>1, <1>4, <2>1, ZenonT(30) DEF IInv, RowsSound
<1>10. AnswersOwnSession' /\ ResponsesKept'
  BY <1>1, <1>2, <1>7 DEF IInv, AnswersOwnSession, ResponsesKept
<1>11. PastCheck'
  BY <1>1, <1>2, <1>7 DEF IInv, PastCheck
<1> QED
  BY <1>6, <1>8, <1>9, <1>10, <1>11 DEF IInv

\* Each statement of a call keeps the invariant.
LEMMA CallKeeps ==
  ASSUME IInv, NEW c \in Calls,
         \/ \E r \in Asked : Start(c, r)
         \/ Check(c) \/ Reject(c) \/ CheckLimit(c) \/ CheckLimitFails(c)
         \/ CreateSession(c) \/ IncrMerchantSessionCount(c) \/ Store(c) \/ Fail(c)
  PROVE  IInv'
<1>1. faults \in 0 .. MaxFaults /\ MaxFaults \in Nat
  BY CreationAssumption DEF IInv, TypeOK
<1>2. CASE \E r \in Asked : Start(c, r)
  BY <1>2, AskedAssumption, StartKeeps
<1>3. CASE Check(c)
  <2>1. CASE ~Found(request[c]) /\ Goto(c, "limit")
    BY <1>1, <1>3, <2>1, MissWarns, GotoKeeps DEF Check
  <2>2. CASE Found(request[c]) /\ keys[request[c].key].body = request[c].body
             /\ Answer(c, "created", keys[request[c].key].session)
    BY <1>3, <2>2, ReplayKeeps DEF Check
  <2>3. CASE Answer(c, "conflict", None)
    BY <1>1, <1>3, <2>3, RefusalKeeps DEF Check
  <2> QED
    BY <1>3, <2>1, <2>2, <2>3 DEF Check
<1>4. CASE Reject(c)
  BY <1>1, <1>4, RefusalKeeps DEF Reject
<1>5. CASE CheckLimit(c) \/ CheckLimitFails(c)
  <2>1. /\ pc[c] = "limit" /\ faults' \in 0 .. MaxFaults
        /\ UNCHANGED <<request, sessions, counter, keys, expiries, before>>
        /\ Answer(c, "limit", None) \/ Goto(c, "create")
    BY <1>1, <1>5 DEF CheckLimit, CheckLimitFails
  <2>2. CASE Answer(c, "limit", None)
    BY <2>1, <2>2, RefusalKeeps
  <2>3. CASE Goto(c, "create")
    BY <2>1, <2>3, GotoKeeps
  <2> QED
    BY <2>1, <2>2, <2>3
<1>6. CASE CreateSession(c)
  BY <1>6, CreateKeeps
<1>7. CASE IncrMerchantSessionCount(c)
  <2>0. request[c] \in Requests
    BY <1>7 DEF IncrMerchantSessionCount, IInv, TypeOK, Progress
  <2>1. counter' \in [Merchants -> Nat]
    BY <1>7, <2>0 DEF IncrMerchantSessionCount, IInv, TypeOK, Requests
  <2>2. CASE request[c].key = None
    BY <1>7, <2>1, <2>2, AnswerKeeps DEF IncrMerchantSessionCount
  <2>3. CASE request[c].key # None
    BY <1>7, <2>1, <2>3, CountKeeps DEF IncrMerchantSessionCount
  <2> QED
    BY <2>2, <2>3
<1>8. CASE Store(c)
  <2>1. request[c].key # None /\ counter' \in [Merchants -> Nat]
    BY <1>8 DEF Store, IInv, TypeOK, Progress
  <2> QED
    BY <1>8, <2>1, AnswerKeeps DEF Store
<1>9. CASE Fail(c)
  <2>1. faults' \in 0 .. MaxFaults
    BY <1>1, <1>9 DEF Fail
  <2> QED
    BY <1>9, <2>1, RefusalKeeps DEF Fail
<1> QED
  BY <1>2, <1>3, <1>4, <1>5, <1>6, <1>7, <1>8, <1>9

\* Every reachable state satisfies the invariant.
THEOREM CreationInvariant == Spec => []IInv
<1>1. IInv /\ [Next]_vars => IInv'
  <2> SUFFICES ASSUME IInv, [Next]_vars PROVE IInv'
    OBVIOUS
  <2>1. CASE UNCHANGED vars
    BY <2>1 DEF vars, IInv, TypeOK, Progress, RowsSound, AnswersOwnSession,
       ResponsesKept, PastCheck, Created, Replayed, OneMerchant
  <2>2. CASE Next
    BY <2>2, CallKeeps, AgeKeeps DEF Next
  <2> QED
    BY <2>1, <2>2
<1> QED
  BY InitInv, <1>1, PTL DEF Spec

\* An answer is a session the same merchant asked for with the same body.
THEOREM AnswersBelong == Spec => []AnswersOwnSession
<1>1. IInv => AnswersOwnSession
  BY DEF IInv
<1> QED
  BY CreationInvariant, <1>1, PTL

\* A request that was answered is not carried out again by a later call.
THEOREM RetriesCreateNothing == Spec => []RetryCreatesNothing
<1>1. IInv => RetryCreatesNothing
  BY DEF IInv, PastCheck, RetryCreatesNothing, TypeOK
<1> QED
  BY CreationInvariant, <1>1, PTL

\* All calls that find a stored response of a key find the same.
THEOREM ReplaysAreEqual == Spec => []ReplaysAgree
<1>1. IInv => ReplaysAgree
  BY DEF IInv, ResponsesKept, ReplaysAgree
<1> QED
  BY CreationInvariant, <1>1, PTL

-----------------------------------------------------------------------------
(* The plan's limit.                                                       *)

\* The calls of a merchant that incremented its counter, and have not failed
\* since.
Counted(m) ==
  {d \in sessions : request[d].merchant = m /\ (pc[d] = "store" \/ d \in Created)}

\* The calls past their limit that the plan would not have let through.
Excess ==
  {c \in Calls : /\ pc[c] = "create" \/ c \in sessions
                 /\ ~(Cardinality(AnsweredBefore(c)) < Limit)}

\* The counter has counted every call that was answered, and there was a fault
\* for every call in excess.
LimitInv ==
  /\ IsFiniteSet(sessions)
  /\ \A m \in Merchants : Cardinality(Counted(m)) <= counter[m]
  /\ Limit # 0 => IsFiniteSet(Excess) /\ Cardinality(Excess) <= faults

LEMMA InitLimitInv == Init => LimitInv
<1> SUFFICES ASSUME Init PROVE LimitInv
  OBVIOUS
<1>1. sessions = {} /\ Excess = {} /\ faults = 0
  BY DEF Init, Excess
<1>2. \A m \in Merchants : Counted(m) = {} /\ counter[m] = 0
  BY DEF Init, Counted
<1> QED
  BY <1>1, <1>2, FS_EmptySet DEF LimitInv

\* A set that grows by at most one element, finite and counted.
LEMMA OneMore ==
  ASSUME NEW S, IsFiniteSet(S), NEW x, NEW T, T \subseteq S \cup {x}
  PROVE  /\ IsFiniteSet(T) /\ Cardinality(T) \in Nat
         /\ Cardinality(T) <= Cardinality(S) + 1
<1>0. Cardinality(S) \in Nat
  BY FS_CardinalityType
<1>1. /\ IsFiniteSet(S \cup {x})
      /\ Cardinality(S \cup {x}) = IF x \in S THEN Cardinality(S) ELSE Cardinality(S) + 1
  BY FS_AddElement
<1>2. IsFiniteSet(T) /\ Cardinality(T) <= Cardinality(S \cup {x})
  BY <1>1, FS_Subset
<1>3. Cardinality(T) \in Nat
  BY <1>2, FS_CardinalityType
<1> QED
  BY <1>0, <1>1, <1>2, <1>3

LEMMA NoMore ==
  ASSUME NEW S, IsFiniteSet(S), NEW T, T \subseteq S
  PROVE  /\ IsFiniteSet(T) /\ Cardinality(T) \in Nat /\ Cardinality(S) \in Nat
         /\ Cardinality(T) <= Cardinality(S)
BY FS_Subset, FS_CardinalityType

\* Whom a call has found answered is settled when it begins.
LEMMA AnsweredBeforeKept ==
  ASSUME IInv, NEW c \in Calls, before'[c] = before[c], request'[c] = request[c],
         sessions \subseteq sessions',
         \A d \in sessions' \ sessions : pc[d] = "create",
         \A d \in sessions : request'[d] = request[d]
  PROVE  AnsweredBefore(c)' = AnsweredBefore(c)
<1>1. before[c] \subseteq Created
  BY DEF IInv, PastCheck
<1>2. \A d \in Created : pc[d] = "over"
  BY DEF IInv, Progress, Created
<1>3. before[c] \cap sessions' = before[c] \cap sessions
  BY <1>1, <1>2
<1>4. AnsweredBefore(c)' = {d \in before[c] \cap sessions' : request'[d].merchant = request[c].merchant}
  BY DEF AnsweredBefore
<1> QED
  BY <1>3, <1>4 DEF AnsweredBefore

\* A call that was let through by its limit finds fewer answered than that.
LEMMA LetThrough ==
  ASSUME IInv, LimitInv, NEW c \in Calls, request[c] # None, ~Reached(request[c].merchant),
         Limit # 0
  PROVE  Cardinality(AnsweredBefore(c)) < Limit
<1> DEFINE m == request[c].merchant
<1>1. m \in Merchants
  BY DEF IInv, TypeOK, Requests
<1>2. AnsweredBefore(c) \subseteq Counted(m) /\ Counted(m) \subseteq sessions
  BY DEF IInv, PastCheck, AnsweredBefore, Counted
<1>3. IsFiniteSet(Counted(m))
  BY <1>2, NoMore DEF LimitInv
<1>4. /\ Cardinality(AnsweredBefore(c)) \in Nat /\ Cardinality(Counted(m)) \in Nat
      /\ Cardinality(AnsweredBefore(c)) <= Cardinality(Counted(m))
  BY <1>2, <1>3, NoMore
<1>5. Cardinality(Counted(m)) <= counter[m] /\ counter[m] \in Nat /\ counter[m] < Limit
  BY <1>1, CreationAssumption DEF LimitInv, Reached, IInv, TypeOK
<1> QED
  BY <1>4, <1>5, CreationAssumption

\* A step after which nothing more is counted.
LEMMA CountedKept ==
  ASSUME IInv, LimitInv, UNCHANGED counter,
         NEW x \in Calls, sessions' \subseteq sessions \cup {x},
         \A m \in Merchants : Counted(m)' \subseteq Counted(m)
  PROVE  /\ IsFiniteSet(sessions')
         /\ \A m \in Merchants : Cardinality(Counted(m)') <= counter'[m]
<1>1. IsFiniteSet(sessions')
  BY OneMore DEF LimitInv
<1>2. ASSUME NEW m \in Merchants PROVE Cardinality(Counted(m)') <= counter'[m]
  <2>1. IsFiniteSet(Counted(m))
    BY NoMore DEF LimitInv, Counted
  <2>2. /\ Cardinality(Counted(m)') \in Nat /\ Cardinality(Counted(m)) \in Nat
        /\ Cardinality(Counted(m)') <= Cardinality(Counted(m))
    BY <1>2, <2>1, NoMore
  <2>3. Cardinality(Counted(m)) <= counter[m] /\ counter[m] \in Nat
    BY DEF LimitInv, IInv, TypeOK
  <2> QED
    BY <2>2, <2>3
<1> QED
  BY <1>1, <1>2

\* A step after which nothing more is in excess.
LEMMA ExcessKept ==
  ASSUME IInv, LimitInv, Limit # 0, faults' \in Nat, faults' >= faults, Excess' \subseteq Excess
  PROVE  IsFiniteSet(Excess') /\ Cardinality(Excess') <= faults'
<1>1. IsFiniteSet(Excess) /\ Cardinality(Excess) <= faults /\ faults \in Nat
  BY CreationAssumption DEF LimitInv, IInv, TypeOK
<1>2. /\ IsFiniteSet(Excess') /\ Cardinality(Excess') \in Nat /\ Cardinality(Excess) \in Nat
      /\ Cardinality(Excess') <= Cardinality(Excess)
  BY <1>1, NoMore
<1> QED
  BY <1>1, <1>2

\* The counter is incremented, or a call is let through without its limit, or
\* neither.
LEMMA LimitKept ==
  ASSUME IInv, LimitInv, UNCHANGED counter, NEW x \in Calls,
         sessions' \subseteq sessions \cup {x},
         faults' \in Nat, faults' >= faults,
         \A m \in Merchants : Counted(m)' \subseteq Counted(m),
         Limit # 0 => Excess' \subseteq Excess
  PROVE  LimitInv'
<1>1. IsFiniteSet(sessions') /\ \A m \in Merchants : Cardinality(Counted(m)') <= counter'[m]
  BY CountedKept
<1>2. Limit # 0 => IsFiniteSet(Excess') /\ Cardinality(Excess') <= faults'
  BY ExcessKept
<1> QED
  BY <1>1, <1>2 DEF LimitInv

\* What a step does to the calls it is not about.
LEMMA OthersKept ==
  ASSUME IInv, NEW x \in Calls,
         \A c \in Calls \ {x} : /\ pc'[c] = pc[c] /\ answer'[c] = answer[c]
                                /\ request'[c] = request[c] /\ before'[c] = before[c],
         sessions \subseteq sessions', sessions' \subseteq sessions \cup {x},
         x \in sessions => request'[x] = request[x],
         x \in sessions' \ sessions => pc[x] = "create"
  PROVE  /\ \A m \in Merchants : Counted(m)' \subseteq Counted(m) \cup {x}
         /\ Excess' \subseteq Excess \cup {x}
<1>1. sessions \subseteq Calls /\ sessions' \subseteq Calls
  BY DEF IInv, TypeOK
<1>2. ASSUME NEW m \in Merchants PROVE Counted(m)' \subseteq Counted(m) \cup {x}
  BY <1>1 DEF Counted, Created
<1>3. \A c \in Calls \ {x} : AnsweredBefore(c)' = AnsweredBefore(c)
  BY <1>1, AnsweredBeforeKept
<1>4. Excess' \subseteq Excess \cup {x}
  BY <1>3 DEF Excess
<1> QED
  BY <1>2, <1>4

\* A step that begins a call, or ends or sends it on without touching the
\* counter or a limit.
LEMMA QuietKeepsLimit ==
  ASSUME IInv, LimitInv, NEW x \in Calls,
         \/ \E r \in Asked : Start(x, r)
         \/ Check(x) \/ Reject(x) \/ CreateSession(x) \/ Store(x) \/ Fail(x)
         \/ (CheckLimit(x) \/ CheckLimitFails(x)) /\ Answer(x, "limit", None)
  PROVE  LimitInv'
<1>1. /\ pc \in [Calls -> {"idle", "check", "limit", "create", "count", "store", "over"}]
      /\ request \in [Calls -> Requests \cup {None}] /\ before \in [Calls -> SUBSET Calls]
      /\ answer \in [Calls -> Answers \cup {None}] /\ sessions \subseteq Calls
      /\ Progress(x) /\ faults \in Nat
  BY CreationAssumption DEF IInv, TypeOK
<1>2. /\ \A c \in Calls \ {x} : /\ pc'[c] = pc[c] /\ answer'[c] = answer[c]
                                /\ request'[c] = request[c] /\ before'[c] = before[c]
      /\ sessions \subseteq sessions' /\ sessions' \subseteq sessions \cup {x}
      /\ x \in sessions => request'[x] = request[x]
      /\ x \in sessions' \ sessions => pc[x] = "create"
      /\ UNCHANGED counter /\ faults' \in Nat /\ faults' >= faults
  BY <1>1 DEF Start, Check, Reject, CreateSession, Store, Fail, CheckLimit, CheckLimitFails,
     Goto, Answer, Progress
<1>3. /\ \A m \in Merchants : Counted(m)' \subseteq Counted(m) \cup {x}
      /\ Excess' \subseteq Excess \cup {x}
  BY <1>2, OthersKept
<1>4. pc'[x] # "create"
  BY <1>1 DEF Start, Check, Reject, CreateSession, Store, Fail, CheckLimit, CheckLimitFails,
     Goto, Answer
<1>5. ASSUME x \in sessions' PROVE x \in sessions \/ pc[x] = "create"
  BY <1>2, <1>5
<1>6. ASSUME x \in sessions' /\ (pc'[x] = "store" \/ x \in Created')
      PROVE  Store(x)
  BY <1>1, <1>2, <1>6, NoneAssumption DEF Start, Check, Reject, CreateSession, Store, Fail,
     CheckLimit, CheckLimitFails, Goto, Answer, Progress, Created
<1>7. \A m \in Merchants : Counted(m)' \subseteq Counted(m)
  <2> SUFFICES ASSUME NEW m \in Merchants, x \in Counted(m)' PROVE x \in Counted(m)
    BY <1>3
  <2>1. Store(x) /\ request'[x].merchant = m
    BY <1>6 DEF Counted
  <2> QED
    BY <1>1, <2>1 DEF Store, Progress, Counted
<1>8. Excess' \subseteq Excess
  <2> SUFFICES ASSUME x \in Excess' PROVE x \in Excess
    BY <1>3
  <2>1. x \in sessions' /\ ~(Cardinality(AnsweredBefore(x)') < Limit)
    BY <1>4 DEF Excess
  <2>2. request'[x] = request[x] /\ before'[x] = before[x]
    BY <1>1, <1>5, <2>1 DEF Start, Check, Reject, CreateSession, Store, Fail, CheckLimit,
       CheckLimitFails, Progress
  <2>3. AnsweredBefore(x)' = AnsweredBefore(x)
    BY <1>1, <1>2, <2>2, AnsweredBeforeKept
  <2> QED
    BY <1>5, <2>1, <2>3 DEF Excess
<1> QED
  BY <1>2, <1>7, <1>8, LimitKept

\* A call that is let through by its limit is not in excess, and one whose
\* limit could not be read had a fault.
LEMMA ThroughKeepsLimit ==
  ASSUME IInv, LimitInv, NEW x \in Calls, CheckLimit(x) \/ CheckLimitFails(x),
         Goto(x, "create")
  PROVE  LimitInv'
<1>1. /\ pc \in [Calls -> {"idle", "check", "limit", "create", "count", "store", "over"}]
      /\ pc[x] = "limit" /\ x \notin sessions /\ request[x] # None
      /\ UNCHANGED <<request, answer, before, sessions, counter>>
      /\ \A c \in Calls \ {x} : pc'[c] = pc[c]
      /\ faults \in Nat /\ faults' \in Nat /\ faults' >= faults
  BY CreationAssumption DEF IInv, TypeOK, CheckLimit, CheckLimitFails, Goto, Progress
<1>2. /\ \A m \in Merchants : Counted(m)' \subseteq Counted(m) \cup {x}
      /\ Excess' \subseteq Excess \cup {x}
  BY <1>1, OthersKept
<1>3. \A m \in Merchants : Counted(m)' \subseteq Counted(m)
  BY <1>1, <1>2 DEF Counted
<1>4. CASE CheckLimit(x)
  <2>1. ~Reached(request[x].merchant)
    BY <1>1, <1>4 DEF CheckLimit, Goto, Answer, IInv, TypeOK
  <2>2. AnsweredBefore(x)' = AnsweredBefore(x)
    BY <1>1 DEF AnsweredBefore
  <2>3. Limit # 0 => x \notin Excess'
    BY <1>1, <2>1, <2>2, LetThrough DEF Excess
  <2> QED
    BY <1>1, <1>2, <1>3, <2>3, LimitKept
<1>5. CASE CheckLimitFails(x)
  <2>1. faults' = faults + 1
    BY <1>5 DEF CheckLimitFails
  <2>2. IsFiniteSet(sessions') /\ \A m \in Merchants : Cardinality(Counted(m)') <= counter'[m]
    BY <1>1, <1>3, CountedKept
  <2>3. ASSUME Limit # 0 PROVE IsFiniteSet(Excess') /\ Cardinality(Excess') <= faults'
    <3>1. IsFiniteSet(Excess) /\ Cardinality(Excess) <= faults /\ Cardinality(Excess) \in Nat
      BY <2>3, FS_CardinalityType DEF LimitInv
    <3>2. /\ IsFiniteSet(Excess') /\ Cardinality(Excess') \in Nat
          /\ Cardinality(Excess') <= Cardinality(Excess) + 1
      BY <1>2, <3>1, OneMore
    <3> QED
      BY <1>1, <2>1, <3>1, <3>2
  <2> QED
    BY <2>2, <2>3 DEF LimitInv
<1> QED
  BY <1>4, <1>5

\* A call that is counted increments the counter of its merchant.
LEMMA CountKeepsLimit ==
  ASSUME IInv, LimitInv, NEW x \in Calls, IncrMerchantSessionCount(x)
  PROVE  LimitInv'
<1>1. /\ pc \in [Calls -> {"idle", "check", "limit", "create", "count", "store", "over"}]
      /\ answer \in [Calls -> Answers \cup {None}] /\ counter \in [Merchants -> Nat]
      /\ request[x] # None /\ request[x].merchant \in Merchants
      /\ pc[x] = "count" /\ answer[x] = None /\ x \in sessions
      /\ UNCHANGED <<request, before, sessions, faults>> /\ faults \in Nat
      /\ pc'[x] # "create"
      /\ \A c \in Calls \ {x} : pc'[c] = pc[c] /\ answer'[c] = answer[c]
      /\ counter' = [counter EXCEPT ![request[x].merchant] = @ + 1]
  BY CreationAssumption DEF IInv, TypeOK, Requests, IncrMerchantSessionCount, Goto, Answer, Progress
<1>2. /\ \A m \in Merchants : Counted(m)' \subseteq Counted(m) \cup {x}
      /\ Excess' \subseteq Excess \cup {x}
  BY <1>1, OthersKept
<1>3. ASSUME NEW m \in Merchants PROVE Cardinality(Counted(m)') <= counter'[m]
  <2>1. IsFiniteSet(Counted(m)) /\ Cardinality(Counted(m)) <= counter[m]
    BY NoMore DEF LimitInv, Counted
  <2>2. CASE m = request[x].merchant
    <3>1. /\ Cardinality(Counted(m)') \in Nat /\ Cardinality(Counted(m)) \in Nat
          /\ Cardinality(Counted(m)') <= Cardinality(Counted(m)) + 1
      BY <1>2, <2>1, OneMore, FS_CardinalityType
    <3> QED
      BY <1>1, <2>1, <2>2, <3>1
  <2>3. CASE m # request[x].merchant
    <3>1. Counted(m)' \subseteq Counted(m)
      BY <1>1, <1>2, <2>3 DEF Counted
    <3>2. /\ Cardinality(Counted(m)') \in Nat /\ Cardinality(Counted(m)) \in Nat
          /\ Cardinality(Counted(m)') <= Cardinality(Counted(m))
      BY <2>1, <3>1, NoMore
    <3> QED
      BY <1>1, <2>1, <2>3, <3>2
  <2> QED
    BY <2>2, <2>3
<1>4. Excess' \subseteq Excess
  <2>1. AnsweredBefore(x)' = AnsweredBefore(x)
    BY <1>1 DEF AnsweredBefore
  <2> QED
    BY <1>1, <1>2, <2>1 DEF Excess
<1>5. Limit # 0 => IsFiniteSet(Excess') /\ Cardinality(Excess') <= faults'
  BY <1>1, <1>4, ExcessKept
<1> QED
  BY <1>1, <1>3, <1>5 DEF LimitInv

\* Every step keeps the accounts of the limit.
LEMMA NextLimitInv == IInv /\ LimitInv /\ [Next]_vars => LimitInv'
<1> SUFFICES ASSUME IInv, LimitInv, [Next]_vars PROVE LimitInv'
  OBVIOUS
<1>1. ASSUME NEW c \in Calls,
             \/ \E r \in Asked : Start(c, r)
             \/ Check(c) \/ Reject(c) \/ CreateSession(c) \/ Store(c) \/ Fail(c)
      PROVE  LimitInv'
  BY <1>1, QuietKeepsLimit
<1>2. ASSUME NEW c \in Calls, CheckLimit(c) \/ CheckLimitFails(c)
      PROVE  LimitInv'
  <2>1. Answer(c, "limit", None) \/ Goto(c, "create")
    BY <1>2 DEF CheckLimit, CheckLimitFails
  <2> QED
    BY <1>2, <2>1, QuietKeepsLimit, ThroughKeepsLimit
<1>3. ASSUME NEW c \in Calls, IncrMerchantSessionCount(c)
      PROVE  LimitInv'
  BY <1>3, CountKeepsLimit
<1>4. CASE (\E k \in Keys : Expire(k)) \/ Cleanup \/ UNCHANGED vars
  <2>1. UNCHANGED <<pc, request, answer, sessions, counter, faults, before>>
    BY <1>4 DEF Expire, Cleanup, vars
  <2>2. /\ UNCHANGED <<Excess, sessions, faults>>
        /\ \A m \in Merchants : UNCHANGED <<Counted(m), counter[m]>>
    BY <2>1 DEF Excess, AnsweredBefore, Counted, Created
  <2> QED
    BY <2>2 DEF LimitInv
<1> QED
  BY <1>1, <1>2, <1>3, <1>4 DEF Next

\* createSession with billing.CheckSessionLimit: overlapping calls exceed the
\* plan's limit together, but a call that begins when as many as the limit have
\* been answered creates a session only if its limit could not be read.
THEOREM LimitBindsTheAnswered == Spec => []LimitOnAnswered
<1>1. IInv /\ LimitInv => LimitOnAnswered
  <2> SUFFICES ASSUME IInv, LimitInv, Limit # 0
               PROVE  Cardinality({c \in sessions : Cardinality(AnsweredBefore(c)) >= Limit}) <= faults
    BY DEF LimitOnAnswered
  <2>1. ASSUME NEW c \in sessions PROVE Cardinality(AnsweredBefore(c)) \in Nat
    BY NoMore DEF LimitInv, AnsweredBefore
  <2>2. {c \in sessions : Cardinality(AnsweredBefore(c)) >= Limit} \subseteq Excess
    BY <2>1, CreationAssumption DEF Excess, IInv, TypeOK
  <2>3. IsFiniteSet(Excess) /\ Cardinality(Excess) <= faults /\ faults \in Nat
    BY CreationAssumption DEF LimitInv, IInv, TypeOK
  <2>4. /\ Cardinality({c \in sessions : Cardinality(AnsweredBefore(c)) >= Limit}) \in Nat
        /\ Cardinality({c \in sessions : Cardinality(AnsweredBefore(c)) >= Limit}) <= Cardinality(Excess)
        /\ Cardinality(Excess) \in Nat
    BY <2>2, <2>3, NoMore
  <2> QED
    BY <2>3, <2>4
<1>2. Spec => []LimitInv
  BY InitLimitInv, NextLimitInv, CreationInvariant, PTL DEF Spec
<1> QED
  BY <1>1, <1>2, CreationInvariant, PTL
=============================================================================
