-------------------------- MODULE SmsUpload_proofs --------------------------
(***************************************************************************)
(* Proofs about SmsUpload: the inductive invariant, and from it that the   *)
(* cursor passes no SMS that was not queued and that no SMS is dropped;    *)
(* and how often an SMS is queued and stored.  They hold for any SMS,      *)
(* receivers, scans and bounds.                                            *)
(***************************************************************************)
EXTENDS SmsUpload, FiniteSetTheorems, TLAPS

\* What the invariant says of the ingest side, and of the upload side.
IngestPart == RowsCounted /\ InOrder /\ IngestSound /\ ScanSound /\ CursorSound

UploadPart == RequestSound /\ NothingDropped

LEMMA InvParts == IInv <=> TypeOK /\ IngestPart /\ UploadPart
BY DEF IInv, IngestPart, UploadPart

\* The initial state satisfies the invariant.
LEMMA InitInv == Init => IInv
<1> SUFFICES ASSUME Init PROVE IInv
  OBVIOUS
<1> USE UploadAssumption DEF UploadAssumption, Init, Idle
<1>1. TypeOK
  BY DEF TypeOK
<1>2. IngestPart
  BY DEF IngestPart, RowsCounted, InOrder, Reached, IngestSound, ScanSound, CursorSound
<1>3. UploadPart
  BY DEF UploadPart, RequestSound, NothingDropped
<1> QED
  BY <1>1, <1>2, <1>3, InvParts

-----------------------------------------------------------------------------
(* What the steps of one side leave alone of the other.                    *)

\* The ingest side only asks of a row that its SMS was queued.
LEMMA IngestPartKept ==
  ASSUME IngestPart, UNCHANGED <<ingestVars, inserts>>,
         \A r \in outbox' : \E o \in outbox : o.sms = r.sms
  PROVE  IngestPart'
<1> USE DEF IngestPart, ingestVars
<1>1. RowsCounted'
  BY DEF RowsCounted
<1>2. InOrder' /\ IngestSound' /\ ScanSound' /\ CursorSound'
  BY DEF InOrder, Reached, IngestSound, ScanSound, CursorSound
<1> QED
  BY <1>1, <1>2

\* The upload side does not look at the inbox, the scans and the cursor.
LEMMA UploadPartKept ==
  ASSUME UploadPart, UNCHANGED <<outbox, inserts, sendVars, copies, faults>>,
         work.state = "running" => work'.state = "running"
  PROVE  UploadPart'
<1> USE DEF UploadPart, sendVars
<1>1. RequestSound'
  BY DEF RequestSound
<1>2. NothingDropped'
  BY DEF NothingDropped
<1> QED
  BY <1>1, <1>2

\* enqueueUpload leaves a running upload alone.
LEMMA KeptTyped ==
  ASSUME TypeOK
  PROVE  /\ Kept \in [state : {"none", "enqueued", "running"}, runs : Nat]
         /\ work.state = "running" => Kept = work
BY DEF TypeOK, Kept

\* An ingest, or its next step, is an ingest.
LEMMA IngestsTyped ==
  ASSUME NEW i \in Ingests, NEW st \in {"count", "insert", "schedule"}
  PROVE  /\ [i EXCEPT !.step = st] \in Ingests
         /\ [i EXCEPT !.step = st].sms = i.sms
         /\ [i EXCEPT !.step = st].by = i.by
         /\ [i EXCEPT !.step = st].step = st
BY DEF Ingests

-----------------------------------------------------------------------------
(* Ingest.                                                                 *)

LEMMA ArriveInv == ASSUME IInv, NEW m \in Messages, Arrive(m) PROVE IInv'
<1> USE UploadAssumption, InvParts DEF UploadAssumption, Arrive
<1>1. TypeOK'
  BY DEF TypeOK, sendVars
<1>2. RowsCounted' /\ IngestSound'
  BY DEF IngestPart, RowsCounted, IngestSound
<1>3. InOrder'
  BY DEF IngestPart, InOrder, Reached, TypeOK
<1>4. \A n \in Reached : n < m
  \* The inbox holds no SMS that is newer than m, as it does not hold m.
  <2>1. \A o \in inbox : o \in Nat /\ o # m /\ ~(m < o)
    BY DEF IngestPart, InOrder, TypeOK
  <2> QED
    BY <2>1 DEF Reached
<1>5. ScanSound'
  BY <1>4 DEF IngestPart, ScanSound, Reached, TypeOK
<1>6. CursorSound'
  BY <1>4 DEF IngestPart, InOrder, CursorSound, Reached, TypeOK
<1>7. UploadPart'
  BY UploadPartKept
<1> QED
  BY <1>1, <1>2, <1>3, <1>5, <1>6, <1>7 DEF IInv, IngestPart, UploadPart

LEMMA OnReceiveInv ==
  ASSUME IInv, NEW m \in Messages, NEW by \in Receivers, OnReceive(m, by) PROVE IInv'
<1> USE UploadAssumption, InvParts DEF UploadAssumption, OnReceive
<1>1. TypeOK'
  <2>1. [sms |-> m, at |-> "operator", by |-> by, step |-> "count"] \in Ingests
    BY DEF Ingests, Callers
  <2>2. broadcasts' \subseteq broadcasts
    OBVIOUS
  <2> QED
    BY <2>1, <2>2 DEF TypeOK, sendVars
<1>2. RowsCounted' /\ IngestSound' /\ InOrder' /\ CursorSound'
  BY DEF IngestPart, RowsCounted, IngestSound, InOrder, Reached, CursorSound
<1>3. ScanSound'
  BY DEF IngestPart, ScanSound, Reached
<1>4. UploadPart'
  BY UploadPartKept
<1> QED
  BY <1>1, <1>2, <1>3, <1>4 DEF IInv, IngestPart, UploadPart

LEMMA CountDuplicatesInv ==
  ASSUME IInv, NEW i \in ingests, CountDuplicates(i) PROVE IInv'
<1> USE UploadAssumption, InvParts DEF UploadAssumption, CountDuplicates
<1>1. i \in Ingests
  BY DEF TypeOK
<1> DEFINE j == [i EXCEPT !.step = "insert"]
<1>2. j \in Ingests /\ j.sms = i.sms /\ j.by = i.by /\ j.step = "insert"
  BY <1>1, IngestsTyped
<1>3. \/ Duplicates(i) = {} /\ ingests' = (ingests \ {i}) \cup {j}
      \/ inserts[i.sms] > 0 /\ ingests' = ingests \ {i}
  BY DEF Duplicates, IngestPart, RowsCounted
<1> HIDE DEF j
<1>4. TypeOK'
  BY <1>2, <1>3 DEF TypeOK, sendVars
<1>5. RowsCounted' /\ InOrder' /\ CursorSound'
  BY DEF IngestPart, RowsCounted, InOrder, Reached, CursorSound
<1>6. IngestSound'
  BY <1>2, <1>3 DEF IngestPart, IngestSound
<1>7. ScanSound'
  <2> SUFFICES ASSUME NEW w \in Scans, scan[w] # None, NEW m \in inbox,
                      m <= scan[w].next, inserts[m] = 0, m \notin scan[w].todo
               PROVE  \E k \in ingests' : k.sms = m /\ k.by = w
    BY DEF IngestPart, ScanSound, Reached, TypeOK
  <2>1. PICK k \in ingests : k.sms = m /\ k.by = w
    BY DEF IngestPart, ScanSound, TypeOK
  <2> QED
    BY <1>2, <1>3, <2>1
<1>8. UploadPart'
  BY UploadPartKept
<1> QED
  BY <1>4, <1>5, <1>6, <1>7, <1>8 DEF IInv, IngestPart, UploadPart

LEMMA InsertInv == ASSUME IInv, NEW i \in ingests, Insert(i) PROVE IInv'
<1> USE UploadAssumption, InvParts DEF UploadAssumption, Insert
<1> DEFINE j == [i EXCEPT !.step = "schedule"]
           row == [sms |-> i.sms, nr |-> inserts[i.sms], at |-> i.at,
                   by |-> i.by, cool |-> FALSE]
<1>1. i \in Ingests /\ i.sms \in Messages /\ inserts \in [Messages -> Nat]
  BY DEF TypeOK, Ingests
<1>2. j \in Ingests /\ j.sms = i.sms /\ j.by = i.by
  BY <1>1, IngestsTyped
<1>3. row \in Rows /\ row.sms = i.sms
  BY <1>1 DEF Rows, Ingests
<1>4. ingests' = (ingests \ {i}) \cup {j} /\ outbox' = outbox \cup {row}
  OBVIOUS
<1> HIDE DEF j, row
<1>5. inserts' \in [Messages -> Nat] /\ inserts'[i.sms] > 0
  BY <1>1
<1>6. \A m \in Messages : inserts[m] > 0 => inserts'[m] > 0
  BY <1>1
<1>7. \A m \in Messages : m # i.sms => inserts'[m] = inserts[m]
  BY <1>1
<1>8. queued' \in [Messages -> [Callers -> Nat]]
  BY <1>1 DEF TypeOK, Ingests
<1>9. TypeOK'
  BY <1>2, <1>3, <1>4, <1>5, <1>8 DEF TypeOK, sendVars
<1>10. RowsCounted'
  BY <1>3, <1>4, <1>5, <1>6 DEF IngestPart, RowsCounted, TypeOK, Rows
<1>11. IngestSound'
  BY <1>2, <1>4, <1>5, <1>6 DEF IngestPart, IngestSound, TypeOK, Ingests
<1>12. InOrder' /\ CursorSound'
  BY <1>6 DEF IngestPart, InOrder, Reached, CursorSound, TypeOK
<1>13. ScanSound'
  BY <1>2, <1>4, <1>5, <1>6 DEF IngestPart, ScanSound, Reached, TypeOK
<1>14. NothingDropped'
  BY <1>3, <1>4, <1>7 DEF UploadPart, NothingDropped
<1>15. RequestSound'
  BY DEF UploadPart, RequestSound, sendVars
<1> QED
  BY <1>9, <1>10, <1>11, <1>12, <1>13, <1>14, <1>15 DEF IInv, IngestPart, UploadPart

LEMMA EnqueueUploadInv == ASSUME IInv, NEW i \in ingests, EnqueueUpload(i) PROVE IInv'
<1> USE UploadAssumption, InvParts DEF UploadAssumption, EnqueueUpload
<1>1. TypeOK'
  BY KeptTyped DEF TypeOK, sendVars
<1>2. RowsCounted' /\ IngestSound' /\ InOrder' /\ CursorSound'
  BY DEF IngestPart, RowsCounted, IngestSound, InOrder, Reached, CursorSound
<1>3. ScanSound'
  \* The ingest that ends has queued its SMS.
  BY DEF IngestPart, IngestSound, ScanSound, Reached
<1>4. UploadPart'
  BY KeptTyped, UploadPartKept
<1> QED
  BY <1>1, <1>2, <1>3, <1>4 DEF IInv, IngestPart, UploadPart

LEMMA StartScanInv == ASSUME IInv, NEW w \in Scans, StartScan(w) PROVE IInv'
<1> USE UploadAssumption, InvParts DEF UploadAssumption, StartScan
<1>1. PICK newest \in Unscanned \cup {cursor} :
        /\ \A m \in Unscanned : m <= newest
        /\ scan' = [scan EXCEPT ![w] = [todo |-> Unscanned, next |-> newest]]
  OBVIOUS
<1>2. Unscanned \subseteq inbox /\ Unscanned \subseteq Messages
  BY DEF Unscanned, TypeOK
<1>3. newest \in Reached /\ newest \in Nat
  BY <1>1, <1>2 DEF IngestPart, InOrder, Reached, TypeOK
<1>4. TypeOK'
  BY <1>1, <1>2, <1>3 DEF TypeOK, sendVars
<1>5. RowsCounted' /\ IngestSound' /\ InOrder' /\ CursorSound'
  BY DEF IngestPart, RowsCounted, IngestSound, InOrder, Reached, CursorSound
<1>6. \A m \in inbox : m \in Unscanned \/ inserts[m] > 0
  <2>1. CursorSound /\ \A m \in inbox : m \in Nat /\ cursor \in Nat
    BY DEF IngestPart, TypeOK
  <2> QED
    BY <2>1 DEF Unscanned, CursorSound
<1>7. /\ scan'[w].todo = Unscanned /\ scan'[w].next = newest
      /\ \A v \in Scans : v # w => scan'[v] = scan[v]
  BY <1>1 DEF TypeOK
<1>8. ScanSound'
  <2>1. ScanSound
    BY DEF IngestPart
  <2>2. UNCHANGED <<inbox, inserts, ingests>>
    OBVIOUS
  <2>3. ASSUME NEW v \in Scans, scan'[v] # None
        PROVE  /\ scan'[v].next \in Reached
               /\ scan'[v].todo \subseteq inbox
               /\ \A m \in inbox : m <= scan'[v].next =>
                    \/ inserts[m] > 0
                    \/ m \in scan'[v].todo
                    \/ \E i \in ingests : i.sms = m /\ i.by = v
    <3>1. CASE v = w
      BY ONLY <1>2, <1>3, <1>6, <1>7, <3>1
    <3>2. CASE v # w
      BY ONLY <1>7, <2>1, <2>3, <3>2 DEF ScanSound
    <3> QED
      BY <3>1, <3>2
  <2> QED
    BY ONLY <2>2, <2>3 DEF ScanSound, Reached
<1>9. UploadPart'
  BY UploadPartKept
<1> QED
  BY <1>4, <1>5, <1>8, <1>9 DEF IInv, IngestPart, UploadPart

LEMMA ScanRowInv == ASSUME IInv, NEW w \in Scans, ScanRow(w) PROVE IInv'
<1> USE UploadAssumption, InvParts DEF UploadAssumption, ScanRow
<1> DEFINE new(m) == [sms |-> m, at |-> "inbox", by |-> w, step |-> "count"]
<1>1. PICK m \in scan[w].todo :
        /\ scan' = [scan EXCEPT ![w].todo = @ \ {m}]
        /\ ingests' = ingests \cup {new(m)}
  OBVIOUS
<1>2. scan[w] \in [todo : SUBSET Messages, next : Nat]
  BY DEF TypeOK
<1>3. m \in Messages /\ new(m) \in Ingests
  BY <1>2 DEF Ingests, Callers
<1>4. new(m).sms = m /\ new(m).by = w /\ new(m).step = "count"
  OBVIOUS
<1> HIDE DEF new
<1>5. /\ scan'[w] \in [todo : SUBSET Messages, next : Nat]
      /\ scan'[w].todo = scan[w].todo \ {m} /\ scan'[w].next = scan[w].next
      /\ \A v \in Scans : v # w => scan'[v] = scan[v]
  BY <1>1, <1>2 DEF TypeOK
<1>6. TypeOK'
  BY <1>1, <1>2, <1>3 DEF TypeOK, sendVars
<1>7. RowsCounted' /\ InOrder' /\ CursorSound'
  BY DEF IngestPart, RowsCounted, InOrder, Reached, CursorSound
<1>8. IngestSound'
  BY <1>1, <1>4 DEF IngestPart, IngestSound
<1>9. ScanSound'
  BY <1>1, <1>4, <1>5 DEF IngestPart, ScanSound, Reached
<1>10. UploadPart'
  BY UploadPartKept
<1> QED
  BY <1>6, <1>7, <1>8, <1>9, <1>10 DEF IInv, IngestPart, UploadPart

LEMMA SetInboxScanCursorInv ==
  ASSUME IInv, NEW w \in Scans, SetInboxScanCursor(w) PROVE IInv'
<1> USE UploadAssumption, InvParts DEF UploadAssumption, SetInboxScanCursor, NextCursor
<1>1. scan[w] \in [todo : SUBSET Messages, next : Nat] /\ scan[w].next \in Reached
  BY DEF IngestPart, ScanSound, TypeOK
<1>2. TypeOK'
  BY <1>1 DEF TypeOK, sendVars
<1>3. RowsCounted' /\ IngestSound'
  BY DEF IngestPart, RowsCounted, IngestSound
<1>4. InOrder'
  BY <1>1 DEF IngestPart, InOrder, Reached
<1>5. CursorSound'
  \* Every row that was read has been ingested, to the end.
  BY DEF IngestPart, ScanSound, CursorSound, Ingesting
<1>6. \A v \in Scans : scan'[v] # None => scan'[v] = scan[v]
  BY DEF TypeOK
<1>7. ScanSound'
  BY <1>6 DEF IngestPart, ScanSound, Reached
<1>8. UploadPart'
  BY UploadPartKept
<1> QED
  BY <1>2, <1>3, <1>4, <1>5, <1>7, <1>8 DEF IInv, IngestPart, UploadPart

-----------------------------------------------------------------------------
(* Upload.                                                                 *)

LEMMA HeartbeatTickInv == ASSUME IInv, HeartbeatTick PROVE IInv'
<1> USE UploadAssumption, InvParts DEF UploadAssumption, HeartbeatTick
<1>1. TypeOK'
  BY KeptTyped DEF TypeOK, ingestVars, sendVars
<1>2. IngestPart'
  BY IngestPartKept
<1>3. UploadPart'
  BY KeptTyped, UploadPartKept
<1> QED
  BY <1>1, <1>2, <1>3 DEF IInv, IngestPart, UploadPart

LEMMA UploadNothingInv == ASSUME IInv, UploadNothing PROVE IInv'
<1> USE UploadAssumption, InvParts DEF UploadAssumption, UploadNothing, Idle
<1>1. TypeOK'
  BY DEF TypeOK, ingestVars, sendVars
<1>2. IngestPart'
  BY IngestPartKept
<1>3. UploadPart'
  BY UploadPartKept
<1> QED
  BY <1>1, <1>2, <1>3 DEF IInv, IngestPart, UploadPart

\* A row keeps its SMS when its cooldown begins or ends.
LEMMA RowsTyped ==
  ASSUME NEW r \in Rows, NEW cool \in BOOLEAN
  PROVE  [r EXCEPT !.cool = cool] \in Rows /\ [r EXCEPT !.cool = cool].sms = r.sms
BY DEF Rows

\* Rows that change, but stay, keep both sides' invariants.
LEMMA RowsKept ==
  ASSUME IngestPart, UploadPart, UNCHANGED <<ingestVars, inserts, sendVars, copies, faults>>,
         \A r \in outbox' : \E o \in outbox : o.sms = r.sms,
         \A r \in outbox : \E o \in outbox' : o.sms = r.sms,
         work.state = "running" => work'.state = "running"
  PROVE  IngestPart' /\ UploadPart'
<1>1. IngestPart'
  BY IngestPartKept
<1>2. RequestSound'
  BY DEF UploadPart, RequestSound, sendVars
<1>3. NothingDropped'
  BY DEF UploadPart, NothingDropped
<1> QED
  BY <1>1, <1>2, <1>3 DEF UploadPart

LEMMA UploadGiveUpInv == ASSUME IInv, UploadGiveUp PROVE IInv'
<1> USE UploadAssumption, InvParts DEF UploadAssumption, UploadGiveUp, Idle
<1>1. PICK B \in SUBSET Pending : outbox' = (outbox \ B) \cup {[r EXCEPT !.cool = TRUE] : r \in B}
  OBVIOUS
<1>2. B \subseteq outbox /\ outbox \subseteq Rows
  BY DEF Pending, TypeOK
<1>3. \A r \in B : [r EXCEPT !.cool = TRUE] \in Rows /\ [r EXCEPT !.cool = TRUE].sms = r.sms
  BY <1>2, RowsTyped
<1>4. /\ outbox' \subseteq Rows
      /\ \A r \in outbox' : \E o \in outbox : o.sms = r.sms
      /\ \A r \in outbox : \E o \in outbox' : o.sms = r.sms
  BY ONLY <1>1, <1>2, <1>3
<1>5. TypeOK'
  BY <1>4 DEF TypeOK, ingestVars, sendVars
<1>6. IngestPart' /\ UploadPart'
  BY <1>4, RowsKept
<1> QED
  BY <1>5, <1>6 DEF IInv, IngestPart, UploadPart

LEMMA CooldownOverInv == ASSUME IInv, CooldownOver PROVE IInv'
<1> USE UploadAssumption, InvParts DEF UploadAssumption, CooldownOver
<1>1. PICK r \in outbox : outbox' = (outbox \ {r}) \cup {[r EXCEPT !.cool = FALSE]}
  OBVIOUS
<1>2. outbox \subseteq Rows
  BY DEF TypeOK
<1>3. [r EXCEPT !.cool = FALSE] \in Rows /\ [r EXCEPT !.cool = FALSE].sms = r.sms
  BY <1>2, RowsTyped
<1>4. /\ outbox' \subseteq Rows
      /\ \A s \in outbox' : \E o \in outbox : o.sms = s.sms
      /\ \A s \in outbox : \E o \in outbox' : o.sms = s.sms
  BY ONLY <1>1, <1>2, <1>3
<1>5. TypeOK'
  BY <1>4 DEF TypeOK, ingestVars, sendVars
<1>6. IngestPart' /\ UploadPart'
  BY <1>4, RowsKept
<1> QED
  BY <1>5, <1>6 DEF IInv, IngestPart, UploadPart

LEMMA UploadSendInv == ASSUME IInv, UploadSend PROVE IInv'
<1> USE UploadAssumption, InvParts DEF UploadAssumption, UploadSend
<1> DEFINE new(B) == [id |-> faults, todo |-> B]
<1>1. PICK B \in SUBSET Pending : sending' = B /\ serving' = serving \cup {new(B)}
  OBVIOUS
<1>2. B \subseteq Rows /\ faults \in Nat
  BY DEF Pending, TypeOK
<1>3. new(B) \in [id : Nat, todo : SUBSET Rows] /\ new(B).id = faults /\ new(B).todo = B
  BY <1>2
<1> HIDE DEF new
<1>4. work' \in [state : {"none", "enqueued", "running"}, runs : Nat] /\ work'.state = "running"
  BY DEF TypeOK
<1>5. TypeOK'
  BY <1>1, <1>2, <1>3, <1>4 DEF TypeOK, ingestVars
<1>6. IngestPart'
  BY IngestPartKept
<1>7. \A q \in serving : q.id # faults
  \* No request is waited for, and the newest one would be.
  BY <1>2 DEF UploadPart, RequestSound
<1>8. RequestSound'
  BY <1>1, <1>2, <1>3, <1>4, <1>7 DEF UploadPart, RequestSound
<1>9. NothingDropped'
  BY DEF UploadPart, NothingDropped
<1> QED
  BY <1>5, <1>6, <1>8, <1>9 DEF IInv, IngestPart, UploadPart

LEMMA InsertSMSMessageInv ==
  ASSUME IInv, NEW q \in serving, InsertSMSMessage(q) PROVE IInv'
<1> USE UploadAssumption, InvParts DEF UploadAssumption, InsertSMSMessage
<1> DEFINE rest(r) == [q EXCEPT !.todo = @ \ {r}]
<1>1. PICK r \in q.todo : /\ copies' = [copies EXCEPT ![r.sms] = @ + 1]
                        /\ serving' = (serving \ {q}) \cup {rest(r)}
  OBVIOUS
<1>2. q \in [id : Nat, todo : SUBSET Rows] /\ r \in Rows /\ copies \in [Messages -> Nat]
  BY <1>1 DEF TypeOK
<1>3. /\ rest(r) \in [id : Nat, todo : SUBSET Rows]
      /\ rest(r).id = q.id /\ rest(r).todo = q.todo \ {r}
  BY <1>2
<1> HIDE DEF rest
<1>4. /\ copies' \in [Messages -> Nat] /\ copies'[r.sms] > 0
      /\ \A m \in Messages : copies[m] > 0 => copies'[m] > 0
  BY <1>1, <1>2 DEF Rows
<1>5. TypeOK'
  BY <1>1, <1>3, <1>4 DEF TypeOK, ingestVars
<1>6. IngestPart'
  BY IngestPartKept
<1>7. \A s \in sending : s.sms \in Messages
  BY DEF TypeOK, Rows
<1>8. RequestSound'
  BY <1>1, <1>3, <1>4, <1>7 DEF UploadPart, RequestSound
<1>9. NothingDropped'
  BY <1>4 DEF UploadPart, NothingDropped
<1> QED
  BY <1>5, <1>6, <1>8, <1>9 DEF IInv, IngestPart, UploadPart

LEMMA DroppedInv == ASSUME IInv, NEW q \in serving, Dropped(q) PROVE IInv'
<1> USE UploadAssumption, InvParts DEF UploadAssumption, Dropped
<1>1. TypeOK'
  BY DEF TypeOK, ingestVars
<1>2. IngestPart'
  BY IngestPartKept
<1>3. RequestSound' /\ NothingDropped'
  BY DEF UploadPart, RequestSound, NothingDropped
<1> QED
  BY <1>1, <1>2, <1>3 DEF IInv, IngestPart, UploadPart

LEMMA AckedInv == ASSUME IInv, NEW q \in serving, Acked(q) PROVE IInv'
<1> USE UploadAssumption, InvParts DEF UploadAssumption, Acked, Idle
<1>1. TypeOK'
  BY DEF TypeOK, ingestVars
<1>2. IngestPart'
  BY IngestPartKept
<1>3. \A o \in serving \ {q} : o.id # faults
  \* The request of that number was waited for, and so is q.
  BY DEF UploadPart, RequestSound
<1>4. RequestSound'
  BY <1>3 DEF UploadPart, RequestSound, TypeOK
<1>5. \A s \in sending : copies[s.sms] > 0
  BY DEF UploadPart, RequestSound
<1>6. NothingDropped'
  \* The rows that are deleted were stored.
  BY <1>5 DEF UploadPart, NothingDropped
<1> QED
  BY <1>1, <1>2, <1>4, <1>6 DEF IInv, IngestPart, UploadPart

\* A fault ends the wait for the request, which is no longer the newest.
LEMMA FaultEndsRequest ==
  ASSUME TypeOK, RequestSound, faults' = faults + 1, waiting' = None, serving' \subseteq serving
  PROVE  RequestSound'
<1>1. \A q \in serving : q.id \in Nat /\ q.id < faults'
  BY UploadAssumption DEF UploadAssumption, TypeOK, RequestSound
<1>2. None \notin Nat
  BY UploadAssumption DEF UploadAssumption
<1>3. faults' \in Nat
  BY UploadAssumption DEF UploadAssumption, TypeOK
<1> QED
  BY <1>1, <1>2, <1>3 DEF RequestSound

LEMMA FailedInv == ASSUME IInv, NEW q \in serving, Failed(q) PROVE IInv'
<1> USE UploadAssumption, InvParts DEF UploadAssumption, Failed, Idle, Retried
<1>1. TypeOK'
  <2>1. work' \in [state : {"none", "enqueued", "running"}, runs : Nat]
    BY DEF TypeOK
  <2>2. signing' \in {"allowed", "paused"}
    BY DEF TypeOK
  <2> QED
    BY <2>1, <2>2 DEF TypeOK, ingestVars
<1>2. IngestPart'
  BY IngestPartKept
<1>3. RequestSound'
  BY FaultEndsRequest DEF UploadPart
<1>4. NothingDropped'
  BY DEF UploadPart, NothingDropped
<1> QED
  BY <1>1, <1>2, <1>3, <1>4 DEF IInv, IngestPart, UploadPart

LEMMA UnansweredInv == ASSUME IInv, NEW q \in serving, Unanswered(q) PROVE IInv'
<1> USE UploadAssumption, InvParts DEF UploadAssumption, Unanswered, Retried
<1>1. TypeOK'
  <2>1. work' \in [state : {"none", "enqueued", "running"}, runs : Nat]
    BY DEF TypeOK
  <2> QED
    BY <2>1 DEF TypeOK, ingestVars
<1>2. IngestPart'
  BY IngestPartKept
<1>3. RequestSound'
  BY FaultEndsRequest DEF UploadPart
<1>4. NothingDropped'
  BY DEF UploadPart, NothingDropped
<1> QED
  BY <1>1, <1>2, <1>3, <1>4 DEF IInv, IngestPart, UploadPart

-----------------------------------------------------------------------------
(* Time and process.                                                       *)

LEMMA PauseOverInv == ASSUME IInv, PauseOver PROVE IInv'
<1> USE UploadAssumption, InvParts DEF UploadAssumption, PauseOver
<1>1. TypeOK'
  BY DEF TypeOK, ingestVars, sendVars
<1>2. IngestPart' /\ UploadPart'
  BY IngestPartKept, UploadPartKept
<1> QED
  BY <1>1, <1>2 DEF IInv, IngestPart, UploadPart

LEMMA HeartbeatRefusedInv == ASSUME IInv, HeartbeatRefused PROVE IInv'
<1> USE UploadAssumption, InvParts DEF UploadAssumption, HeartbeatRefused
<1>1. TypeOK'
  BY DEF TypeOK, ingestVars, sendVars
<1>2. IngestPart'
  BY IngestPartKept
<1>3. RequestSound'
  BY DEF UploadPart, RequestSound, TypeOK, sendVars
<1>4. NothingDropped'
  BY DEF UploadPart, NothingDropped
<1> QED
  BY <1>1, <1>2, <1>3, <1>4 DEF IInv, IngestPart, UploadPart

LEMMA KillInv == ASSUME IInv, Kill PROVE IInv'
<1> USE UploadAssumption, InvParts DEF UploadAssumption, Kill, Retried
<1>1. TypeOK'
  <2>1. work' \in [state : {"none", "enqueued", "running"}, runs : Nat]
    BY DEF TypeOK
  <2> QED
    BY <2>1 DEF TypeOK
<1>2. RowsCounted' /\ InOrder' /\ IngestSound' /\ CursorSound'
  BY DEF IngestPart, RowsCounted, InOrder, Reached, IngestSound, CursorSound
<1>3. ScanSound'
  BY DEF ScanSound
<1>4. RequestSound'
  BY FaultEndsRequest DEF UploadPart
<1>5. NothingDropped'
  BY DEF UploadPart, NothingDropped
<1> QED
  BY <1>1, <1>2, <1>3, <1>4, <1>5 DEF IInv

LEMMA ScanStoppedInv == ASSUME IInv, NEW v \in Scans, ScanStopped(v) PROVE IInv'
<1> USE UploadAssumption, InvParts DEF UploadAssumption, ScanStopped
<1>1. TypeOK'
  BY DEF TypeOK, sendVars
<1>2. RowsCounted' /\ InOrder' /\ IngestSound' /\ CursorSound'
  BY DEF IngestPart, RowsCounted, InOrder, Reached, IngestSound, CursorSound
<1>3. /\ scan'[v] = None
      /\ \A w \in Scans : w # v => scan'[w] = scan[w]
      /\ \A i \in ingests : i.by # v => i \in ingests'
  BY DEF TypeOK
<1>4. ScanSound'
  BY <1>3 DEF IngestPart, ScanSound, Reached
<1>5. RequestSound'
  BY DEF UploadPart, RequestSound, TypeOK, sendVars
<1>6. NothingDropped'
  BY DEF UploadPart, NothingDropped
<1> QED
  BY <1>1, <1>2, <1>4, <1>5, <1>6 DEF IInv, IngestPart, UploadPart

-----------------------------------------------------------------------------
(* The theorems.                                                           *)

LEMMA NextInv == IInv /\ [Next]_vars => IInv'
<1> SUFFICES ASSUME IInv, [Next]_vars PROVE IInv'
  OBVIOUS
<1>1. CASE \E m \in Messages : Arrive(m)
  BY <1>1, ArriveInv
<1>2. CASE \E m \in Messages, by \in Receivers : OnReceive(m, by)
  BY <1>2, OnReceiveInv
<1>3. CASE IngestStep
  BY <1>3, CountDuplicatesInv, InsertInv, EnqueueUploadInv DEF IngestStep
<1>4. CASE \E w \in Scans : ScanStep(w)
  BY <1>4, StartScanInv, ScanRowInv, SetInboxScanCursorInv DEF ScanStep
<1>5. CASE HeartbeatTick
  BY <1>5, HeartbeatTickInv
<1>6. CASE UploadStep
  BY <1>6, UploadNothingInv, UploadGiveUpInv, UploadSendInv DEF UploadStep
<1>7. CASE ServeStep
  BY <1>7, InsertSMSMessageInv, AckedInv DEF ServeStep
<1>8. CASE \E q \in serving : Dropped(q) \/ Failed(q) \/ Unanswered(q)
  BY <1>8, DroppedInv, FailedInv, UnansweredInv
<1>9. CASE CooldownOver
  BY <1>9, CooldownOverInv
<1>10. CASE PauseOver
  BY <1>10, PauseOverInv
<1>11. CASE HeartbeatRefused
  BY <1>11, HeartbeatRefusedInv
<1>12. CASE Kill
  BY <1>12, KillInv
<1>13. CASE \E w \in Scans : ScanStopped(w)
  BY <1>13, ScanStoppedInv
<1>14. CASE UNCHANGED vars
  <2>1. UNCHANGED <<inbox, broadcasts, ingests, scan, cursor, outbox, inserts, queued, work,
                    sending, waiting, serving, signing, copies, faults>>
    BY <1>14 DEF vars, ingestVars, sendVars
  <2>2. TypeOK'
    BY <2>1 DEF IInv, TypeOK
  <2>3. IngestPart' /\ UploadPart'
    BY <2>1, InvParts, IngestPartKept, UploadPartKept DEF ingestVars, sendVars
  <2> QED
    BY <2>2, <2>3 DEF IInv, IngestPart, UploadPart
<1> QED
  BY <1>1, <1>2, <1>3, <1>4, <1>5, <1>6, <1>7, <1>8, <1>9, <1>10, <1>11, <1>12,
     <1>13, <1>14 DEF Next

\* In every reachable state the queues, the scans and the requests agree with
\* each other and with the inbox.
THEOREM UploadInvariant == Spec => []IInv
<1>1. Init => IInv
  BY InitInv
<1>2. IInv /\ [Next]_vars => IInv'
  BY NextInv
<1> QED
  BY <1>1, <1>2, PTL DEF Spec

\* InboxSyncWorker: however scans overlap and are killed, the cursor has passed
\* an SMS only if the SMS was queued.
THEOREM CursorPassesNothing == Spec => []CursorSound
<1>1. IInv => CursorSound
  BY DEF IInv
<1> QED
  BY <1>1, UploadInvariant, PTL

\* SmsUploadWorker and SMSHandler: an SMS leaves the outbox only when the
\* backend has stored it.
THEOREM OutboxDropsNothing == Spec => []NothingDropped
<1>1. IInv => NothingDropped
  BY DEF IInv
<1> QED
  BY <1>1, UploadInvariant, PTL

-----------------------------------------------------------------------------
(* How often an SMS is stored.                                             *)

\* The numbers of the rows of an SMS in a set of rows.
Nrs(R, m) == {n \in Nat : \E r \in R : r.sms = m /\ r.nr = n}

\* What the backend has yet to store for an SMS, by request and row, and the
\* rows of it that have not been sent since the last fault.
Left(m) == {p \in Nat \X Nat : \E q \in serving : \E r \in q.todo : r.sms = m /\ p = <<q.id, r.nr>>}

Unsent(m) == Nrs(outbox, m) \ Nrs(sending, m)

\* A row is known by its SMS and its number.
Numbered(R) ==
  /\ \A r \in R : r.nr < inserts[r.sms]
  /\ \A r, o \in R : (r.sms = o.sms /\ r.nr = o.nr) => r = o

\* Each row is stored once by the request that is answered, and once for each
\* fault.
Accounted(m) ==
  /\ IsFiniteSet(Left(m))
  /\ copies[m] + Cardinality(Left(m)) + Cardinality(Unsent(m)) <= inserts[m] * (1 + faults)

CopyInv ==
  /\ Numbered(outbox)
  /\ \A q \in serving : Numbered(q.todo)
  /\ sending # {} => waiting # None
  /\ \A m \in Messages : Accounted(m)

\* The rows of an SMS are no more than were inserted.
LEMMA RowsFinite ==
  ASSUME NEW n \in Nat, NEW S, S \subseteq 0 .. n - 1
  PROVE  IsFiniteSet(S) /\ Cardinality(S) \in Nat /\ Cardinality(S) <= n
<1>1. IsFiniteSet(0 .. n - 1) /\ Cardinality(0 .. n - 1) = n
  BY FS_Interval
<1>2. IsFiniteSet(S) /\ Cardinality(S) <= n
  BY <1>1, FS_Subset
<1> QED
  BY <1>2, FS_CardinalityType

LEMMA NoMore ==
  ASSUME NEW S, IsFiniteSet(S), NEW T, T \subseteq S
  PROVE  /\ IsFiniteSet(T) /\ Cardinality(T) \in Nat /\ Cardinality(S) \in Nat
         /\ Cardinality(T) <= Cardinality(S)
BY FS_Subset, FS_CardinalityType

\* The numbers an SMS's account is made of.
LEMMA AccountTyped ==
  ASSUME TypeOK, CopyInv, NEW m \in Messages
  PROVE  /\ copies[m] \in Nat /\ inserts[m] \in Nat /\ faults \in Nat
         /\ inserts[m] * (1 + faults) \in Nat
         /\ Nrs(outbox, m) \subseteq 0 .. inserts[m] - 1
         /\ IsFiniteSet(Nrs(outbox, m)) /\ IsFiniteSet(Unsent(m))
         /\ Cardinality(Nrs(outbox, m)) \in Nat /\ Cardinality(Nrs(outbox, m)) <= inserts[m]
         /\ Cardinality(Unsent(m)) \in Nat
         /\ IsFiniteSet(Left(m)) /\ Cardinality(Left(m)) \in Nat
         /\ copies[m] + Cardinality(Left(m)) + Cardinality(Unsent(m)) <= inserts[m] * (1 + faults)
<1>1. copies[m] \in Nat /\ inserts[m] \in Nat /\ faults \in Nat
  BY UploadAssumption DEF UploadAssumption, TypeOK
<1>2. inserts[m] * (1 + faults) \in Nat
  BY <1>1
<1>3. Nrs(outbox, m) \subseteq 0 .. inserts[m] - 1 /\ Unsent(m) \subseteq 0 .. inserts[m] - 1
  <2>1. \A n \in Nrs(outbox, m) : n \in Nat /\ n < inserts[m]
    BY DEF CopyInv, Numbered, Nrs
  <2> QED
    BY <1>1, <2>1 DEF Unsent
<1>4. /\ IsFiniteSet(Nrs(outbox, m)) /\ IsFiniteSet(Unsent(m))
      /\ Cardinality(Nrs(outbox, m)) \in Nat /\ Cardinality(Nrs(outbox, m)) <= inserts[m]
      /\ Cardinality(Unsent(m)) \in Nat
  BY <1>1, <1>3, RowsFinite
<1>5. /\ IsFiniteSet(Left(m)) /\ Cardinality(Left(m)) \in Nat
      /\ copies[m] + Cardinality(Left(m)) + Cardinality(Unsent(m)) <= inserts[m] * (1 + faults)
  BY FS_CardinalityType DEF CopyInv, Accounted
<1> QED
  BY <1>1, <1>2, <1>3, <1>4, <1>5

LEMMA InitCopyInv == Init => CopyInv
<1> SUFFICES ASSUME Init PROVE CopyInv
  OBVIOUS
<1>1. \A m \in Messages : Left(m) = {} /\ Unsent(m) = {} /\ copies[m] = 0 /\ inserts[m] = 0
  BY DEF Init, Left, Unsent, Nrs
<1>2. \A m \in Messages : Accounted(m)
  BY <1>1, FS_EmptySet DEF Init, Accounted
<1> QED
  BY <1>2 DEF Init, CopyInv, Numbered

\* Fewer rows to store and to send, and no more faults or copies.
LEMMA AccountShrinks ==
  ASSUME TypeOK, CopyInv, NEW m \in Messages, UNCHANGED <<inserts, copies>>,
         faults' = faults \/ faults' = faults + 1,
         Left(m)' \subseteq Left(m), Unsent(m)' \subseteq Unsent(m)
  PROVE  Accounted(m)'
<1>1. /\ IsFiniteSet(Left(m)') /\ Cardinality(Left(m)') \in Nat
      /\ Cardinality(Left(m)') <= Cardinality(Left(m))
      /\ Cardinality(Unsent(m)') \in Nat /\ Cardinality(Unsent(m)') <= Cardinality(Unsent(m))
  BY AccountTyped, NoMore
<1>2. inserts[m] * (1 + faults) <= inserts[m] * (1 + faults')
  <2>1. inserts[m] * (1 + (faults + 1)) = inserts[m] * (1 + faults) + inserts[m]
    BY AccountTyped
  <2> QED
    BY <2>1, AccountTyped
<1>3. inserts[m] * (1 + faults') \in Nat
  BY AccountTyped
<1> QED
  BY <1>1, <1>2, <1>3, AccountTyped DEF Accounted

\* After a fault each row may be sent again.
LEMMA AccountRestarts ==
  ASSUME TypeOK, CopyInv, NEW m \in Messages, UNCHANGED <<inserts, outbox, copies>>,
         faults' = faults + 1, sending' = {}, Left(m)' \subseteq Left(m)
  PROVE  Accounted(m)'
<1>1. /\ IsFiniteSet(Left(m)') /\ Cardinality(Left(m)') \in Nat
      /\ Cardinality(Left(m)') <= Cardinality(Left(m))
  BY AccountTyped, NoMore
<1>2. Unsent(m)' = Nrs(outbox, m)
  BY DEF Unsent, Nrs
<1>3. Cardinality(Unsent(m)') \in Nat /\ Cardinality(Unsent(m)') <= inserts[m]
  BY <1>2, AccountTyped
<1>4. inserts[m] * (1 + faults') = inserts[m] * (1 + faults) + inserts[m]
  BY AccountTyped
<1> QED
  BY <1>1, <1>3, <1>4, AccountTyped DEF Accounted

\* A finite set that loses an element.
LEMMA OneLess ==
  ASSUME NEW S, IsFiniteSet(S), NEW x \in S, NEW T, T \subseteq S \ {x}
  PROVE  /\ IsFiniteSet(T) /\ Cardinality(T) \in Nat
         /\ Cardinality(T) <= Cardinality(S) - 1
<1>1. /\ IsFiniteSet(S \ {x})
      /\ Cardinality(S \ {x}) = IF x \in S THEN Cardinality(S) - 1 ELSE Cardinality(S)
  BY FS_RemoveElement
<1> QED
  BY <1>1, NoMore

\* A step that touches neither rows nor requests.
LEMMA QuietCopies ==
  ASSUME IInv, CopyInv, UNCHANGED <<outbox, inserts, serving, sending, waiting, copies, faults>>
  PROVE  CopyInv'
BY DEF CopyInv, Numbered, Accounted, Left, Unsent, Nrs

\* Rows that change, but keep their numbers.
LEMMA RowsRest ==
  ASSUME IInv, CopyInv, UNCHANGED <<inserts, serving, sending, waiting, copies, faults>>,
         NEW B, NEW cool \in BOOLEAN, B \subseteq outbox,
         outbox' = (outbox \ B) \cup {[r EXCEPT !.cool = cool] : r \in B}
  PROVE  CopyInv'
<1>1. outbox \subseteq Rows
  BY DEF IInv, TypeOK
<1>2. \A r \in outbox : /\ [r EXCEPT !.cool = cool].sms = r.sms
                        /\ [r EXCEPT !.cool = cool].nr = r.nr
  BY <1>1 DEF Rows
<1>3. \A r \in outbox' : \E o \in outbox :
        /\ o.sms = r.sms /\ o.nr = r.nr
        /\ r = IF o \in B THEN [o EXCEPT !.cool = cool] ELSE o
  BY <1>2
<1>4. Numbered(outbox)'
  <2>1. \A r \in outbox' : r.nr < inserts'[r.sms]
    BY <1>3 DEF CopyInv, Numbered
  <2>2. ASSUME NEW r \in outbox', NEW o \in outbox', r.sms = o.sms, r.nr = o.nr
        PROVE  r = o
    BY <1>3, <2>2 DEF CopyInv, Numbered
  <2> QED
    BY <2>1, <2>2 DEF Numbered
<1>5. ASSUME NEW m \in Messages PROVE Accounted(m)'
  <2>1. Left(m)' = Left(m) /\ Nrs(sending, m)' = Nrs(sending, m)
    BY DEF Left, Nrs
  <2>2. Nrs(outbox, m)' \subseteq Nrs(outbox, m)
    BY <1>3 DEF Nrs
  <2> QED
    BY <2>1, <2>2, AccountShrinks DEF Unsent, IInv, TypeOK
<1> QED
  BY <1>4, <1>5 DEF CopyInv, Numbered

LEMMA InsertCopies ==
  ASSUME IInv, CopyInv, NEW i \in ingests, Insert(i)
  PROVE  CopyInv'
<1> DEFINE row == [sms |-> i.sms, nr |-> inserts[i.sms], at |-> i.at,
                   by |-> i.by, cool |-> FALSE]
<1>1. /\ outbox' = outbox \cup {row} /\ inserts' = [inserts EXCEPT ![i.sms] = @ + 1]
      /\ UNCHANGED <<sending, waiting, serving, copies, faults>>
      /\ i.sms \in Messages /\ inserts \in [Messages -> Nat]
      /\ outbox \subseteq Rows /\ \A q \in serving : q.todo \subseteq Rows
      /\ row.sms = i.sms /\ row.nr = inserts[i.sms]
  BY DEF Insert, sendVars, IInv, TypeOK, Ingests
<1> HIDE DEF row
<1>2. \A m \in Messages : inserts[m] \in Nat /\ inserts'[m] \in Nat /\ inserts[m] <= inserts'[m]
  BY <1>1
<1>3. \A r \in Rows : r.sms \in Messages /\ r.nr \in Nat
  BY DEF Rows
<1>4. Numbered(outbox)'
  <2>1. \A r \in outbox : r.nr < inserts[r.sms] /\ r.nr < inserts'[r.sms]
    BY <1>1, <1>2, <1>3 DEF CopyInv, Numbered
  <2>2. row.nr < inserts'[row.sms]
    BY <1>1
  <2>3. \A r \in outbox : ~(r.sms = row.sms /\ r.nr = row.nr)
    BY <1>1, <1>2, <1>3, <2>1
  <2> QED
    BY <1>1, <2>1, <2>2, <2>3 DEF CopyInv, Numbered
<1>5. ASSUME NEW q \in serving' PROVE Numbered(q.todo)'
  <2>1. q \in serving /\ Numbered(q.todo)
    BY <1>1, <1>5 DEF CopyInv
  <2> QED
    BY <1>1, <1>2, <1>3, <2>1 DEF Numbered
<1>6. ASSUME NEW m \in Messages PROVE Accounted(m)'
  <2>1. Left(m)' = Left(m) /\ Nrs(sending, m)' = Nrs(sending, m)
    BY <1>1 DEF Left, Nrs
  <2>2. CASE m = i.sms
    <3>1. Unsent(m)' \subseteq Unsent(m) \cup {row.nr}
      BY <1>1, <2>1, <2>2 DEF Unsent, Nrs
    <3>2. IsFiniteSet(Unsent(m)) /\ Cardinality(Unsent(m)) \in Nat
      BY AccountTyped DEF IInv
    <3>3. /\ IsFiniteSet(Unsent(m) \cup {row.nr})
          /\ Cardinality(Unsent(m) \cup {row.nr}) =
               IF row.nr \in Unsent(m) THEN Cardinality(Unsent(m)) ELSE Cardinality(Unsent(m)) + 1
      BY <3>2, FS_AddElement
    <3>4. Cardinality(Unsent(m)') \in Nat /\ Cardinality(Unsent(m)') <= Cardinality(Unsent(m)) + 1
      BY <3>1, <3>2, <3>3, NoMore
    <3>5. inserts'[m] = inserts[m] + 1
      BY <1>1, <2>2
    <3>6. inserts'[m] * (1 + faults) = inserts[m] * (1 + faults) + (1 + faults)
      BY <3>5, AccountTyped DEF IInv
    <3> QED
      BY <1>1, <2>1, <3>4, <3>6, AccountTyped DEF IInv, Accounted
  <2>3. CASE m # i.sms
    <3>1. Unsent(m)' = Unsent(m) /\ inserts'[m] = inserts[m]
      BY <1>1, <2>1, <2>3 DEF Unsent, Nrs
    <3> QED
      BY <1>1, <2>1, <3>1 DEF CopyInv, Accounted
  <2> QED
    BY <2>2, <2>3
<1> QED
  BY <1>1, <1>4, <1>5, <1>6 DEF CopyInv

LEMMA SendCopies ==
  ASSUME IInv, CopyInv, UploadSend
  PROVE  CopyInv'
<1> DEFINE new(B) == [id |-> faults, todo |-> B]
<1>1. PICK B \in SUBSET Pending : sending' = B /\ serving' = serving \cup {new(B)}
  BY DEF UploadSend
<1>2. /\ B \subseteq outbox /\ outbox \subseteq Rows /\ faults \in Nat /\ waiting' = faults
      /\ UNCHANGED <<outbox, inserts, copies, faults>>
      /\ new(B).id = faults /\ new(B).todo = B
  BY UploadAssumption DEF UploadAssumption, Pending, UploadSend, IInv, TypeOK
<1>3. waiting' # None
  BY <1>2, UploadAssumption DEF UploadAssumption
<1>4. sending = {}
  \* Nothing is waited for, as no upload runs.
  BY DEF UploadSend, IInv, RequestSound, CopyInv
<1> HIDE DEF new
<1>5. Numbered(B)' /\ Numbered(outbox)'
  BY <1>2 DEF CopyInv, Numbered
<1>6. \A q \in serving' : Numbered(q.todo)'
  BY <1>1, <1>2, <1>5 DEF CopyInv, Numbered
<1>7. ASSUME NEW m \in Messages PROVE Accounted(m)'
  <2> DEFINE N == Nrs(B, m)
             P == {<<faults, n>> : n \in N}
  <2>1. N \subseteq Nrs(outbox, m)
    BY <1>2 DEF Nrs
  <2>2. IsFiniteSet(N) /\ Cardinality(N) \in Nat
    BY <2>1, AccountTyped, NoMore DEF IInv
  <2>3. Unsent(m) = Nrs(outbox, m) /\ Unsent(m)' = Nrs(outbox, m) \ N
    BY <1>1, <1>2, <1>4 DEF Unsent, Nrs
  <2>4. Cardinality(Unsent(m)') + Cardinality(N) = Cardinality(Unsent(m))
    <3>1. IsFiniteSet(Unsent(m)') /\ Unsent(m)' \cup N = Unsent(m) /\ Unsent(m)' \cap N = {}
      BY <2>1, <2>3, AccountTyped, NoMore DEF IInv
    <3>2. Cardinality(Unsent(m)' \cup N) =
            Cardinality(Unsent(m)') + Cardinality(N) - Cardinality(Unsent(m)' \cap N)
      BY <2>2, <3>1, FS_Union
    <3>3. Cardinality(Unsent(m)' \cap N) = 0 /\ Cardinality(Unsent(m)') \in Nat
      BY <3>1, FS_EmptySet, FS_CardinalityType
    <3>4. Cardinality(Unsent(m)' \cup N) = Cardinality(Unsent(m))
      BY <3>1
    <3> HIDE DEF N
    <3> QED
      BY <2>2, <3>2, <3>3, <3>4
  <2>5. IsFiniteSet(P) /\ Cardinality(P) \in Nat /\ Cardinality(P) <= Cardinality(N)
    <3> DEFINE f == [n \in N |-> <<faults, n>>]
    <3>1. f \in [N -> P] /\ \A p \in P : \E n \in N : f[n] = p
      OBVIOUS
    <3> HIDE DEF f, N, P
    <3>2. f \in Surjection(N, P)
      BY <3>1 DEF Surjection
    <3>3. IsFiniteSet(P) /\ Cardinality(P) <= Cardinality(N)
      BY <2>2, <3>2, FS_Surjection
    <3> QED
      BY <3>3, FS_CardinalityType
  <2>6. Left(m)' \subseteq Left(m) \cup P
    BY <1>1, <1>2 DEF Left, Nrs
  <2> HIDE DEF N, P
  <2>7. /\ IsFiniteSet(Left(m) \cup P)
        /\ Cardinality(Left(m) \cup P) <= Cardinality(Left(m)) + Cardinality(P)
    <3>1. /\ IsFiniteSet(Left(m) \cup P) /\ IsFiniteSet(Left(m) \cap P)
          /\ Cardinality(Left(m) \cup P) =
               Cardinality(Left(m)) + Cardinality(P) - Cardinality(Left(m) \cap P)
      BY <2>5, AccountTyped, FS_Union, NoMore DEF IInv
    <3>2. Cardinality(Left(m) \cap P) \in Nat /\ Cardinality(Left(m)) \in Nat
      BY <3>1, AccountTyped, FS_CardinalityType DEF IInv
    <3> QED
      BY <2>5, <3>1, <3>2
  <2>8. /\ IsFiniteSet(Left(m)') /\ Cardinality(Left(m)') \in Nat
        /\ Cardinality(Left(m) \cup P) \in Nat
        /\ Cardinality(Left(m)') <= Cardinality(Left(m) \cup P)
    BY <2>6, <2>7, NoMore
  <2>9. Cardinality(Unsent(m)') \in Nat
    BY <2>3, AccountTyped, NoMore DEF IInv
  <2> QED
    BY <1>2, <2>2, <2>4, <2>5, <2>7, <2>8, <2>9, AccountTyped DEF IInv, Accounted
<1> QED
  BY <1>3, <1>5, <1>6, <1>7 DEF CopyInv

LEMMA InsertSMSMessageCopies ==
  ASSUME IInv, CopyInv, NEW q \in serving, InsertSMSMessage(q)
  PROVE  CopyInv'
<1> DEFINE rest(r) == [q EXCEPT !.todo = @ \ {r}]
<1>1. PICK r \in q.todo : /\ copies' = [copies EXCEPT ![r.sms] = @ + 1]
                          /\ serving' = (serving \ {q}) \cup {rest(r)}
  BY DEF InsertSMSMessage
<1>2. /\ UNCHANGED <<outbox, inserts, sending, waiting, faults>>
      /\ serving \subseteq [id : Nat, todo : SUBSET Rows]
      /\ q.todo \subseteq Rows /\ r \in Rows /\ r.sms \in Messages /\ r.nr \in Nat
      /\ copies \in [Messages -> Nat] /\ q.id \in Nat
      /\ \A p, o \in serving : p.id = o.id => p = o
  BY DEF InsertSMSMessage, IInv, TypeOK, RequestSound, Rows
<1>3. rest(r).id = q.id /\ rest(r).todo = q.todo \ {r}
  BY <1>2
<1> HIDE DEF rest
<1>4. \A p \in serving' : Numbered(p.todo)'
  BY <1>1, <1>2, <1>3 DEF CopyInv, Numbered
<1>5. ASSUME NEW m \in Messages PROVE Accounted(m)'
  <2>1. Unsent(m)' = Unsent(m) /\ Left(m)' \subseteq Left(m)
    BY <1>1, <1>2, <1>3 DEF Unsent, Nrs, Left
  <2>2. CASE m = r.sms
    <3>1. <<q.id, r.nr>> \in Left(m)
      BY <1>1, <1>2, <2>2 DEF Left
    <3>2. <<q.id, r.nr>> \notin Left(m)'
      <4> SUFFICES ASSUME NEW p \in serving', NEW o \in p.todo,
                          o.sms = m, p.id = q.id, o.nr = r.nr
                   PROVE  FALSE
        BY DEF Left
      <4>1. p = rest(r)
        BY <1>1, <1>2
      <4>2. o \in q.todo /\ o # r
        BY <1>3, <4>1
      <4> QED
        BY <1>1, <2>2, <4>2 DEF CopyInv, Numbered
    <3>3. Left(m)' \subseteq Left(m) \ {<<q.id, r.nr>>}
      BY <2>1, <3>2
    <3>4. IsFiniteSet(Left(m))
      BY AccountTyped DEF IInv
    <3>5. /\ IsFiniteSet(Left(m)') /\ Cardinality(Left(m)') \in Nat
          /\ Cardinality(Left(m)') <= Cardinality(Left(m)) - 1
      BY <3>1, <3>3, <3>4, OneLess
    <3>6. copies'[m] = copies[m] + 1
      BY <1>1, <1>2, <2>2
    <3>7. /\ copies[m] \in Nat /\ inserts[m] * (1 + faults) \in Nat
          /\ Cardinality(Unsent(m)) \in Nat /\ Cardinality(Left(m)) \in Nat
          /\ copies[m] + Cardinality(Left(m)) + Cardinality(Unsent(m)) <= inserts[m] * (1 + faults)
      BY AccountTyped DEF IInv
    <3>8. /\ inserts'[m] * (1 + faults') = inserts[m] * (1 + faults)
          /\ Cardinality(Unsent(m)') = Cardinality(Unsent(m))
      BY <1>2, <2>1
    <3> QED
      BY <3>5, <3>6, <3>7, <3>8 DEF Accounted
  <2>3. CASE m # r.sms
    <3>1. copies'[m] = copies[m]
      BY <1>1, <1>2, <2>3
    <3>2. /\ IsFiniteSet(Left(m)') /\ Cardinality(Left(m)') \in Nat
          /\ Cardinality(Left(m)') <= Cardinality(Left(m))
      BY <2>1, AccountTyped, NoMore DEF IInv
    <3> QED
      BY <1>2, <2>1, <3>1, <3>2, AccountTyped DEF IInv, Accounted
  <2> QED
    BY <2>2, <2>3
<1> QED
  BY <1>2, <1>4, <1>5 DEF CopyInv, Numbered

\* The rows of an answered request were sent, and those of one that nobody
\* waits for need not be stored.
LEMMA AnswerCopies ==
  ASSUME IInv, CopyInv, NEW q \in serving, Dropped(q) \/ Acked(q)
  PROVE  CopyInv'
<1>1. /\ UNCHANGED <<inserts, copies, faults>>
      /\ serving' \subseteq serving /\ outbox' \subseteq outbox
  BY DEF Dropped, Acked, ingestVars
<1>2. sending' # {} => waiting' # None
  BY DEF Dropped, Acked, CopyInv
<1>3. Numbered(outbox)' /\ \A p \in serving' : Numbered(p.todo)'
  BY <1>1 DEF CopyInv, Numbered
<1>4. ASSUME NEW m \in Messages PROVE Accounted(m)'
  <2>1. Left(m)' \subseteq Left(m)
    BY <1>1 DEF Left
  <2>2. CASE Dropped(q)
    <3>1. Unsent(m)' = Unsent(m)
      BY <2>2 DEF Dropped, Unsent, Nrs
    <3> QED
      BY <1>1, <2>1, <3>1, AccountShrinks DEF IInv, TypeOK
  <2>3. CASE Acked(q)
    <3>1. outbox' = {r \in outbox : \A s \in sending : <<s.sms, s.nr>> # <<r.sms, r.nr>>}
          /\ sending' = {}
      BY <2>3 DEF Acked
    <3>2. Unsent(m)' \subseteq Unsent(m)
      BY <3>1 DEF Unsent, Nrs
    <3> QED
      BY <1>1, <2>1, <3>2, AccountShrinks DEF IInv, TypeOK
  <2> QED
    BY <2>2, <2>3
<1> QED
  BY <1>2, <1>3, <1>4 DEF CopyInv

\* A fault; the request that was waited for, if it ends the wait, may be
\* repeated.
LEMMA FaultCopies ==
  ASSUME IInv, CopyInv,
         \/ \E q \in serving : Failed(q) \/ Unanswered(q)
         \/ Kill \/ HeartbeatRefused \/ \E w \in Scans : ScanStopped(w)
  PROVE  CopyInv'
<1>1. UNCHANGED <<outbox, inserts, copies>> /\ faults' = faults + 1 /\ serving' \subseteq serving
  BY DEF Failed, Unanswered, Kill, HeartbeatRefused, ScanStopped, ingestVars, sendVars
<1>2. sending' = {} \/ UNCHANGED <<sending, waiting>>
  BY DEF Failed, Unanswered, Kill, HeartbeatRefused, ScanStopped, sendVars
<1>3. Numbered(outbox)' /\ \A p \in serving' : Numbered(p.todo)'
  BY <1>1 DEF CopyInv, Numbered
<1>4. ASSUME NEW m \in Messages PROVE Accounted(m)'
  <2>1. Left(m)' \subseteq Left(m)
    BY <1>1 DEF Left
  <2>2. CASE sending' = {}
    BY <1>1, <2>1, <2>2, AccountRestarts DEF IInv
  <2>3. CASE UNCHANGED sending
    <3>1. Unsent(m)' = Unsent(m)
      BY <1>1, <2>3 DEF Unsent, Nrs
    <3> QED
      BY <1>1, <2>1, <3>1, AccountShrinks DEF IInv
  <2> QED
    BY <1>2, <2>2, <2>3
<1> QED
  BY <1>2, <1>3, <1>4 DEF CopyInv

\* Every step keeps the accounts of the copies.
LEMMA NextCopyInv == IInv /\ CopyInv /\ [Next]_vars => CopyInv'
<1> SUFFICES ASSUME IInv, CopyInv, [Next]_vars PROVE CopyInv'
  OBVIOUS
<1>1. CASE \/ \E m \in Messages : Arrive(m)
           \/ \E m \in Messages, by \in Receivers : OnReceive(m, by)
           \/ \E i \in ingests : CountDuplicates(i) \/ EnqueueUpload(i)
           \/ \E w \in Scans : ScanStep(w)
           \/ HeartbeatTick \/ UploadNothing \/ PauseOver \/ UNCHANGED vars
  <2>1. UNCHANGED <<outbox, inserts, serving, sending, waiting, copies, faults>>
    BY <1>1 DEF Arrive, OnReceive, CountDuplicates, EnqueueUpload, ScanStep, StartScan, ScanRow,
       SetInboxScanCursor, HeartbeatTick, UploadNothing, PauseOver, vars, sendVars
  <2> QED
    BY <2>1, QuietCopies
<1>2. CASE \E i \in ingests : Insert(i)
  BY <1>2, InsertCopies
<1>3. CASE UploadGiveUp
  <2>1. PICK B \in SUBSET Pending : outbox' = (outbox \ B) \cup {[r EXCEPT !.cool = TRUE] : r \in B}
    BY <1>3 DEF UploadGiveUp
  <2>2. B \subseteq outbox /\ UNCHANGED <<inserts, serving, sending, waiting, copies, faults>>
    BY <1>3 DEF UploadGiveUp, Pending, sendVars
  <2> QED
    BY <2>1, <2>2, RowsRest
<1>4. CASE CooldownOver
  <2>1. PICK r \in outbox : outbox' = (outbox \ {r}) \cup {[r EXCEPT !.cool = FALSE]}
    BY <1>4 DEF CooldownOver
  <2>2. outbox' = (outbox \ {r}) \cup {[o EXCEPT !.cool = FALSE] : o \in {r}}
    BY <2>1
  <2>3. {r} \subseteq outbox /\ UNCHANGED <<inserts, serving, sending, waiting, copies, faults>>
    BY <1>4 DEF CooldownOver, sendVars
  <2> QED
    BY <2>2, <2>3, RowsRest
<1>5. CASE UploadSend
  BY <1>5, SendCopies
<1>6. CASE \E q \in serving : InsertSMSMessage(q) \/ Dropped(q) \/ Acked(q)
  BY <1>6, InsertSMSMessageCopies, AnswerCopies
<1>7. CASE \/ \E q \in serving : Failed(q) \/ Unanswered(q)
           \/ Kill \/ HeartbeatRefused \/ \E w \in Scans : ScanStopped(w)
  BY <1>7, FaultCopies
<1> QED
  BY <1>1, <1>2, <1>3, <1>4, <1>5, <1>6, <1>7 DEF Next, IngestStep, UploadStep, ServeStep

-----------------------------------------------------------------------------
(* How often an SMS is queued.                                             *)

\* Each path stamps what it ingests with a clock of its own.
Stamp(c) == IF c \in Receivers THEN "operator" ELSE "inbox"

\* A receiver ingests an SMS once; a scan ingests one SMS at a time.
OneIngest ==
  \A i, j \in ingests : (i.by = j.by /\ (i.by \in Scans \/ i.sms = j.sms)) => i = j

IngestOfScan ==
  \A i \in ingests : i.by \in Scans => scan[i.by] # None /\ i.sms \notin scan[i.by].todo

\* Who is about to insert has no row of the SMS in the outbox.
RowsApart ==
  /\ \A i \in ingests : i.at = Stamp(i.by)
  /\ \A r \in outbox : r.at = Stamp(r.by)
  /\ \A i \in ingests, r \in outbox : i.step = "insert" => ~(r.sms = i.sms /\ r.by = i.by)
  /\ NoTwinRows

\* Nobody knows of an SMS that has not arrived.
Unheard ==
  \A m \in Messages \ inbox, c \in Callers :
    /\ queued[m][c] = 0
    /\ <<m, c>> \notin broadcasts
    /\ \A i \in ingests : i.sms # m

Asking(m, c) == \E i \in ingests : i.sms = m /\ i.by = c /\ i.step # "schedule"

\* A receiver is told of an SMS once.
ReceiverAccount(m, c) ==
  /\ <<m, c>> \in broadcasts => /\ queued[m][c] = 0
                                /\ \A i \in ingests : ~(i.sms = m /\ i.by = c)
  /\ Asking(m, c) => queued[m][c] = 0
  /\ queued[m][c] <= 1

\* The scan under way is about to queue the SMS.
Due(m, w) == (scan[w] # None /\ m \in scan[w].todo) \/ Asking(m, w)

\* The other scans that began before the SMS came: each may set the cursor back.
Others(m, w) == {v \in Scans : v # w /\ scan[v] # None /\ scan[v].next < m}

\* The next scan reads the SMS, unless the cursor is moved before it begins.
Behind(m, w) == IF scan[w] = None THEN cursor < m ELSE scan[w].next < m

One(P) == IF P THEN 1 ELSE 0

\* What a scan has queued and may still queue without another fault.
ScanAccount(m, w) ==
  queued[m][w] + One(Due(m, w)) + Cardinality(Others(m, w)) + One(Behind(m, w))
    <= Cardinality(Scans) + faults

Ingested == OneIngest /\ IngestOfScan /\ RowsApart /\ Unheard

Received == \A m \in Messages, c \in Receivers : ReceiverAccount(m, c)

Scanned == \A m \in inbox, w \in Scans : ScanAccount(m, w)

\* The rows of an SMS, by who inserted them.
Entries(m) == {p \in Callers \X Nat : p[2] < queued[m][p[1]]}

Entered == \A m \in Messages : IsFiniteSet(Entries(m)) /\ inserts[m] = Cardinality(Entries(m))

QueueInv == Ingested /\ Received /\ Scanned /\ Entered

\* What the accounts are made of.
LEMMA AccountOfScan ==
  ASSUME TypeOK, NEW m \in Messages, NEW w \in Scans
  PROVE  /\ m \in Nat /\ cursor \in Nat /\ faults \in Nat /\ queued[m][w] \in Nat
         /\ Cardinality(Scans) \in Nat
         /\ IsFiniteSet(Others(m, w)) /\ Cardinality(Others(m, w)) \in Nat
         /\ Cardinality(Others(m, w)) <= Cardinality(Scans) - 1
<1>1. /\ m \in Nat /\ cursor \in Nat /\ faults \in Nat /\ queued[m][w] \in Nat
  BY UploadAssumption DEF UploadAssumption, TypeOK, Callers
<1>2. IsFiniteSet(Scans) /\ Cardinality(Scans) \in Nat
  BY UploadAssumption, FS_CardinalityType DEF UploadAssumption
<1>3. Others(m, w) \subseteq Scans \ {w}
  BY DEF Others
<1> QED
  BY <1>1, <1>2, <1>3, OneLess

\* An account of which no part grows.
LEMMA AccountKept ==
  ASSUME TypeOK, NEW m \in Messages, NEW w \in Scans, ScanAccount(m, w),
         UNCHANGED <<queued, faults>>, Due(m, w)' => Due(m, w),
         Others(m, w)' \subseteq Others(m, w), Behind(m, w)' => Behind(m, w)
  PROVE  ScanAccount(m, w)'
<1>1. /\ Cardinality(Others(m, w)') \in Nat
      /\ Cardinality(Others(m, w)') <= Cardinality(Others(m, w))
  BY AccountOfScan, NoMore
<1>2. One(Due(m, w)') <= One(Due(m, w)) /\ One(Behind(m, w)') <= One(Behind(m, w))
  BY DEF One
<1>3. /\ One(Due(m, w)) \in Nat /\ One(Due(m, w)') \in Nat
      /\ One(Behind(m, w)) \in Nat /\ One(Behind(m, w)') \in Nat
  BY DEF One
<1>4. queued'[m][w] = queued[m][w] /\ faults' = faults
  OBVIOUS
<1> QED
  BY <1>1, <1>2, <1>3, <1>4, AccountOfScan DEF ScanAccount, One

\* After a fault the SMS may be read once more.
LEMMA AccountAfterFault ==
  ASSUME TypeOK, NEW m \in Messages, NEW w \in Scans, ScanAccount(m, w),
         UNCHANGED queued, faults' = faults + 1, Due(m, w)' => Due(m, w),
         Others(m, w)' \subseteq Others(m, w)
  PROVE  ScanAccount(m, w)'
<1>1. /\ Cardinality(Others(m, w)') \in Nat
      /\ Cardinality(Others(m, w)') <= Cardinality(Others(m, w))
  BY AccountOfScan, NoMore
<1>2. One(Due(m, w)') <= One(Due(m, w)) /\ One(Behind(m, w)') <= One(Behind(m, w)) + 1
  BY DEF One
<1>3. /\ One(Due(m, w)) \in Nat /\ One(Due(m, w)') \in Nat
      /\ One(Behind(m, w)) \in Nat /\ One(Behind(m, w)') \in Nat
  BY DEF One
<1>4. queued'[m][w] = queued[m][w]
  OBVIOUS
<1> QED
  BY <1>1, <1>2, <1>3, <1>4, AccountOfScan DEF ScanAccount, One

\* Only an insertion enters a row.
LEMMA EnteredKept ==
  ASSUME Entered, UNCHANGED <<inserts, queued>>
  PROVE  Entered'
BY DEF Entered, Entries

LEMMA InitQueueInv == Init => QueueInv
<1> SUFFICES ASSUME Init PROVE QueueInv
  OBVIOUS
<1>1. \A m \in Messages, c \in Callers : queued[m][c] = 0
  BY DEF Init
<1>2. Ingested
  BY <1>1 DEF Init, Ingested, OneIngest, IngestOfScan, RowsApart, NoTwinRows, Unheard
<1>3. Received
  BY <1>1 DEF Init, Received, ReceiverAccount, Asking, Callers
<1>4. Scanned
  BY DEF Init, Scanned
<1>5. ASSUME NEW m \in Messages
      PROVE  IsFiniteSet(Entries(m)) /\ inserts[m] = Cardinality(Entries(m))
  <2>1. Entries(m) = {}
    BY <1>1 DEF Entries
  <2> QED
    BY <2>1, FS_EmptySet DEF Init
<1> QED
  BY <1>2, <1>3, <1>4, <1>5 DEF QueueInv, Entered

\* A step of the upload side, with rows that keep who inserted them.
LEMMA UploadQueue ==
  ASSUME IInv, QueueInv, UNCHANGED <<ingestVars, inserts, queued>>,
         faults' = faults \/ faults' = faults + 1, NoTwinRows',
         \A r \in outbox' : \E o \in outbox : o.sms = r.sms /\ o.at = r.at /\ o.by = r.by
  PROVE  QueueInv'
<1> USE DEF ingestVars
<1>1. Ingested'
  BY DEF QueueInv, Ingested, OneIngest, IngestOfScan, RowsApart, Unheard
<1>2. Received'
  BY DEF QueueInv, Received, ReceiverAccount, Asking
<1>3. ASSUME NEW m \in inbox, NEW w \in Scans PROVE ScanAccount(m, w)'
  <2>1. /\ Due(m, w)' => Due(m, w)
        /\ Others(m, w)' \subseteq Others(m, w)
        /\ Behind(m, w)' => Behind(m, w)
    BY DEF Due, Asking, Others, Behind
  <2>2. m \in Messages /\ ScanAccount(m, w)
    BY DEF QueueInv, Scanned, IInv, TypeOK
  <2> QED
    BY <2>1, <2>2, AccountKept, AccountAfterFault DEF IInv
<1>4. Entered'
  BY EnteredKept DEF QueueInv
<1> QED
  BY <1>1, <1>2, <1>3, <1>4 DEF QueueInv, Scanned

\* Rows whose cooldown begins or ends.
LEMMA CoolQueue ==
  ASSUME IInv, QueueInv, UNCHANGED <<ingestVars, inserts, queued, faults>>,
         NEW B, NEW cool \in BOOLEAN, B \subseteq outbox,
         outbox' = (outbox \ B) \cup {[r EXCEPT !.cool = cool] : r \in B}
  PROVE  QueueInv'
<1>1. outbox \subseteq Rows
  BY DEF IInv, TypeOK
<1>2. \A r \in outbox : /\ [r EXCEPT !.cool = cool].sms = r.sms
                        /\ [r EXCEPT !.cool = cool].at = r.at
                        /\ [r EXCEPT !.cool = cool].by = r.by
  BY <1>1 DEF Rows
<1>3. \A r \in outbox' : \E o \in outbox :
        /\ o.sms = r.sms /\ o.at = r.at /\ o.by = r.by
        /\ r = IF o \in B THEN [o EXCEPT !.cool = cool] ELSE o
  BY <1>2
<1>4. ASSUME NEW r \in outbox', NEW o \in outbox', r.sms = o.sms, r.by = o.by
      PROVE  r = o
  BY <1>3, <1>4 DEF QueueInv, Ingested, RowsApart, NoTwinRows
<1> QED
  BY <1>3, <1>4, UploadQueue DEF NoTwinRows

LEMMA ArriveQueue == ASSUME IInv, QueueInv, NEW n \in Messages, Arrive(n) PROVE QueueInv'
<1> USE DEF Arrive
<1>1. /\ n \notin inbox /\ inbox' = inbox \cup {n}
      /\ UNCHANGED <<ingests, scan, cursor, outbox, inserts, queued, faults>>
      /\ broadcasts' = broadcasts \cup ({n} \X Receivers)
  OBVIOUS
<1>2. Receivers \subseteq Callers /\ Scans \subseteq Callers
  BY DEF Callers
<1>3. \A c \in Callers : queued[n][c] = 0
  BY DEF QueueInv, Ingested, Unheard
<1>4. \A i \in ingests : i.sms # n
  \* Whoever ingests an SMS is a caller.
  BY DEF QueueInv, Ingested, Unheard, IInv, TypeOK, Ingests
<1>5. OneIngest' /\ IngestOfScan' /\ RowsApart'
  BY <1>1 DEF QueueInv, Ingested, OneIngest, IngestOfScan, RowsApart, NoTwinRows
<1>6. Unheard'
  <2> SUFFICES ASSUME NEW m \in Messages \ inbox', NEW c \in Callers
               PROVE  /\ queued'[m][c] = 0 /\ <<m, c>> \notin broadcasts'
                      /\ \A i \in ingests' : i.sms # m
    BY DEF Unheard
  <2>1. m \in Messages \ inbox /\ m # n
    BY <1>1
  <2>2. queued[m][c] = 0 /\ <<m, c>> \notin broadcasts /\ \A i \in ingests : i.sms # m
    BY <2>1 DEF QueueInv, Ingested, Unheard
  <2> QED
    BY <1>1, <2>1, <2>2
<1>7. ASSUME NEW m \in Messages, NEW c \in Receivers PROVE ReceiverAccount(m, c)'
  <2>1. ReceiverAccount(m, c) /\ c \in Callers
    BY <1>2 DEF QueueInv, Received
  <2>2. <<m, c>> \in broadcasts' => m = n \/ <<m, c>> \in broadcasts
    BY <1>1
  <2> QED
    BY <1>1, <1>3, <1>4, <2>1, <2>2 DEF ReceiverAccount, Asking
<1>8. ASSUME NEW m \in inbox', NEW w \in Scans PROVE ScanAccount(m, w)'
  <2>1. CASE m \in inbox
    <3>1. /\ Due(m, w)' => Due(m, w)
          /\ Others(m, w)' \subseteq Others(m, w)
          /\ Behind(m, w)' => Behind(m, w)
      BY <1>1 DEF Due, Asking, Others, Behind
    <3>2. m \in Messages /\ ScanAccount(m, w)
      BY <2>1 DEF QueueInv, Scanned, IInv, TypeOK
    <3> QED
      BY <1>1, <3>1, <3>2, AccountKept DEF IInv
  <2>2. CASE m = n
    <3>1. ~Due(n, w)'
      BY <1>1, <1>4 DEF Due, Asking, IInv, ScanSound
    <3>2. Others(n, w)' = Others(n, w) /\ queued'[n][w] = 0 /\ faults' = faults
      BY <1>1, <1>2, <1>3 DEF Others
    <3>3. One(Due(n, w)') = 0 /\ One(Behind(n, w)') \in 0 .. 1
      BY <3>1 DEF One
    <3> QED
      BY <2>2, <3>2, <3>3, AccountOfScan DEF IInv, ScanAccount
  <2> QED
    BY <1>1, <2>1, <2>2
<1>9. Entered'
  BY <1>1, EnteredKept DEF QueueInv
<1> QED
  BY <1>5, <1>6, <1>7, <1>8, <1>9 DEF QueueInv, Ingested, Received, Scanned

LEMMA OnReceiveQueue ==
  ASSUME IInv, QueueInv, NEW n \in Messages, NEW by \in Receivers, OnReceive(n, by)
  PROVE  QueueInv'
<1> DEFINE new == [sms |-> n, at |-> "operator", by |-> by, step |-> "count"]
<1>1. /\ <<n, by>> \in broadcasts /\ broadcasts' = broadcasts \ {<<n, by>>}
      /\ ingests' = ingests \cup {new}
      /\ UNCHANGED <<inbox, scan, cursor, outbox, inserts, queued, faults>>
  BY DEF OnReceive
<1>2. new.sms = n /\ new.by = by /\ new.step = "count" /\ new.at = "operator"
  OBVIOUS
<1> HIDE DEF new
<1>3. by \notin Scans /\ by \in Callers /\ Receivers \subseteq Callers
  BY UploadAssumption DEF UploadAssumption, Callers
<1>4. queued[n][by] = 0 /\ \A i \in ingests : ~(i.sms = n /\ i.by = by)
  BY <1>1 DEF QueueInv, Received, ReceiverAccount
<1>5. n \in inbox
  BY <1>1, <1>3 DEF QueueInv, Ingested, Unheard
<1>6. OneIngest'
  BY <1>1, <1>2, <1>3, <1>4 DEF QueueInv, Ingested, OneIngest
<1>7. IngestOfScan'
  BY <1>1, <1>2, <1>3 DEF QueueInv, Ingested, IngestOfScan
<1>8. RowsApart'
  BY <1>1, <1>2 DEF QueueInv, Ingested, RowsApart, NoTwinRows, Stamp
<1>9. Unheard'
  BY <1>1, <1>2, <1>5 DEF QueueInv, Ingested, Unheard
<1>10. ASSUME NEW m \in Messages, NEW c \in Receivers PROVE ReceiverAccount(m, c)'
  <2>1. ReceiverAccount(m, c)
    BY DEF QueueInv, Received
  <2>2. CASE m = n /\ c = by
    BY <1>1, <1>4, <2>1, <2>2 DEF ReceiverAccount, Asking
  <2>3. CASE ~(m = n /\ c = by)
    BY <1>1, <1>2, <2>1, <2>3 DEF ReceiverAccount, Asking
  <2> QED
    BY <2>2, <2>3
<1>11. ASSUME NEW m \in inbox, NEW w \in Scans PROVE ScanAccount(m, w)'
  <2>1. /\ Due(m, w)' => Due(m, w)
        /\ Others(m, w)' \subseteq Others(m, w)
        /\ Behind(m, w)' => Behind(m, w)
    BY <1>1, <1>2, <1>3 DEF Due, Asking, Others, Behind
  <2>2. m \in Messages /\ ScanAccount(m, w)
    BY DEF QueueInv, Scanned, IInv, TypeOK
  <2> QED
    BY <1>1, <2>1, <2>2, AccountKept DEF IInv
<1>12. Entered'
  BY <1>1, EnteredKept DEF QueueInv
<1> QED
  BY <1>1, <1>6, <1>7, <1>8, <1>9, <1>10, <1>11, <1>12 DEF QueueInv, Ingested, Received, Scanned

\* An ingest goes a step further, or ends, without inserting a row.
LEMMA IngestMoves ==
  ASSUME IInv, QueueInv,
         UNCHANGED <<inbox, broadcasts, scan, cursor, outbox, inserts, queued, faults>>,
         NEW i \in ingests, NEW j, j.sms = i.sms, j.by = i.by, j.at = i.at, i.step # "schedule",
         j.step = "insert" => \A r \in outbox : ~(r.sms = i.sms /\ r.by = i.by),
         ingests' = (ingests \ {i}) \cup {j}
  PROVE  QueueInv'
<1>1. OneIngest'
  BY DEF QueueInv, Ingested, OneIngest
<1>2. IngestOfScan' /\ Unheard'
  BY DEF QueueInv, Ingested, IngestOfScan, Unheard
<1>3. RowsApart'
  BY DEF QueueInv, Ingested, RowsApart, NoTwinRows
<1>4. \A m \in Messages, c \in Callers : Asking(m, c)' => Asking(m, c)
  BY DEF Asking
<1>5. ASSUME NEW m \in Messages, NEW c \in Receivers PROVE ReceiverAccount(m, c)'
  <2>1. c \in Callers /\ ReceiverAccount(m, c)
    BY DEF QueueInv, Received, Callers
  <2>2. (\A k \in ingests : ~(k.sms = m /\ k.by = c)) =>
          \A k \in ingests' : ~(k.sms = m /\ k.by = c)
    OBVIOUS
  <2> QED
    BY <1>4, <2>1, <2>2 DEF ReceiverAccount
<1>6. ASSUME NEW m \in inbox, NEW w \in Scans PROVE ScanAccount(m, w)'
  <2>1. m \in Messages /\ w \in Callers /\ ScanAccount(m, w)
    BY DEF QueueInv, Scanned, IInv, TypeOK, Callers
  <2>2. /\ Due(m, w)' => Due(m, w)
        /\ Others(m, w)' \subseteq Others(m, w)
        /\ Behind(m, w)' => Behind(m, w)
    BY <1>4, <2>1 DEF Due, Others, Behind
  <2> QED
    BY <2>1, <2>2, AccountKept DEF IInv
<1>7. Entered'
  BY EnteredKept DEF QueueInv
<1> QED
  BY <1>1, <1>2, <1>3, <1>5, <1>6, <1>7 DEF QueueInv, Ingested, Received, Scanned

\* Ingests that end leave less to be accounted for.
LEMMA IngestEnds ==
  ASSUME IInv, QueueInv,
         UNCHANGED <<inbox, broadcasts, scan, cursor, outbox, inserts, queued, faults>>,
         ingests' \subseteq ingests
  PROVE  QueueInv'
<1>1. Ingested'
  BY DEF QueueInv, Ingested, OneIngest, IngestOfScan, RowsApart, NoTwinRows, Unheard
<1>2. \A m \in Messages, c \in Callers : Asking(m, c)' => Asking(m, c)
  BY DEF Asking
<1>3. Received'
  BY <1>2 DEF QueueInv, Received, ReceiverAccount, Callers
<1>4. ASSUME NEW m \in inbox, NEW w \in Scans PROVE ScanAccount(m, w)'
  <2>1. m \in Messages /\ w \in Callers /\ ScanAccount(m, w)
    BY DEF QueueInv, Scanned, IInv, TypeOK, Callers
  <2>2. /\ Due(m, w)' => Due(m, w)
        /\ Others(m, w)' \subseteq Others(m, w)
        /\ Behind(m, w)' => Behind(m, w)
    BY <1>2, <2>1 DEF Due, Others, Behind
  <2> QED
    BY <2>1, <2>2, AccountKept DEF IInv
<1>5. Entered'
  BY EnteredKept DEF QueueInv
<1> QED
  BY <1>1, <1>3, <1>4, <1>5 DEF QueueInv, Scanned

\* The count sees a row of the same caller, as it bears the same stamp.
LEMMA CountDuplicatesQueue ==
  ASSUME IInv, QueueInv, NEW i \in ingests, CountDuplicates(i) PROVE QueueInv'
<1> USE DEF CountDuplicates
<1>1. i \in Ingests
  BY DEF IInv, TypeOK
<1> DEFINE j == [i EXCEPT !.step = "insert"]
<1>2. j.sms = i.sms /\ j.by = i.by /\ j.at = i.at
  BY <1>1 DEF Ingests
<1>3. UNCHANGED <<inbox, broadcasts, scan, cursor, outbox, inserts, queued, faults>>
  OBVIOUS
<1>4. CASE Duplicates(i) = {}
  <2>1. ingests' = (ingests \ {i}) \cup {j}
    BY <1>4
  <2> HIDE DEF j
  <2>2. \A r \in outbox : ~(r.sms = i.sms /\ r.by = i.by)
    BY <1>4 DEF Duplicates, QueueInv, Ingested, RowsApart
  <2> QED
    BY <1>2, <1>3, <2>1, <2>2, IngestMoves
<1>5. CASE Duplicates(i) # {}
  BY <1>3, <1>5, IngestEnds
<1> QED
  BY <1>4, <1>5

LEMMA InsertQueue ==
  ASSUME IInv, QueueInv, NEW i \in ingests, Insert(i) PROVE QueueInv'
<1> DEFINE j == [i EXCEPT !.step = "schedule"]
           row == [sms |-> i.sms, nr |-> inserts[i.sms], at |-> i.at,
                   by |-> i.by, cool |-> FALSE]
<1>1. /\ i.step = "insert" /\ ingests' = (ingests \ {i}) \cup {j} /\ outbox' = outbox \cup {row}
      /\ inserts' = [inserts EXCEPT ![i.sms] = @ + 1]
      /\ queued' = [queued EXCEPT ![i.sms][i.by] = @ + 1]
      /\ UNCHANGED <<inbox, broadcasts, scan, cursor, faults>>
  BY DEF Insert
<1>2. /\ i \in Ingests /\ i.sms \in Messages /\ i.by \in Callers
      /\ inserts \in [Messages -> Nat] /\ queued \in [Messages -> [Callers -> Nat]]
  BY DEF IInv, TypeOK, Ingests
<1>3. j.sms = i.sms /\ j.by = i.by /\ j.at = i.at /\ j.step = "schedule"
  BY <1>2 DEF Ingests
<1>4. row.sms = i.sms /\ row.by = i.by /\ row.at = i.at
  OBVIOUS
<1> HIDE DEF j, row
<1>5. Scans \subseteq Callers /\ Receivers \subseteq Callers
  BY DEF Callers
<1>6. /\ queued'[i.sms][i.by] = queued[i.sms][i.by] + 1
      /\ \A m \in Messages, c \in Callers :
           ~(m = i.sms /\ c = i.by) => queued'[m][c] = queued[m][c]
  BY <1>1, <1>2
<1>7. i.sms \in inbox
  BY <1>2 DEF QueueInv, Ingested, Unheard
<1>8. OneIngest'
  BY <1>1, <1>3 DEF QueueInv, Ingested, OneIngest
<1>9. IngestOfScan'
  BY <1>1, <1>3 DEF QueueInv, Ingested, IngestOfScan
<1>10. Unheard'
  <2> SUFFICES ASSUME NEW m \in Messages \ inbox', NEW c \in Callers
               PROVE  /\ queued'[m][c] = 0 /\ <<m, c>> \notin broadcasts'
                      /\ \A k \in ingests' : k.sms # m
    BY DEF Unheard
  <2>1. m \in Messages \ inbox /\ m # i.sms
    BY <1>1, <1>7
  <2>2. queued[m][c] = 0 /\ <<m, c>> \notin broadcasts /\ \A k \in ingests : k.sms # m
    BY <2>1 DEF QueueInv, Ingested, Unheard
  <2> QED
    BY <1>1, <1>3, <1>6, <2>1, <2>2
<1>11. \A r \in outbox : ~(r.sms = i.sms /\ r.by = i.by)
  BY <1>1 DEF QueueInv, Ingested, RowsApart
<1>12. NoTwinRows'
  BY <1>1, <1>4, <1>11 DEF QueueInv, Ingested, RowsApart, NoTwinRows
<1>13. \A k \in ingests' : k.step = "insert" => ~(k.sms = i.sms /\ k.by = i.by)
  \* No other call of that caller is ingesting the SMS.
  BY <1>1, <1>3 DEF QueueInv, Ingested, OneIngest
<1>14. RowsApart'
  <2>1. /\ \A k \in ingests' : k.at = Stamp(k.by)
        /\ \A r \in outbox' : r.at = Stamp(r.by)
    BY <1>1, <1>3, <1>4 DEF QueueInv, Ingested, RowsApart
  <2>2. \A k \in ingests', r \in outbox' : k.step = "insert" => ~(r.sms = k.sms /\ r.by = k.by)
    BY <1>1, <1>3, <1>4, <1>13 DEF QueueInv, Ingested, RowsApart
  <2> QED
    BY <1>12, <2>1, <2>2 DEF RowsApart
<1>15. \A m \in Messages, c \in Callers :
         Asking(m, c)' => Asking(m, c) /\ ~(m = i.sms /\ c = i.by)
  BY <1>1, <1>3 DEF Asking, QueueInv, Ingested, OneIngest
<1>16. Asking(i.sms, i.by)
  BY <1>1 DEF Asking
<1>17. ASSUME NEW m \in Messages, NEW c \in Receivers PROVE ReceiverAccount(m, c)'
  <2>1. ReceiverAccount(m, c) /\ c \in Callers
    BY <1>5 DEF QueueInv, Received
  <2>2. CASE m = i.sms /\ c = i.by
    BY <1>1, <1>6, <1>15, <1>16, <2>1, <2>2 DEF ReceiverAccount
  <2>3. CASE ~(m = i.sms /\ c = i.by)
    BY <1>1, <1>3, <1>6, <1>15, <2>1, <2>3 DEF ReceiverAccount
  <2> QED
    BY <2>2, <2>3
<1>18. ASSUME NEW m \in inbox', NEW w \in Scans PROVE ScanAccount(m, w)'
  <2>1. m \in Messages /\ w \in Callers /\ ScanAccount(m, w)
    BY <1>1, <1>5 DEF QueueInv, Scanned, IInv, TypeOK
  <2>2. Others(m, w)' = Others(m, w) /\ Behind(m, w)' = Behind(m, w) /\ faults' = faults
    BY <1>1 DEF Others, Behind
  <2>3. CASE m = i.sms /\ w = i.by
    <3>1. ~Due(m, w)' /\ Due(m, w)
      BY <1>1, <1>15, <1>16, <2>1, <2>3 DEF Due, QueueInv, Ingested, IngestOfScan
    <3>2. One(Due(m, w)') = 0 /\ One(Due(m, w)) = 1 /\ One(Behind(m, w)) \in 0 .. 1
      BY <3>1 DEF One
    <3>3. queued'[m][w] = queued[m][w] + 1
      BY <1>6, <2>3
    <3>4. One(Behind(m, w)') = One(Behind(m, w))
      BY <2>2 DEF One
    <3> QED
      BY <2>1, <2>2, <3>2, <3>3, <3>4, AccountOfScan DEF IInv, ScanAccount
  <2>4. CASE ~(m = i.sms /\ w = i.by)
    <3>1. queued'[m][w] = queued[m][w]
      BY <1>6, <2>1, <2>4
    <3>2. Due(m, w)' => Due(m, w)
      BY <1>1, <1>15, <2>1 DEF Due
    <3>3. /\ One(Due(m, w)') \in 0 .. 1 /\ One(Due(m, w)) \in 0 .. 1
          /\ One(Due(m, w)') <= One(Due(m, w)) /\ One(Behind(m, w)) \in 0 .. 1
      BY <3>2 DEF One
    <3>4. One(Behind(m, w)') = One(Behind(m, w))
      BY <2>2 DEF One
    <3> QED
      BY <2>1, <2>2, <3>1, <3>3, <3>4, AccountOfScan DEF IInv, ScanAccount
  <2> QED
    BY <2>3, <2>4
<1>19. ASSUME NEW m \in Messages
       PROVE  IsFiniteSet(Entries(m)') /\ inserts'[m] = Cardinality(Entries(m)')
  <2>1. IsFiniteSet(Entries(m)) /\ inserts[m] = Cardinality(Entries(m))
    BY DEF QueueInv, Entered
  <2>2. CASE m = i.sms
    <3> DEFINE e == <<i.by, queued[m][i.by]>>
    <3>1. e \notin Entries(m) /\ Entries(m)' = Entries(m) \cup {e}
      <4>1. \A c \in Callers : queued[m][c] \in Nat /\ queued'[m][c] =
              IF c = i.by THEN queued[m][c] + 1 ELSE queued[m][c]
        BY <1>2, <1>6, <2>2
      <4>2. \A c \in Callers, n \in Nat :
              n < queued'[m][c] <=> (n < queued[m][c] \/ (c = i.by /\ n = queued[m][c]))
        BY <4>1
      <4>3. queued[m][i.by] \in Nat /\ ~(queued[m][i.by] < queued[m][i.by])
        BY <1>2, <4>1
      <4> QED
        BY <1>2, <4>2, <4>3 DEF Entries
    <3> HIDE DEF e
    <3>2. IsFiniteSet(Entries(m)') /\ Cardinality(Entries(m)') = Cardinality(Entries(m)) + 1
      BY <2>1, <3>1, FS_AddElement
    <3> QED
      BY <1>1, <1>2, <2>1, <2>2, <3>2
  <2>3. CASE m # i.sms
    <3>1. \A c \in Callers : queued'[m][c] = queued[m][c]
      BY <1>6, <2>3
    <3>2. Entries(m)' = Entries(m)
      BY <3>1 DEF Entries
    <3> QED
      BY <1>1, <1>2, <2>1, <2>3, <3>2
  <2> QED
    BY <2>2, <2>3
<1> QED
  BY <1>8, <1>9, <1>10, <1>14, <1>17, <1>18, <1>19
     DEF QueueInv, Ingested, Received, Scanned, Entered

LEMMA StartScanQueue ==
  ASSUME IInv, QueueInv, NEW v \in Scans, StartScan(v) PROVE QueueInv'
<1>1. PICK newest \in Unscanned \cup {cursor} :
        /\ \A m \in Unscanned : m <= newest
        /\ scan' = [scan EXCEPT ![v] = [todo |-> Unscanned, next |-> newest]]
  BY DEF StartScan
<1>2. /\ scan[v] = None
      /\ UNCHANGED <<inbox, broadcasts, ingests, cursor, outbox, inserts, queued, faults>>
  BY DEF StartScan
<1>3. cursor \in Nat /\ inbox \subseteq Messages /\ Messages \subseteq Nat
  BY UploadAssumption DEF UploadAssumption, IInv, TypeOK
<1>4. newest \in Nat /\ \A m \in inbox : m <= newest \/ m <= cursor
  BY <1>1, <1>3 DEF Unscanned
<1>5. \A m \in inbox : ~(newest < m)
  \* The newest row read is not older than the cursor.
  <2>1. cursor <= newest
    BY <1>1, <1>3 DEF Unscanned
  <2> QED
    BY <1>3, <1>4, <2>1
<1>6. /\ scan'[v].todo = Unscanned /\ scan'[v].next = newest
      /\ \A w \in Scans : w # v => scan'[w] = scan[w]
  BY <1>1 DEF IInv, TypeOK
<1>7. \A i \in ingests : i.by # v
  BY <1>2 DEF QueueInv, Ingested, IngestOfScan
<1>8. Ingested'
  BY <1>2, <1>6, <1>7
     DEF QueueInv, Ingested, OneIngest, IngestOfScan, RowsApart, NoTwinRows, Unheard
<1>9. Received'
  BY <1>2 DEF QueueInv, Received, ReceiverAccount, Asking
<1>10. ASSUME NEW m \in inbox, NEW w \in Scans PROVE ScanAccount(m, w)'
  <2>1. m \in Messages /\ ScanAccount(m, w)
    BY <1>3 DEF QueueInv, Scanned
  <2>2. Others(m, w)' \subseteq Others(m, w)
    BY <1>5, <1>6 DEF Others
  <2>3. CASE w # v
    <3>1. (Due(m, w)' => Due(m, w)) /\ (Behind(m, w)' => Behind(m, w))
      BY <1>2, <1>6, <2>3 DEF Due, Asking, Behind
    <3> QED
      BY <1>2, <2>1, <2>2, <3>1, AccountKept DEF IInv
  <2>4. CASE w = v
    <3>1. ~Due(m, w)
      BY <1>2, <1>7, <2>4 DEF Due, Asking
    <3>2. Due(m, w)' => cursor < m
      BY <1>2, <1>3, <1>6, <1>7, <2>4 DEF Due, Asking, Unscanned
    <3>3. ~Behind(m, w)' \/ cursor < m
      BY <1>2, <1>5, <1>6, <2>4 DEF Behind
    <3>4. ~(Due(m, w)' /\ Behind(m, w)') /\ (Due(m, w)' \/ Behind(m, w)' => Behind(m, w))
      <4>1. CASE scan'[v] = None
        BY <1>2, <1>7, <2>4, <4>1 DEF Due, Asking, Behind
      <4>2. CASE scan'[v] # None
        BY <1>2, <1>5, <1>6, <2>4, <3>2, <4>2 DEF Behind
      <4> QED
        BY <4>1, <4>2
    <3>5. /\ One(Due(m, w)) = 0 /\ One(Due(m, w)') \in 0 .. 1
          /\ One(Behind(m, w)) \in 0 .. 1 /\ One(Behind(m, w)') \in 0 .. 1
          /\ One(Due(m, w)') + One(Behind(m, w)') <= One(Behind(m, w))
      BY <3>1, <3>4 DEF One
    <3>6. /\ Cardinality(Others(m, w)') \in Nat
          /\ Cardinality(Others(m, w)') <= Cardinality(Others(m, w))
      BY <2>1, <2>2, AccountOfScan, NoMore DEF IInv
    <3>7. queued'[m][w] = queued[m][w] /\ faults' = faults
      BY <1>2
    <3> QED
      BY <2>1, <3>5, <3>6, <3>7, AccountOfScan DEF IInv, ScanAccount
  <2> QED
    BY <2>3, <2>4
<1>11. Entered'
  BY <1>2, EnteredKept DEF QueueInv
<1> QED
  BY <1>2, <1>8, <1>9, <1>10, <1>11 DEF QueueInv, Scanned

LEMMA ScanRowQueue ==
  ASSUME IInv, QueueInv, NEW v \in Scans, ScanRow(v) PROVE QueueInv'
<1> DEFINE new(n) == [sms |-> n, at |-> "inbox", by |-> v, step |-> "count"]
<1>1. PICK n \in scan[v].todo :
        /\ scan' = [scan EXCEPT ![v].todo = @ \ {n}]
        /\ ingests' = ingests \cup {new(n)}
  BY DEF ScanRow
<1>2. /\ scan[v] # None /\ \A i \in ingests : i.by # v
      /\ UNCHANGED <<inbox, broadcasts, cursor, outbox, inserts, queued, faults>>
  BY DEF ScanRow, Ingesting
<1>3. new(n).sms = n /\ new(n).by = v /\ new(n).step = "count" /\ new(n).at = "inbox"
  OBVIOUS
<1> HIDE DEF new
<1>4. n \in inbox /\ v \notin Receivers /\ \A c \in Receivers : c # v
  BY <1>2, UploadAssumption DEF UploadAssumption, IInv, ScanSound
<1>5. scan[v] \in [todo : SUBSET Messages, next : Nat]
  BY <1>2 DEF IInv, TypeOK
<1>6. /\ scan'[v] \in [todo : SUBSET Messages, next : Nat]
      /\ scan'[v].todo = scan[v].todo \ {n} /\ scan'[v].next = scan[v].next
      /\ \A w \in Scans : w # v => scan'[w] = scan[w]
  BY <1>1, <1>5 DEF IInv, TypeOK
<1>7. scan'[v] # None
  BY <1>6, UploadAssumption DEF UploadAssumption
<1>8. OneIngest'
  BY <1>1, <1>2, <1>3 DEF QueueInv, Ingested, OneIngest
<1>9. IngestOfScan'
  BY <1>1, <1>2, <1>3, <1>6, <1>7 DEF QueueInv, Ingested, IngestOfScan
<1>10. RowsApart'
  BY <1>1, <1>2, <1>3, <1>4 DEF QueueInv, Ingested, RowsApart, NoTwinRows, Stamp
<1>11. Unheard'
  BY <1>1, <1>2, <1>3, <1>4 DEF QueueInv, Ingested, Unheard
<1>12. Received'
  BY <1>1, <1>2, <1>3, <1>4 DEF QueueInv, Received, ReceiverAccount, Asking
<1>13. ASSUME NEW m \in inbox, NEW w \in Scans PROVE ScanAccount(m, w)'
  <2>1. m \in Messages /\ ScanAccount(m, w)
    BY DEF QueueInv, Scanned, IInv, TypeOK
  <2>2. Due(m, w)' => Due(m, w)
    BY <1>1, <1>2, <1>3, <1>6 DEF Due, Asking
  <2>3. Others(m, w)' \subseteq Others(m, w)
    BY <1>2, <1>6 DEF Others
  <2>4. Behind(m, w)' => Behind(m, w)
    BY <1>2, <1>6, <1>7 DEF Behind
  <2> QED
    BY <1>2, <2>1, <2>2, <2>3, <2>4, AccountKept DEF IInv
<1>14. Entered'
  BY <1>2, EnteredKept DEF QueueInv
<1> QED
  BY <1>2, <1>8, <1>9, <1>10, <1>11, <1>12, <1>13, <1>14 DEF QueueInv, Ingested, Scanned

LEMMA SetInboxScanCursorQueue ==
  ASSUME IInv, QueueInv, NEW v \in Scans, SetInboxScanCursor(v) PROVE QueueInv'
<1>1. /\ scan[v] # None /\ scan[v].todo = {} /\ \A i \in ingests : i.by # v
      /\ cursor' = scan[v].next /\ scan' = [scan EXCEPT ![v] = None]
      /\ UNCHANGED <<inbox, broadcasts, ingests, outbox, inserts, queued, faults>>
  BY DEF SetInboxScanCursor, Ingesting, NextCursor
<1>2. scan'[v] = None /\ \A w \in Scans : w # v => scan'[w] = scan[w]
  BY <1>1 DEF IInv, TypeOK
<1>3. Ingested'
  BY <1>1, <1>2
     DEF QueueInv, Ingested, OneIngest, IngestOfScan, RowsApart, NoTwinRows, Unheard
<1>4. Received'
  BY <1>1 DEF QueueInv, Received, ReceiverAccount, Asking
<1>5. ASSUME NEW m \in inbox, NEW w \in Scans PROVE ScanAccount(m, w)'
  <2>1. m \in Messages /\ ScanAccount(m, w)
    BY DEF QueueInv, Scanned, IInv, TypeOK
  <2>2. Due(m, w)' => Due(m, w)
    BY <1>1, <1>2 DEF Due, Asking
  <2>3. Others(m, w)' \subseteq Others(m, w)
    BY <1>2 DEF Others
  <2>4. CASE w = v \/ ~(scan[v].next < m)
    <3>1. Behind(m, w)' => Behind(m, w)
      BY <1>1, <1>2, <2>4 DEF Behind
    <3> QED
      BY <1>1, <2>1, <2>2, <2>3, <3>1, AccountKept DEF IInv
  <2>5. CASE w # v /\ scan[v].next < m
    \* The cursor may be set back, but not by this scan again.
    <3>1. v \in Others(m, w) /\ Others(m, w)' \subseteq Others(m, w) \ {v}
      BY <1>1, <1>2, <2>5 DEF Others
    <3>2. /\ Cardinality(Others(m, w)') \in Nat
          /\ Cardinality(Others(m, w)') <= Cardinality(Others(m, w)) - 1
      BY <2>1, <3>1, AccountOfScan, OneLess DEF IInv
    <3>3. /\ One(Due(m, w)) \in 0 .. 1 /\ One(Due(m, w)') \in 0 .. 1
          /\ One(Due(m, w)') <= One(Due(m, w))
          /\ One(Behind(m, w)) \in 0 .. 1 /\ One(Behind(m, w)') \in 0 .. 1
      BY <2>2 DEF One
    <3>4. queued'[m][w] = queued[m][w] /\ faults' = faults
      BY <1>1
    <3> QED
      BY <2>1, <3>2, <3>3, <3>4, AccountOfScan DEF IInv, ScanAccount
  <2> QED
    BY <2>4, <2>5
<1>6. Entered'
  BY <1>1, EnteredKept DEF QueueInv
<1> QED
  BY <1>1, <1>3, <1>4, <1>5, <1>6 DEF QueueInv, Scanned

\* A kill, or a scan that is stopped.
LEMMA StopQueue ==
  ASSUME IInv, QueueInv, Kill \/ \E v \in Scans : ScanStopped(v) PROVE QueueInv'
<1>1. /\ UNCHANGED <<inbox, broadcasts, cursor, outbox, inserts, queued>> /\ faults' = faults + 1
      /\ ingests' \subseteq ingests
  BY DEF Kill, ScanStopped
<1>2. \A w \in Scans : /\ scan'[w] = None \/ scan'[w] = scan[w]
                       /\ (\E i \in ingests' : i.by = w) => scan'[w] = scan[w]
  <2>1. CASE Kill
    BY <2>1 DEF Kill
  <2>2. ASSUME NEW v \in Scans, ScanStopped(v)
        PROVE  \A w \in Scans : /\ scan'[w] = None \/ scan'[w] = scan[w]
                                /\ (\E i \in ingests' : i.by = w) => scan'[w] = scan[w]
    <3>1. scan'[v] = None /\ \A w \in Scans : w # v => scan'[w] = scan[w]
      BY <2>2 DEF ScanStopped, IInv, TypeOK
    <3>2. \A i \in ingests' : i.by # v
      BY <2>2 DEF ScanStopped
    <3> QED
      BY <3>1, <3>2
  <2> QED
    BY <2>1, <2>2
<1>3. OneIngest' /\ RowsApart' /\ Unheard'
  BY <1>1 DEF QueueInv, Ingested, OneIngest, RowsApart, NoTwinRows, Unheard
<1>4. IngestOfScan'
  BY <1>1, <1>2 DEF QueueInv, Ingested, IngestOfScan
<1>5. \A m \in Messages, c \in Callers : Asking(m, c)' => Asking(m, c)
  BY <1>1 DEF Asking
<1>6. Received'
  BY <1>1, <1>5 DEF QueueInv, Received, ReceiverAccount, Callers
<1>7. ASSUME NEW m \in inbox, NEW w \in Scans PROVE ScanAccount(m, w)'
  <2>1. m \in Messages /\ w \in Callers /\ ScanAccount(m, w)
    BY DEF QueueInv, Scanned, IInv, TypeOK, Callers
  <2>2. (Due(m, w)' => Due(m, w)) /\ Others(m, w)' \subseteq Others(m, w)
    BY <1>2, <1>5, <2>1 DEF Due, Others
  <2> QED
    BY <1>1, <2>1, <2>2, AccountAfterFault DEF IInv
<1>8. Entered'
  BY <1>1, EnteredKept DEF QueueInv
<1> QED
  BY <1>1, <1>3, <1>4, <1>6, <1>7, <1>8 DEF QueueInv, Ingested, Scanned

\* Every step keeps the accounts of the queue.
LEMMA NextQueueInv == IInv /\ QueueInv /\ [Next]_vars => QueueInv'
<1> SUFFICES ASSUME IInv, QueueInv, [Next]_vars PROVE QueueInv'
  OBVIOUS
<1>1. CASE \E m \in Messages : Arrive(m)
  BY <1>1, ArriveQueue
<1>2. CASE \E m \in Messages, by \in Receivers : OnReceive(m, by)
  BY <1>2, OnReceiveQueue
<1>3. CASE IngestStep
  <2>1. ASSUME NEW i \in ingests, EnqueueUpload(i) PROVE QueueInv'
    BY <2>1, IngestEnds DEF EnqueueUpload
  <2> QED
    BY <1>3, <2>1, CountDuplicatesQueue, InsertQueue DEF IngestStep
<1>4. CASE \E w \in Scans : ScanStep(w)
  BY <1>4, StartScanQueue, ScanRowQueue, SetInboxScanCursorQueue DEF ScanStep
<1>5. CASE \/ HeartbeatTick \/ UploadNothing \/ UploadSend \/ PauseOver \/ HeartbeatRefused
           \/ \E q \in serving : InsertSMSMessage(q) \/ Dropped(q) \/ Failed(q) \/ Unanswered(q)
           \/ UNCHANGED vars
  <2>1. /\ UNCHANGED <<ingestVars, outbox, inserts, queued>>
        /\ faults' = faults \/ faults' = faults + 1
    BY <1>5 DEF HeartbeatTick, UploadNothing, UploadSend, PauseOver, HeartbeatRefused,
       InsertSMSMessage, Dropped, Failed, Unanswered, vars
  <2>2. NoTwinRows'
    BY <2>1 DEF NoTwinRows, QueueInv, Ingested, RowsApart
  <2> QED
    BY <2>1, <2>2, UploadQueue
<1>6. CASE \E q \in serving : Acked(q)
  <2>1. UNCHANGED <<ingestVars, inserts, queued, faults>> /\ outbox' \subseteq outbox
    BY <1>6 DEF Acked
  <2>2. NoTwinRows'
    BY <2>1 DEF NoTwinRows, QueueInv, Ingested, RowsApart
  <2> QED
    BY <2>1, <2>2, UploadQueue
<1>7. CASE UploadGiveUp
  <2>1. PICK B \in SUBSET Pending : outbox' = (outbox \ B) \cup {[r EXCEPT !.cool = TRUE] : r \in B}
    BY <1>7 DEF UploadGiveUp
  <2>2. B \subseteq outbox /\ UNCHANGED <<ingestVars, inserts, queued, faults>>
    BY <1>7 DEF UploadGiveUp, Pending
  <2> QED
    BY <2>1, <2>2, CoolQueue
<1>8. CASE CooldownOver
  <2>1. PICK r \in outbox : outbox' = (outbox \ {r}) \cup {[r EXCEPT !.cool = FALSE]}
    BY <1>8 DEF CooldownOver
  <2>2. outbox' = (outbox \ {r}) \cup {[o EXCEPT !.cool = FALSE] : o \in {r}}
    BY <2>1
  <2>3. {r} \subseteq outbox /\ UNCHANGED <<ingestVars, inserts, queued, faults>>
    BY <1>8 DEF CooldownOver
  <2> QED
    BY <2>2, <2>3, CoolQueue
<1>9. CASE Kill \/ \E w \in Scans : ScanStopped(w)
  BY <1>9, StopQueue
<1> QED
  BY <1>1, <1>2, <1>3, <1>4, <1>5, <1>6, <1>7, <1>8, <1>9 DEF Next, UploadStep, ServeStep

-----------------------------------------------------------------------------
(* The copies.                                                             *)

\* What each caller has queued bounds what was inserted.
LEMMA InsertsBounded ==
  ASSUME TypeOK, Entered, NEW m \in Messages, NEW k \in Nat,
         \A c \in Receivers : queued[m][c] <= 1,
         \A w \in Scans : queued[m][w] <= k
  PROVE  inserts[m] <= Cardinality(Receivers) + Cardinality(Scans) * k
<1> DEFINE R == Receivers \X {0}
           S == Scans \X (0 .. k - 1)
<1>1. /\ IsFiniteSet(Receivers) /\ IsFiniteSet(Scans)
      /\ Cardinality(Receivers) \in Nat /\ Cardinality(Scans) \in Nat
  BY UploadAssumption, FS_CardinalityType DEF UploadAssumption
<1>2. /\ IsFiniteSet({0}) /\ Cardinality({0}) = 1
      /\ IsFiniteSet(0 .. k - 1) /\ Cardinality(0 .. k - 1) = k
  <2>1. IsFiniteSet({0}) /\ Cardinality({0}) = 1
    BY FS_Singleton
  <2>2. 0 \in Int /\ k - 1 \in Int
    OBVIOUS
  <2>3. /\ IsFiniteSet(0 .. k - 1)
        /\ Cardinality(0 .. k - 1) = IF 0 > k - 1 THEN 0 ELSE (k - 1) - 0 + 1
    BY ONLY <2>2, FS_Interval
  <2> QED
    BY <2>1, <2>3
<1>3. /\ IsFiniteSet(R) /\ Cardinality(R) = Cardinality(Receivers)
      /\ IsFiniteSet(S) /\ Cardinality(S) = Cardinality(Scans) * k
  <2>1. IsFiniteSet(R) /\ Cardinality(R) = Cardinality(Receivers) * Cardinality({0})
    BY <1>1, <1>2, FS_Product
  <2>2. IsFiniteSet(S) /\ Cardinality(S) = Cardinality(Scans) * Cardinality(0 .. k - 1)
    BY <1>1, <1>2, FS_Product
  <2> HIDE DEF R, S
  <2> QED
    BY <1>1, <1>2, <2>1, <2>2
<1>4. Entries(m) \subseteq R \cup S
  <2> SUFFICES ASSUME NEW c \in Callers, NEW n \in Nat, n < queued[m][c]
               PROVE  <<c, n>> \in R \cup S
    BY DEF Entries
  <2>1. queued[m][c] \in Nat
    BY DEF TypeOK
  <2>2. CASE c \in Receivers
    BY <2>1, <2>2
  <2>3. CASE c \in Scans
    BY <2>1, <2>3
  <2> QED
    BY <2>2, <2>3 DEF Callers
<1> HIDE DEF R, S
<1>5. /\ IsFiniteSet(R \cup S)
      /\ Cardinality(R \cup S) = Cardinality(R) + Cardinality(S) - Cardinality(R \cap S)
  BY <1>3, FS_Union
<1>6. Cardinality(R \cap S) \in Nat
  BY <1>3, NoMore
<1>7. Cardinality(Entries(m)) <= Cardinality(R \cup S) /\ Cardinality(Entries(m)) \in Nat
  BY <1>4, <1>5, NoMore
<1>8. Cardinality(Scans) * k \in Nat
  BY <1>1
<1> QED
  BY <1>1, <1>3, <1>5, <1>6, <1>7, <1>8 DEF Entered

\* SmsIngestService, InboxSyncWorker, SmsUploadWorker and SMSHandler: however
\* broadcasts, scans and kills interleave, each receiver queues an SMS at most once and
\* each scan at most once for every scan and fault; each row that was queued is
\* stored once, and at most once more for each fault.
THEOREM CopiesAreAccounted == Spec => []CopiesAccounted
<1>1. IInv /\ CopyInv /\ QueueInv => CopiesAccounted
  <2> SUFFICES ASSUME IInv, CopyInv, QueueInv PROVE CopiesAccounted
    OBVIOUS
  <2>1. NoTwinRows
    BY DEF QueueInv, Ingested, RowsApart
  <2>2. ASSUME NEW m \in Messages
        PROVE  /\ \A c \in Receivers : queued[m][c] <= 1
               /\ \A w \in Scans : queued[m][w] <= Cardinality(Scans) + faults
    <3>1. \A c \in Receivers : queued[m][c] <= 1
      BY DEF QueueInv, Received, ReceiverAccount
    <3>2. ASSUME NEW w \in Scans PROVE queued[m][w] <= Cardinality(Scans) + faults
      <4>1. /\ queued[m][w] \in Nat /\ Cardinality(Scans) \in Nat /\ faults \in Nat
            /\ Cardinality(Others(m, w)) \in Nat
        BY AccountOfScan DEF IInv
      <4>2. CASE m \in inbox
        <5>1. ScanAccount(m, w)
          BY <4>2 DEF QueueInv, Scanned
        <5>2. One(Due(m, w)) \in 0 .. 1 /\ One(Behind(m, w)) \in 0 .. 1
          BY DEF One
        <5> QED
          BY <4>1, <5>1, <5>2 DEF ScanAccount
      <4>3. CASE m \notin inbox
        <5>1. queued[m][w] = 0
          BY <4>3 DEF QueueInv, Ingested, Unheard, Callers
        <5> QED
          BY <4>1, <5>1
      <4> QED
        BY <4>2, <4>3
    <3> QED
      BY <3>1, <3>2
  <2>3. Cardinality(Scans) + faults \in Nat
    BY UploadAssumption, FS_CardinalityType DEF UploadAssumption, IInv, TypeOK
  <2>4. \A m \in Messages :
          inserts[m] <= Cardinality(Receivers) + Cardinality(Scans) * (Cardinality(Scans) + faults)
    BY <2>2, <2>3, InsertsBounded DEF IInv, QueueInv
  <2>5. ASSUME NEW m \in Messages PROVE copies[m] <= inserts[m] * (1 + faults)
    BY AccountTyped DEF IInv
  <2> QED
    BY <2>1, <2>2, <2>4, <2>5 DEF CopiesAccounted
<1> QED
  BY <1>1, UploadInvariant, InitCopyInv, NextCopyInv, InitQueueInv, NextQueueInv, PTL DEF Spec
=============================================================================
