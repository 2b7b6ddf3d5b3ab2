-------------------------- MODULE Onboarding_proofs --------------------------
(***************************************************************************)
(* Proofs about Onboarding: the inductive invariant, and from it that a    *)
(* verified request has created its profile, what a verified profile and   *)
(* one over the limit of the plan are owed to, and what a merchant is told *)
(* of a request, for any merchants, numbers, requests and bounds.          *)
(***************************************************************************)
EXTENDS Onboarding, FiniteSetTheorems, TLAPS

-----------------------------------------------------------------------------
(* Counting.                                                               *)

LEMMA CountedFinite ==
  \A m : /\ IsFiniteSet(Counted(m)) /\ Cardinality(Counted(m)) \in Nat
         /\ IsFiniteSet(Unverified(m)) /\ Cardinality(Unverified(m)) \in Nat
         /\ Cardinality(Unverified(m)) <= Cardinality(Counted(m))
<1> TAKE m
<1>1. Counted(m) \in SUBSET Numbers /\ Unverified(m) \in SUBSET Counted(m)
  BY DEF Counted, Unverified
<1> QED
  BY <1>1, OnboardingAssumption, FS_Subset, FS_CardinalityType DEF OnboardingAssumption

\* What a row of a number that had none adds to the count.
LEMMA AddUnverified ==
  ASSUME NEW m, NEW n \in Numbers, n \notin Unverified(m),
         Unverified(m)' = Unverified(m) \cup {n}
  PROVE  Cardinality(Unverified(m)') = Cardinality(Unverified(m)) + 1
BY CountedFinite, FS_AddElement

-----------------------------------------------------------------------------
(* The initial state.                                                      *)

LEMMA InitInv == Init => IInv
<1> SUFFICES ASSUME Init PROVE IInv
  OBVIOUS
<1> USE OnboardingAssumption DEF OnboardingAssumption, Init
<1>1. TypeOK
  BY DEF TypeOK, Statuses
<1>2. RequestPart /\ MatchPart /\ VerifiedHasProfile
  BY DEF RequestPart, MatchPart, VerifiedHasProfile
<1>3. OwnerPart /\ ProfileAccounted
  BY DEF OwnerPart, ProfileAccounted, Row
<1>4. LimitAccounted
  <2> SUFFICES ASSUME NEW m \in Merchants, Limit # 0
               PROVE  Cardinality(Unverified(m)) + creating[m]
                        <= Limit + overlaps[m] + faults
    BY DEF LimitAccounted
  <2>1. Unverified(m) = {}
    BY DEF Unverified, Counted, Row
  <2> QED
    BY <2>1, FS_EmptySet
<1> QED
  BY <1>1, <1>2, <1>3, <1>4 DEF IInv

-----------------------------------------------------------------------------
(* What the steps have in common.                                          *)

\* Rows are written once, and requests are never changed.
RowsStay ==
  /\ \A m \in Merchants, n \in Numbers : Row(m, n) # None => Row(m, n)' = Row(m, n)
  /\ \A v \in Verifications :
       status[v] # "none" => status'[v] # "none" /\ request'[v] = request[v]

LEMMA CreatedStays ==
  ASSUME TypeOK, RequestPart, RowsStay, NEW v \in Verifications, status[v] # "none",
         Created(v)
  PROVE  Created(v)'
<1>1. request[v] \in Requests /\ request'[v] = request[v]
  BY DEF RequestPart, RowsStay
<1>2. request[v].merchant \in Merchants /\ request[v].number \in Numbers
  BY <1>1, OnboardingAssumption DEF OnboardingAssumption
<1>3. Row(request[v].merchant, request[v].number)' = Row(request[v].merchant, request[v].number)
  BY <1>1, <1>2 DEF RowsStay, Created, Row
<1> QED
  BY <1>1, <1>3 DEF Created, Row

\* What MatchPart says of a call stays true while the call stays where it is.
LEMMA MatchStays ==
  ASSUME TypeOK, RequestPart, MatchPart, RowsStay, NEW d \in Matches,
         match'[d] = match[d], found'[d] = found[d]
  PROVE  /\ match'[d] \in {"create", "mark"} =>
              found'[d] \in Verifications /\ status'[found'[d]] # "none"
         /\ match'[d] = "mark" => Created(found[d])'
<1>1. ASSUME match[d] \in {"create", "mark"}
      PROVE  found'[d] \in Verifications /\ status'[found'[d]] # "none"
  <2>1. found[d] \in Verifications /\ status[found[d]] # "none"
    BY <1>1 DEF MatchPart
  <2> QED
    BY <2>1 DEF RowsStay
<1>2. ASSUME match[d] = "mark" PROVE Created(found[d])'
  <2>1. PICK v \in Verifications : v = found[d] /\ status[v] # "none" /\ Created(v)
    BY <1>2 DEF MatchPart
  <2>2. Created(v)'
    BY <2>1, CreatedStays
  <2> QED
    BY <2>1, <2>2 DEF Created, Row
<1> QED
  BY <1>1, <1>2

\* A step that leaves the profiles alone, with what it adds to the counters.
LEMMA LimitUnchanged ==
  ASSUME TypeOK, LimitAccounted, profile' = profile, faults' \in Nat, faults' >= faults,
         \A m \in Merchants :
           /\ creating'[m] \in Nat /\ overlaps'[m] \in Nat
           /\ creating'[m] <= creating[m]
           /\ overlaps'[m] >= overlaps[m]
  PROVE  LimitAccounted'
<1> SUFFICES ASSUME NEW m \in Merchants, Limit # 0
             PROVE  Cardinality(Unverified(m))' + creating'[m]
                      <= Limit + overlaps'[m] + faults'
  BY DEF LimitAccounted
<1>1. Unverified(m)' = Unverified(m)
  BY DEF Unverified, Counted, Row
<1>2. Cardinality(Unverified(m)) + creating[m] <= Limit + overlaps[m] + faults
  BY DEF LimitAccounted
<1>3. /\ creating[m] \in Nat /\ overlaps[m] \in Nat /\ faults \in Nat /\ Limit \in Nat
      /\ Cardinality(Unverified(m)) \in Nat
  BY CountedFinite, OnboardingAssumption DEF TypeOK, OnboardingAssumption
<1> QED
  BY <1>1, <1>2, <1>3

LEMMA AccountedStays ==
  ASSUME ProfileAccounted, profile' = profile, faults' = faults,
         \A v : status[v] = "verified" => status'[v] = "verified",
         \A c \in Matches :
           match[c] = "mark" => match'[c] = "mark" /\ found'[c] = found[c]
  PROVE  ProfileAccounted'
BY DEF ProfileAccounted, Row

\* A step that neither creates a profile nor finds or marks a request.
LEMMA Quiet ==
  ASSUME IInv, TypeOK', RequestPart', profile' = profile, RowsStay, faults' >= faults,
         \A v \in Verifications :
           (status[v] = "verified") <=> (status'[v] = "verified"),
         \A c \in Matches :
           \/ match'[c] = match[c] /\ found'[c] = found[c]
           \/ match'[c] = "failed" /\ faults' > 0,
         LimitAccounted'
  PROVE  IInv'
<1> USE DEF IInv
<1>1. MatchPart'
  BY CreatedStays DEF MatchPart, RowsStay, TypeOK
<1>2. OwnerPart'
  BY DEF OwnerPart, Row
<1>3. VerifiedHasProfile'
  BY CreatedStays DEF VerifiedHasProfile
<1>4. ProfileAccounted'
  BY SMTT(30) DEF ProfileAccounted, OwnerPart, Row, TypeOK
<1> QED
  BY <1>1, <1>2, <1>3, <1>4

-----------------------------------------------------------------------------
(* Types.                                                                  *)

LEMMA PutType ==
  ASSUME TypeOK, NEW m \in Merchants, NEW n \in Numbers, NEW row \in Profiles,
         PutRow(m, n, row)
  PROVE  profile' \in [Merchants -> [Numbers -> Profiles \cup {None}]]
BY DEF TypeOK, PutRow

LEMMA TypeStep == IInv /\ [Next]_vars => TypeOK'
<1> SUFFICES ASSUME IInv, [Next]_vars PROVE TypeOK'
  OBVIOUS
<1> USE OnboardingAssumption
    DEF OnboardingAssumption, IInv, TypeOK, otpVars, callVars, planVars, Statuses
<1>1. ASSUME NEW v \in Verifications, NEW q \in Requests, StartVerification(v, q)
      PROVE  TypeOK'
  BY <1>1 DEF StartVerification
<1>2. ASSUME NEW v \in Verifications, Lapse(v) PROVE TypeOK'
  BY <1>2 DEF Lapse
<1>3. CASE ExpireOldOTPs
  BY <1>3 DEF ExpireOldOTPs
<1>4. ASSUME NEW c \in Matches, NEW n \in Numbers, NEW p \in Providers,
             NEW type \in AccountTypes \cup {None}, GetPendingOTPByNumber(c, n, p, type)
      PROVE  TypeOK'
  BY <1>4 DEF GetPendingOTPByNumber, Pending
<1>5. ASSUME NEW c \in Matches, CreateVerified(c) PROVE TypeOK'
  <2>1. request[found[c]] \in Requests /\ found[c] \in Verifications
    BY <1>5 DEF CreateVerified, MatchPart, RequestPart
  <2>2. [provider |-> request[found[c]].provider, type |-> request[found[c]].type,
         is_otp_verified |-> TRUE, by |-> found[c]] \in Profiles
    BY <2>1 DEF Profiles
  <2>3. profile' \in [Merchants -> [Numbers -> Profiles \cup {None}]]
    BY <1>5, <2>1, <2>2, PutType DEF CreateVerified
  <2>4. match' \in [Matches -> {"idle", "create", "mark", "done", "failed"}]
    BY <1>5 DEF CreateVerified
  <2> QED
    BY <1>5, <2>3, <2>4 DEF CreateVerified
<1>6. ASSUME NEW c \in Matches, MarkOTPVerified(c) PROVE TypeOK'
  BY <1>6 DEF MarkOTPVerified
<1>7. ASSUME NEW c \in Matches, MatchFault(c) PROVE TypeOK'
  BY <1>7 DEF MatchFault, Fault
<1>8. ASSUME NEW q \in Requests, CheckLimit(q.merchant) PROVE TypeOK'
  <2>1. faults' \in 0 .. MaxFaults
    BY <1>8 DEF CheckLimit, Fault
  <2> QED
    BY <1>8, <2>1 DEF CheckLimit
<1>9. ASSUME NEW q \in Requests, Create(q) PROVE TypeOK'
  <2>1. [provider |-> q.provider, type |-> q.type, is_otp_verified |-> FALSE, by |-> 0]
          \in Profiles
    BY DEF Profiles
  <2>2. profile' \in [Merchants -> [Numbers -> Profiles \cup {None}]]
    BY <1>9, <2>1, PutType DEF Create
  <2>3. q.merchant \in Merchants /\ creating' \in [Merchants -> Nat]
    BY <1>9 DEF Create
  <2> QED
    BY <1>9, <2>2, <2>3 DEF Create
<1>10. ASSUME NEW q \in Requests, CreateRefused(q.merchant) PROVE TypeOK'
  BY <1>10 DEF CreateRefused
<1>11. CASE UNCHANGED vars
  BY <1>11 DEF vars
<1> QED
  BY <1>1, <1>2, <1>3, <1>4, <1>5, <1>6, <1>7, <1>8, <1>9, <1>10, <1>11
  DEF Next, RequestStep, MatchStep, CreateStep

-----------------------------------------------------------------------------
(* The steps.                                                              *)

LEMMA StartVerificationInv ==
  ASSUME IInv, TypeOK', NEW v \in Verifications, NEW q \in Requests,
         StartVerification(v, q)
  PROVE  IInv'
<1> USE DEF IInv, StartVerification, otpVars, callVars, planVars
<1>1. RowsStay
  BY DEF RowsStay, TypeOK, Row
<1>2. RequestPart'
  BY DEF RequestPart, TypeOK
<1>3. LimitAccounted'
  BY LimitUnchanged DEF TypeOK
<1> QED
  BY <1>1, <1>2, <1>3, Quiet DEF TypeOK

LEMMA LapseInv ==
  ASSUME IInv, TypeOK', NEW v \in Verifications, Lapse(v)
  PROVE  IInv'
<1> USE DEF IInv, Lapse, callVars, planVars
<1>1. RowsStay /\ RequestPart'
  BY DEF RowsStay, RequestPart, Row
<1>2. LimitAccounted'
  BY LimitUnchanged DEF TypeOK
<1> QED
  BY <1>1, <1>2, Quiet DEF TypeOK

LEMMA ExpireInv ==
  ASSUME IInv, TypeOK', ExpireOldOTPs
  PROVE  IInv'
<1> USE DEF IInv, ExpireOldOTPs, callVars, planVars
<1>1. RowsStay /\ RequestPart'
  BY DEF RowsStay, RequestPart, Row, Old
<1>2. LimitAccounted'
  BY LimitUnchanged DEF TypeOK
<1> QED
  BY <1>1, <1>2, Quiet DEF TypeOK, Old

LEMMA FindInv ==
  ASSUME IInv, TypeOK', NEW c \in Matches, NEW n, NEW p, NEW type,
         GetPendingOTPByNumber(c, n, p, type)
  PROVE  IInv'
<1> USE DEF IInv, GetPendingOTPByNumber, otpVars, planVars
<1>1. RowsStay /\ RequestPart'
  BY DEF RowsStay, RequestPart, Row
<1>2. LimitAccounted'
  BY LimitUnchanged DEF TypeOK
<1>3. PICK v \in Pending(n, p) :
        /\ found' = [found EXCEPT ![c] = v]
        /\ match'[c] \in {"create", "failed"}
        /\ \A d \in Matches \ {c} : match'[d] = match[d]
  BY DEF TypeOK
<1>4. v \in Verifications /\ status[v] # "none"
  BY DEF Pending
<1>5. MatchPart'
  <2> SUFFICES ASSUME NEW d \in Matches
               PROVE  /\ match'[d] \in {"create", "mark"} =>
                           found'[d] \in Verifications /\ status'[found'[d]] # "none"
                      /\ match'[d] = "mark" => Created(found[d])'
    BY DEF MatchPart, Created, Row
  <2>1. CASE d = c
    <3>1. found'[c] = v /\ status' = status
      BY <1>3 DEF TypeOK
    <3> QED
      BY <2>1, <3>1, <1>3, <1>4
  <2>2. CASE d # c
    <3>1. match'[d] = match[d] /\ found'[d] = found[d]
      BY <2>2, <1>3 DEF TypeOK
    <3> QED
      BY <3>1, <1>1, MatchStays
  <2> QED
    BY <2>1, <2>2
<1>6. OwnerPart' /\ VerifiedHasProfile'
  BY DEF OwnerPart, VerifiedHasProfile, Created, Row
<1>7. ProfileAccounted'
  BY <1>3, AccountedStays DEF TypeOK
<1> QED
  BY <1>1, <1>2, <1>5, <1>6, <1>7

\* A row that is written where there was none.
LEMMA Put ==
  ASSUME TypeOK, NEW m \in Merchants, NEW n \in Numbers, NEW row, row \in Profiles,
         row # None, Row(m, n) = None, PutRow(m, n, row)
  PROVE  /\ Row(m, n)' = row
         /\ \A k \in Merchants, o \in Numbers : (k # m \/ o # n) => Row(k, o)' = Row(k, o)
         /\ \A k \in Merchants, o \in Numbers : Row(k, o) # None => Row(k, o)' = Row(k, o)
BY DEF TypeOK, PutRow, Row

LEMMA CreateVerifiedInv ==
  ASSUME IInv, TypeOK', NEW c \in Matches, CreateVerified(c)
  PROVE  IInv'
<1> USE DEF IInv, otpVars, planVars
<1>1. CASE match' = [match EXCEPT ![c] = "failed"] /\ UNCHANGED profile
  <2>1. RowsStay /\ RequestPart'
    BY <1>1 DEF CreateVerified, RowsStay, RequestPart, Row
  <2>2. LimitAccounted'
    BY <1>1, LimitUnchanged DEF TypeOK, CreateVerified
  <2>3. MatchPart'
    BY <1>1 DEF MatchPart, TypeOK, Created, Row, CreateVerified
  <2>4. OwnerPart' /\ VerifiedHasProfile'
    BY <1>1 DEF OwnerPart, VerifiedHasProfile, Created, Row, CreateVerified
  <2>5. ProfileAccounted'
    BY <1>1, AccountedStays DEF TypeOK, CreateVerified
  <2> QED
    BY <2>1, <2>2, <2>3, <2>4, <2>5
<1>2. CASE match' = [match EXCEPT ![c] = "mark"]
  <2>2. /\ match[c] = "create"
        /\ found[c] \in Verifications /\ status[found[c]] # "none"
        /\ request[found[c]] \in Requests
    BY <1>2 DEF CreateVerified, MatchPart, RequestPart
  <2>14. PICK q \in Requests : q = request[found[c]]
    BY <2>2
  <2>3. q.merchant \in Merchants /\ q.number \in Numbers
    BY OnboardingAssumption DEF OnboardingAssumption
  <2>13. PICK row \in Profiles :
           row = [provider |-> q.provider, type |-> q.type,
                  is_otp_verified |-> TRUE, by |-> found[c]]
    BY <2>2, OnboardingAssumption DEF OnboardingAssumption, Profiles
  <2>4. row # None
    BY OnboardingAssumption DEF OnboardingAssumption
  <2>1. /\ Row(q.merchant, q.number) = None
        /\ PutRow(q.merchant, q.number, row)
        /\ UNCHANGED <<status, request, lapsed, found, creating, overlaps, faults>>
    BY <1>2, <2>14, <2>13 DEF CreateVerified, TypeOK
  <2>5. /\ Row(q.merchant, q.number)' = row
        /\ \A k \in Merchants, o \in Numbers :
             (k # q.merchant \/ o # q.number) => Row(k, o)' = Row(k, o)
        /\ \A k \in Merchants, o \in Numbers : Row(k, o) # None => Row(k, o)' = Row(k, o)
    BY <2>1, <2>3, <2>4, Put
  <2>6. RowsStay /\ RequestPart'
    BY <2>1, <2>5 DEF RowsStay, RequestPart
  <2>7. Created(found[c])' /\ found' = found
    <3>1. request'[found'[c]] = q /\ found' = found
      BY <2>1, <2>14
    <3>2. row.by = found'[c] /\ row.is_otp_verified
          /\ row.provider = q.provider /\ row.type = q.type
      BY <2>13, <3>1
    <3>3. profile'[q.merchant][q.number] = row
      BY <2>5 DEF Row
    <3> QED
      BY <2>4, <3>1, <3>2, <3>3 DEF Created, Row
  <2>8. MatchPart'
    <3> SUFFICES ASSUME NEW d \in Matches
                 PROVE  /\ match'[d] \in {"create", "mark"} =>
                             found'[d] \in Verifications /\ status'[found'[d]] # "none"
                        /\ match'[d] = "mark" => Created(found[d])'
      BY <2>1 DEF MatchPart, Created, Row
    <3>1. CASE d = c
      BY <3>1, <2>1, <2>2, <2>7
    <3>2. CASE d # c
      <4>1. match'[d] = match[d] /\ found'[d] = found[d]
        BY <3>2, <1>2, <2>1 DEF TypeOK
      <4> QED
        BY <4>1, <2>6, MatchStays
    <3> QED
      BY <3>1, <3>2
  <2>9. OwnerPart'
    <3> SUFFICES ASSUME NEW k \in Merchants, NEW o \in Numbers,
                        Row(k, o)' # None, Row(k, o)'.is_otp_verified
                 PROVE  Row(k, o)'.by \in Verifications
      BY DEF OwnerPart, Row
    <3>1. CASE k = q.merchant /\ o = q.number
      BY <3>1, <2>2, <2>5, <2>13
    <3>2. CASE k # q.merchant \/ o # q.number
      BY <3>2, <2>5 DEF OwnerPart
    <3> QED
      BY <3>1, <3>2
  <2>10. VerifiedHasProfile'
    BY <2>1, <2>6, CreatedStays DEF VerifiedHasProfile
  <2>11. ProfileAccounted'
    <3> SUFFICES ASSUME NEW k \in Merchants, NEW o \in Numbers,
                        Row(k, o)' # None, Row(k, o)'.is_otp_verified
                 PROVE  \/ status'[Row(k, o)'.by] = "verified"
                        \/ \E d \in Matches : match'[d] = "mark" /\ found'[d] = Row(k, o)'.by
                        \/ faults' > 0
      BY DEF ProfileAccounted, Row
    <3>1. CASE k = q.merchant /\ o = q.number
      BY <3>1, <1>2, <2>1, <2>5, <2>13 DEF TypeOK
    <3>2. CASE k # q.merchant \/ o # q.number
      BY <3>2, <1>2, <2>1, <2>5 DEF ProfileAccounted, TypeOK
    <3> QED
      BY <3>1, <3>2
  <2>12. LimitAccounted'
    <3> SUFFICES ASSUME NEW m \in Merchants, Limit # 0
                 PROVE  Cardinality(Unverified(m)') + creating'[m]
                          <= Limit + overlaps'[m] + faults'
      BY DEF LimitAccounted
    <3>1. Unverified(m)' = Unverified(m)
      <4>1. ASSUME NEW n \in Numbers PROVE n \in Unverified(m)' <=> n \in Unverified(m)
        <5>1. CASE m = q.merchant /\ n = q.number
          BY <5>1, <2>1, <2>5, <2>13 DEF Unverified, Counted
        <5>2. CASE m # q.merchant \/ n # q.number
          BY <5>2, <2>5 DEF Unverified, Counted
        <5> QED
          BY <5>1, <5>2
      <4> QED
        BY <4>1 DEF Unverified, Counted
    <3> QED
      BY <3>1, <2>1 DEF LimitAccounted
  <2> QED
    BY <2>6, <2>8, <2>9, <2>10, <2>11, <2>12
<1> QED
  BY <1>1, <1>2 DEF CreateVerified

LEMMA MarkInv ==
  ASSUME IInv, TypeOK', NEW c \in Matches, MarkOTPVerified(c)
  PROVE  IInv'
<1> USE DEF IInv, MarkOTPVerified, planVars
<1>1. found[c] \in Verifications /\ status[found[c]] # "none" /\ Created(found[c])
  BY DEF MatchPart
<1>2. RowsStay /\ RequestPart'
  BY <1>1 DEF RowsStay, RequestPart, Row, TypeOK, otpVars
<1>3. MatchPart'
  <2>1. ASSUME NEW d \in Matches
        PROVE  /\ match'[d] \in {"create", "mark"} =>
                    found'[d] \in Verifications /\ status'[found'[d]] # "none"
               /\ match'[d] = "mark" => Created(found[d])'
    <3>1. match'[c] = "done" /\ found' = found
      BY DEF TypeOK
    <3>2. d # c => match'[d] = match[d]
      BY DEF TypeOK
    <3> QED
      BY <1>2, <3>1, <3>2, MatchStays
  <2> QED
    BY <2>1 DEF MatchPart, Created, Row
<1>4. OwnerPart'
  BY DEF OwnerPart, Row
<1>5. VerifiedHasProfile'
  <2>1. ASSUME NEW v \in Verifications, status'[v] = "verified" PROVE Created(v)
    BY <1>1, <2>1 DEF VerifiedHasProfile, TypeOK
  <2>2. request' = request /\ profile' = profile
    OBVIOUS
  <2> QED
    BY <2>1, <2>2 DEF VerifiedHasProfile, Created, Row
<1>6. ProfileAccounted'
  BY <1>1 DEF ProfileAccounted, OwnerPart, Row, TypeOK
<1>7. LimitAccounted'
  BY LimitUnchanged DEF TypeOK
<1> QED
  BY <1>2, <1>3, <1>4, <1>5, <1>6, <1>7

LEMMA MatchFaultInv ==
  ASSUME IInv, TypeOK', NEW c \in Matches, MatchFault(c)
  PROVE  IInv'
<1> USE DEF IInv, MatchFault, Fault, otpVars, planVars
<1>1. RowsStay /\ RequestPart'
  BY DEF RowsStay, RequestPart, Row
<1>2. faults \in Nat /\ faults' \in Nat /\ faults' >= faults /\ faults' > 0
  BY OnboardingAssumption DEF TypeOK, OnboardingAssumption
<1>3. LimitAccounted'
  BY <1>2, LimitUnchanged DEF TypeOK
<1> QED
  BY <1>1, <1>2, <1>3, Quiet DEF TypeOK

LEMMA CheckLimitInv ==
  ASSUME IInv, TypeOK', NEW m \in Merchants, CheckLimit(m)
  PROVE  IInv'
<1> USE DEF IInv, CheckLimit, otpVars, callVars
<1>1. RowsStay /\ RequestPart'
  BY DEF RowsStay, RequestPart, Row
<1>2. /\ faults \in Nat /\ faults' \in Nat /\ faults' >= faults
      /\ ~Reached(m) \/ faults' = faults + 1
  BY OnboardingAssumption DEF TypeOK, OnboardingAssumption, Fault
<1>3. LimitAccounted'
  <2> SUFFICES ASSUME NEW k \in Merchants, Limit # 0
               PROVE  Cardinality(Unverified(k)') + creating'[k]
                        <= Limit + overlaps'[k] + faults'
    BY DEF LimitAccounted
  <2>1. Unverified(k)' = Unverified(k)
    BY DEF Unverified, Counted, Row
  <2>2. Cardinality(Unverified(k)) + creating[k] <= Limit + overlaps[k] + faults
    BY DEF LimitAccounted
  <2>3. /\ creating[k] \in Nat /\ overlaps[k] \in Nat /\ Limit \in Nat
        /\ Cardinality(Unverified(k)) \in Nat /\ Cardinality(Counted(k)) \in Nat
        /\ Cardinality(Unverified(k)) <= Cardinality(Counted(k))
    BY CountedFinite, OnboardingAssumption DEF TypeOK, OnboardingAssumption
  <2>4. CASE k # m
    BY <1>2, <2>1, <2>2, <2>3, <2>4 DEF TypeOK
  <2>5. CASE k = m /\ creating[m] > 0
    <3>1. creating'[k] = creating[k] + 1 /\ overlaps'[k] = overlaps[k] + 1
      BY <2>5 DEF TypeOK
    <3> QED
      BY <3>1, <1>2, <2>1, <2>2, <2>3
  <2>6. CASE k = m /\ ~(creating[m] > 0)
    <3>1. creating[k] = 0 /\ creating'[k] = 1 /\ overlaps'[k] = overlaps[k]
      BY <2>6, <2>3 DEF TypeOK
    <3>2. CASE ~Reached(m)
      BY <3>1, <3>2, <2>6, <1>2, <2>1, <2>3 DEF Reached
    <3>3. CASE faults' = faults + 1
      BY <3>1, <3>3, <1>2, <2>1, <2>2, <2>3
    <3> QED
      BY <3>2, <3>3, <1>2
  <2> QED
    BY <2>4, <2>5, <2>6
<1> QED
  BY <1>1, <1>2, <1>3, Quiet DEF TypeOK

LEMMA CreateInv ==
  ASSUME IInv, TypeOK', NEW q \in Requests, Create(q)
  PROVE  IInv'
<1> DEFINE row == [provider |-> q.provider, type |-> q.type, is_otp_verified |-> FALSE, by |-> 0]
<1> USE DEF IInv
<1>1. /\ Row(q.merchant, q.number) = None
      /\ PutRow(q.merchant, q.number, row)
      /\ creating[q.merchant] > 0
      /\ creating' = [creating EXCEPT ![q.merchant] = @ - 1]
      /\ UNCHANGED <<status, request, lapsed, match, found, overlaps, faults>>
  BY DEF Create, otpVars, callVars
<1>2. q.merchant \in Merchants /\ q.number \in Numbers
  BY OnboardingAssumption DEF OnboardingAssumption
<1>3. row \in Profiles /\ row # None
  <2>1. row \in Profiles
    BY OnboardingAssumption DEF OnboardingAssumption, Profiles
  <2> HIDE DEF row
  <2> QED
    BY <2>1, OnboardingAssumption DEF OnboardingAssumption
<1>4. /\ Row(q.merchant, q.number)' = row
      /\ \A k \in Merchants, o \in Numbers :
           (k # q.merchant \/ o # q.number) => Row(k, o)' = Row(k, o)
      /\ \A k \in Merchants, o \in Numbers : Row(k, o) # None => Row(k, o)' = Row(k, o)
  BY <1>1, <1>2, <1>3, Put
<1>5. ~row.is_otp_verified
  OBVIOUS
<1> HIDE DEF row
<1>6. RowsStay /\ RequestPart'
  BY <1>1, <1>4 DEF RowsStay, RequestPart
<1>7. MatchPart'
  <2>1. ASSUME NEW d \in Matches
        PROVE  /\ match'[d] \in {"create", "mark"} =>
                    found'[d] \in Verifications /\ status'[found'[d]] # "none"
               /\ match'[d] = "mark" => Created(found[d])'
    BY <1>1, <1>6, MatchStays
  <2> QED
    BY <2>1 DEF MatchPart, Created, Row
<1>8. OwnerPart' /\ ProfileAccounted'
  BY <1>1, <1>4, <1>5 DEF OwnerPart, ProfileAccounted, Row
<1>9. VerifiedHasProfile'
  BY <1>1, <1>6, CreatedStays DEF VerifiedHasProfile
<1>10. LimitAccounted'
  <2> SUFFICES ASSUME NEW m \in Merchants, Limit # 0
               PROVE  Cardinality(Unverified(m)') + creating'[m]
                        <= Limit + overlaps'[m] + faults'
    BY DEF LimitAccounted
  <2>1. Cardinality(Unverified(m)) + creating[m] <= Limit + overlaps[m] + faults
    BY DEF LimitAccounted
  <2>2. CASE m # q.merchant
    <3>1. Unverified(m)' = Unverified(m) /\ creating'[m] = creating[m]
      BY <2>2, <1>1, <1>2, <1>4 DEF Unverified, Counted, TypeOK
    <3> QED
      BY <3>1, <2>1, <1>1
  <2>3. CASE m = q.merchant
    <3>1. q.number \notin Unverified(m)
      BY <2>3, <1>1 DEF Unverified, Counted
    <3>2. Unverified(m)' = Unverified(m) \cup {q.number}
      BY <2>3, <1>2, <1>3, <1>4, <1>5 DEF Unverified, Counted
    <3>3. Cardinality(Unverified(m)') = Cardinality(Unverified(m)) + 1
      BY <3>1, <3>2, <1>2, AddUnverified
    <3>4. /\ Limit \in Nat /\ overlaps[m] \in Nat /\ faults \in Nat /\ creating[m] \in Nat
          /\ Cardinality(Unverified(m)) \in Nat /\ creating'[m] = creating[m] - 1
      BY <2>3, <1>1, CountedFinite, OnboardingAssumption DEF TypeOK, OnboardingAssumption
    <3> QED
      BY <3>3, <3>4, <2>1, <1>1
  <2> QED
    BY <2>2, <2>3
<1> QED
  BY <1>6, <1>7, <1>8, <1>9, <1>10

LEMMA CreateRefusedInv ==
  ASSUME IInv, TypeOK', NEW m \in Merchants, CreateRefused(m)
  PROVE  IInv'
<1> USE DEF IInv, CreateRefused, otpVars, callVars
<1>1. RowsStay /\ RequestPart'
  BY DEF RowsStay, RequestPart, Row
<1>2. LimitAccounted'
  BY LimitUnchanged DEF TypeOK
<1> QED
  BY <1>1, <1>2, Quiet DEF TypeOK

LEMMA StepInv == IInv /\ [Next]_vars => IInv'
<1> SUFFICES ASSUME IInv, [Next]_vars PROVE IInv'
  OBVIOUS
<1>1. TypeOK'
  BY TypeStep
<1>2. CASE UNCHANGED vars
  <2> USE <1>2 DEF IInv, vars, otpVars, callVars, planVars
  <2>1. RowsStay /\ RequestPart'
    BY DEF RowsStay, RequestPart, Row
  <2>2. LimitAccounted'
    BY LimitUnchanged DEF TypeOK
  <2> QED
    BY <1>1, <2>1, <2>2, Quiet DEF TypeOK
<1>3. \A q \in Requests : q.merchant \in Merchants
  BY OnboardingAssumption DEF OnboardingAssumption
<1> QED
  BY <1>1, <1>2, <1>3, StartVerificationInv, LapseInv, ExpireInv, FindInv,
     CreateVerifiedInv, MarkInv, MatchFaultInv, CheckLimitInv, CreateInv, CreateRefusedInv
  DEF Next, RequestStep, MatchStep, CreateStep

-----------------------------------------------------------------------------
(* The theorems.                                                           *)

\* The inductive invariant of the profiles and the requests for them, with
\* calls of TryMatch and Create, the expiry and failures in any order.
THEOREM OnboardingInvariant == Spec => []IInv
BY InitInv, StepInv, PTL DEF Spec

\* A request that is said to be verified has created the merchant's profile.
THEOREM VerifiedRequestsHaveProfiles == Spec => []VerifiedHasProfile
<1>1. IInv => VerifiedHasProfile
  BY DEF IInv
<1> QED
  BY <1>1, OnboardingInvariant, PTL

\* A verified profile is owed to a request that is or will be said to be
\* verified, unless a statement failed.
THEOREM ProfilesAreAccounted == Spec => []ProfileAccounted
<1>1. IInv => ProfileAccounted
  BY DEF IInv
<1> QED
  BY <1>1, OnboardingInvariant, PTL

\* Profiles over the limit are owed to overlapping or failed checks, or to
\* verified numbers.
THEOREM LimitIsAccounted == Spec => []LimitAccounted
<1>1. IInv => LimitAccounted
  BY DEF IInv
<1> QED
  BY <1>1, OnboardingInvariant, PTL

\* What a merchant was told of a request stays so, except that an expired one
\* may be verified by a match that had read it before.
THEOREM MerchantsAreToldOnce == Spec => ToldOnce
<1> DEFINE Once(v) ==
      /\ GetStatus(v) = "verified" => GetStatus(v)' = "verified"
      /\ GetStatus(v) = "expired" =>
           \/ GetStatus(v)' = "expired"
           \/ /\ GetStatus(v)' = "verified"
              /\ \E c \in Matches : match[c] = "mark" /\ found[c] = v
<1>1. ASSUME IInv, [Next]_vars, NEW v \in Verifications PROVE Once(v)
  <2> USE <1>1 DEF IInv, TypeOK, GetStatus, Old
  <2>1. ASSUME NEW w \in Verifications, NEW q \in Requests, StartVerification(w, q)
        PROVE  Once(v)
    BY <2>1 DEF StartVerification
  <2>2. ASSUME NEW w \in Verifications, Lapse(w) PROVE Once(v)
    BY <2>2 DEF Lapse
  <2>3. CASE ExpireOldOTPs
    BY <2>3 DEF ExpireOldOTPs
  <2>4. ASSUME NEW c \in Matches, MarkOTPVerified(c) PROVE Once(v)
    <3>1. found[c] \in Verifications
      BY <2>4 DEF MarkOTPVerified, MatchPart
    <3> QED
      BY <2>4, <3>1 DEF MarkOTPVerified
  <2>5. CASE UNCHANGED otpVars
    BY <2>5 DEF otpVars
  <2> QED
    BY <2>1, <2>2, <2>3, <2>4, <2>5
    DEF Next, RequestStep, MatchStep, CreateStep, vars, GetPendingOTPByNumber, CreateVerified,
        MatchFault, CheckLimit, Create, CreateRefused
<1>2. IInv /\ [Next]_vars => [\A v \in Verifications : Once(v)]_vars
  BY <1>1
<1> QED
  BY <1>2, OnboardingInvariant, PTL DEF Spec, ToldOnce
=============================================================================
