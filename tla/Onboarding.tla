------------------------------ MODULE Onboarding ------------------------------
(***************************************************************************)
(* The payment profiles of the merchants: created from the dashboard       *)
(* (internal/api/merchant/paymentprofiles) or by the verification of a     *)
(* number (internal/otp), for which the owner of the number sends one taka *)
(* to the platform, whose device reports the SMS.                          *)
(*                                                                         *)
(* A profile is the row of its merchant and number, which are unique       *)
(* together.  Verifications are numbered in the order they are created.    *)
(* A step is one autocommitted statement, with what is decided from it.    *)
(***************************************************************************)
EXTENDS Integers, FiniteSets

CONSTANTS
  Merchants,
  Numbers,           \* canonical numbers of mobile wallets
  Providers,
  AccountTypes,
  Requests,          \* what the merchants want profiles for
  Matches,           \* calls of TryMatch, one for each SMS that is reported
  None,              \* SQL NULL, and the type an SMS does not name
  Limit,             \* payment profiles of the plan; 0 is unlimited
  MaxVerifications,  \* bound: verifications created
  MaxOverlaps,       \* bound: limit checks passed while another Create goes on
  MaxFaults          \* bound: statements that fail, and stops of the server

Verifications == 1 .. MaxVerifications

\* by: history, the verification that created the profile, or 0.
Profiles == [provider : Providers, type : AccountTypes, is_otp_verified : BOOLEAN,
             by : {0} \cup Verifications]

ASSUME OnboardingAssumption ==
  /\ Limit \in Nat
  /\ MaxVerifications \in Nat
  /\ MaxOverlaps \in Nat
  /\ MaxFaults \in Nat
  /\ IsFiniteSet(Numbers)
  /\ None \notin AccountTypes
  /\ Requests \subseteq [merchant : Merchants, number : Numbers,
                         provider : Providers, type : AccountTypes]
  /\ None \notin Requests
  /\ None \notin Profiles

VARIABLES
  status,    \* mfs_otp_verifications.status, "none" before the row exists
  request,   \* what was asked to be verified
  lapsed,    \* verifications whose thirty minutes have passed
  profile,   \* payment_profiles
  match,     \* stage of each call of TryMatch
  found,     \* the verification it has read
  creating,  \* calls of Create that have passed the limit check, by merchant
  overlaps,  \* history: limit checks passed while another Create went on
  faults

otpVars  == <<status, request, lapsed>>
callVars == <<match, found>>
planVars == <<creating, overlaps>>
vars == <<otpVars, profile, callVars, planVars, faults>>

Statuses == {"none", "pending", "verified", "expired"}

TypeOK ==
  /\ status \in [Verifications -> Statuses]
  /\ request \in [Verifications -> Requests \cup {None}]
  /\ lapsed \subseteq Verifications
  /\ profile \in [Merchants -> [Numbers -> Profiles \cup {None}]]
  /\ match \in [Matches -> {"idle", "create", "mark", "done", "failed"}]
  /\ found \in [Matches -> {0} \cup Verifications]
  /\ creating \in [Merchants -> Nat]
  /\ overlaps \in [Merchants -> Nat]
  /\ faults \in 0 .. MaxFaults

Init ==
  /\ status = [v \in Verifications |-> "none"]
  /\ request = [v \in Verifications |-> None]
  /\ lapsed = {}
  /\ profile = [m \in Merchants |-> [n \in Numbers |-> None]]
  /\ match = [c \in Matches |-> "idle"]
  /\ found = [c \in Matches |-> 0]
  /\ creating = [m \in Merchants |-> 0]
  /\ overlaps = [m \in Merchants |-> 0]
  /\ faults = 0

Fault == faults < MaxFaults /\ faults' = faults + 1

-----------------------------------------------------------------------------
(* Verifications.                                                          *)

\* Service.Init: nothing is asked of the number, which another merchant, or
\* this one, may have asked for or have a profile for.
StartVerification(v, q) ==
  /\ status[v] = "none"
  /\ \A o \in Verifications : o < v => status[o] # "none"
  /\ status' = [status EXCEPT ![v] = "pending"]
  /\ request' = [request EXCEPT ![v] = q]
  /\ UNCHANGED <<lapsed, profile, callVars, planVars, faults>>

Lapse(v) ==
  /\ status[v] # "none"
  /\ v \notin lapsed
  /\ lapsed' = lapsed \cup {v}
  /\ UNCHANGED <<status, request, profile, callVars, planVars, faults>>

\* Mutant of Old: what was verified expires as well.
OldOfAnyStatus == {v \in lapsed : status[v] # "none"}

\* Mutant of Old: the comparison of the times is turned around.
Young == {v \in Verifications \ lapsed : status[v] = "pending"}

Old == {v \in lapsed : status[v] = "pending"}

\* The worker of each minute.
ExpireOldOTPs ==
  /\ Old # {}
  /\ status' = [v \in Verifications |-> IF v \in Old THEN "expired" ELSE status[v]]
  /\ UNCHANGED <<request, lapsed, profile, callVars, planVars, faults>>

\* What GetStatus answers: an old one has expired before the worker sees it.
GetStatus(v) == IF v \in Old THEN "expired" ELSE status[v]

-----------------------------------------------------------------------------
(* TryMatch: an SMS over one taka from number n by way of provider p.      *)

Pending(n, p) ==
  {v \in Verifications \ lapsed :
     status[v] = "pending" /\ request[v].number = n /\ request[v].provider = p}

\* GetPendingOTPByNumber: the newest one, whoever asked for it.  An SMS that
\* names another type is an error.
GetPendingOTPByNumber(c, n, p, type) ==
  /\ match[c] = "idle"
  /\ \E v \in Pending(n, p) :
       /\ \A o \in Pending(n, p) : o <= v
       /\ found' = [found EXCEPT ![c] = v]
       /\ match' = [match EXCEPT ![c] =
                      IF type \in {None, request[v].type} THEN "create" ELSE "failed"]
  /\ UNCHANGED <<otpVars, profile, planVars, faults>>

Row(m, n) == profile[m][n]

PutRow(m, n, row) == profile' = [profile EXCEPT ![m][n] = row]

\* Mutant of CreateVerified: an existing profile is no error.
CreateVerifiedOrFind(c) ==
  LET q == request[found[c]] IN
  /\ match[c] = "create"
  /\ IF Row(q.merchant, q.number) = None
       THEN PutRow(q.merchant, q.number,
                   [provider |-> q.provider, type |-> q.type,
                    is_otp_verified |-> TRUE, by |-> found[c]])
       ELSE UNCHANGED profile
  /\ match' = [match EXCEPT ![c] = "mark"]
  /\ UNCHANGED <<otpVars, found, planVars, faults>>

\* CreateProfile by TryMatch, which fails if the merchant has a profile for
\* the number; the plan is not asked.
CreateVerified(c) ==
  LET q == request[found[c]] IN
  /\ match[c] = "create"
  /\ \/ /\ Row(q.merchant, q.number) = None
        /\ PutRow(q.merchant, q.number,
                  [provider |-> q.provider, type |-> q.type,
                   is_otp_verified |-> TRUE, by |-> found[c]])
        /\ match' = [match EXCEPT ![c] = "mark"]
     \/ /\ Row(q.merchant, q.number) # None
        /\ match' = [match EXCEPT ![c] = "failed"]
        /\ UNCHANGED profile
  /\ UNCHANGED <<otpVars, found, planVars, faults>>

\* Mutant of MarkOTPVerified: the newest verification of the number is marked.
MarkNewest(c) ==
  LET q == request[found[c]] IN
  /\ match[c] = "mark"
  /\ \E v \in Verifications :
       /\ status[v] # "none" /\ request[v].number = q.number
       /\ \A o \in Verifications :
            (status[o] # "none" /\ request[o].number = q.number) => o <= v
       /\ status' = [status EXCEPT ![v] = "verified"]
  /\ match' = [match EXCEPT ![c] = "done"]
  /\ UNCHANGED <<request, lapsed, profile, found, planVars, faults>>

\* By id, even if it has expired since it was read.
MarkOTPVerified(c) ==
  /\ match[c] = "mark"
  /\ status' = [status EXCEPT ![found[c]] = "verified"]
  /\ match' = [match EXCEPT ![c] = "done"]
  /\ UNCHANGED <<request, lapsed, profile, found, planVars, faults>>

MatchFault(c) ==
  /\ Fault
  /\ match[c] \in {"create", "mark"}
  /\ match' = [match EXCEPT ![c] = "failed"]
  /\ UNCHANGED <<otpVars, profile, found, planVars>>

-----------------------------------------------------------------------------
(* Handler.Create.                                                         *)

\* Every profile counts, disabled or not.
Counted(m) == {n \in Numbers : Row(m, n) # None}

\* Mutant of Reached: the plan is one profile larger.
ReachedLater(m) == Limit # 0 /\ Cardinality(Counted(m)) > Limit

Reached(m) == Limit # 0 /\ Cardinality(Counted(m)) >= Limit

\* Bound: a call goes on only while a number is left for it.
NumberLeft(m) ==
  creating[m] < Cardinality({n \in Numbers \ Counted(m) :
                               \E q \in Requests : q.merchant = m /\ q.number = n})

\* Limiter.Check, which lets the call pass if the count cannot be read.
CheckLimit(m) ==
  /\ NumberLeft(m)
  /\ creating[m] = 0 \/ overlaps[m] < MaxOverlaps
  /\ \/ ~Reached(m) /\ UNCHANGED faults
     \/ Fault
  /\ creating' = [creating EXCEPT ![m] = @ + 1]
  /\ overlaps' = [overlaps EXCEPT ![m] = IF creating[m] > 0 THEN @ + 1 ELSE @]
  /\ UNCHANGED <<otpVars, profile, callVars>>

\* CreateProfile, without any proof that the number is the merchant's.
Create(q) ==
  /\ creating[q.merchant] > 0
  /\ Row(q.merchant, q.number) = None
  /\ PutRow(q.merchant, q.number,
            [provider |-> q.provider, type |-> q.type, is_otp_verified |-> FALSE, by |-> 0])
  /\ creating' = [creating EXCEPT ![q.merchant] = @ - 1]
  /\ UNCHANGED <<otpVars, callVars, overlaps, faults>>

\* A profile for the number exists, the body is refused, or a statement fails.
CreateRefused(m) ==
  /\ creating[m] > 0
  /\ creating' = [creating EXCEPT ![m] = @ - 1]
  /\ UNCHANGED <<otpVars, profile, callVars, overlaps, faults>>

-----------------------------------------------------------------------------
\* What the API lets a merchant do; GetStatus changes nothing.
RequestStep(v) == \E q \in Requests : StartVerification(v, q)

MatchStep(c) ==
  \/ \E n \in Numbers, p \in Providers, type \in AccountTypes \cup {None} :
       GetPendingOTPByNumber(c, n, p, type)
  \/ CreateVerified(c)
  \/ MarkOTPVerified(c)
  \/ MatchFault(c)

CreateStep(q) == CheckLimit(q.merchant) \/ Create(q) \/ CreateRefused(q.merchant)

Next ==
  \/ \E v \in Verifications : RequestStep(v) \/ Lapse(v)
  \/ ExpireOldOTPs
  \/ \E c \in Matches : MatchStep(c)
  \/ \E q \in Requests : CreateStep(q)

Spec == Init /\ [][Next]_vars

\* Time passes, and the worker looks again every minute.
Fairness ==
  /\ \A v \in Verifications : WF_vars(Lapse(v))
  /\ WF_vars(ExpireOldOTPs)

FairSpec == Spec /\ Fairness

-----------------------------------------------------------------------------
(* Properties.                                                             *)

\* The profile of v's merchant and number is the one that v asked for.
Created(v) ==
  LET row == Row(request[v].merchant, request[v].number) IN
  /\ row # None
  /\ row.by = v /\ row.is_otp_verified
  /\ row.provider = request[v].provider /\ row.type = request[v].type

\* The request that is said to be verified created the merchant's profile of
\* the number: with two requests for it, two SMS or an expiry in between, and
\* with a profile that was there before, no other is said to be.
VerifiedHasProfile == \A v \in Verifications : status[v] = "verified" => Created(v)

\* A profile that is verified belongs to a request that is, or will be said
\* to be, as long as no statement failed in between.
ProfileAccounted ==
  \A m \in Merchants, n \in Numbers :
    (Row(m, n) # None /\ Row(m, n).is_otp_verified) =>
      \/ status[Row(m, n).by] = "verified"
      \/ \E c \in Matches : match[c] = "mark" /\ found[c] = Row(m, n).by
      \/ faults > 0

Unverified(m) == {n \in Counted(m) : ~Row(m, n).is_otp_verified}

\* The profiles of a plan: more than the limit exist only if checks
\* overlapped, could not be made, or numbers were verified.
LimitAccounted ==
  \A m \in Merchants :
    Limit # 0 =>
      Cardinality(Unverified(m)) + creating[m] <= Limit + overlaps[m] + faults

MatchPart ==
  \A c \in Matches :
    /\ match[c] \in {"create", "mark"} =>
         found[c] \in Verifications /\ status[found[c]] # "none"
    /\ match[c] = "mark" => Created(found[c])

RequestPart == \A v \in Verifications : status[v] # "none" => request[v] \in Requests

OwnerPart ==
  \A m \in Merchants, n \in Numbers :
    (Row(m, n) # None /\ Row(m, n).is_otp_verified) => Row(m, n).by \in Verifications

\* The inductive invariant: a call of TryMatch that is going on has read a
\* request that exists, and one that is about to mark it has created the
\* profile that it asked for.
IInv ==
  /\ TypeOK
  /\ RequestPart
  /\ MatchPart
  /\ OwnerPart
  /\ VerifiedHasProfile
  /\ ProfileAccounted
  /\ LimitAccounted

\* A merchant who was told that a number is verified is never told anything
\* else, and one who was told that the request has expired is told another
\* thing only by a match that had read the request before.
ToldOnce ==
  [][\A v \in Verifications :
       /\ GetStatus(v) = "verified" => GetStatus(v)' = "verified"
       /\ GetStatus(v) = "expired" =>
            \/ GetStatus(v)' = "expired"
            \/ /\ GetStatus(v)' = "verified"
               /\ \E c \in Matches : match[c] = "mark" /\ found[c] = v]_vars

\* Every verification ends, as verified or as expired.
Concluded ==
  \A v \in Verifications : status[v] = "pending" ~> status[v] \in {"verified", "expired"}
=============================================================================
