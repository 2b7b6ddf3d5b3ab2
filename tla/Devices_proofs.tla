---------------------------- MODULE Devices_proofs ----------------------------
(***************************************************************************)
(* Proofs about Devices: the inductive invariant, and from it that a token *)
(* is used once, what a device over the plan's limit, a device with three  *)
(* strikes and an alert are owed to, and what ends a disablement, for any  *)
(* devices, pairing calls, requests and bounds.                            *)
(***************************************************************************)
EXTENDS Devices, FiniteSetTheorems, TLAPS

TokenPart == TokensUnique /\ TokenSpent

AlertPart == AlertsAccounted /\ AlertsEarned

LEMMA InvParts ==
  IInv <=> TypeOK /\ References /\ TokenPart /\ SecretsStored /\ LimitAccounted
             /\ StruckOut /\ AlertPart
BY DEF IInv, TokenPart, AlertPart

-----------------------------------------------------------------------------
(* Counting.                                                               *)

LEMMA CountedFinite ==
  IsFiniteSet(Counted) /\ Cardinality(Counted) \in Nat
<1>1. Counted \in SUBSET Devices
  BY DEF Counted
<1> QED
  BY <1>1, DevicesAssumption, FS_Subset, FS_CardinalityType DEF DevicesAssumption

LEMMA PairingsFinite ==
  \A d : IsFiniteSet(Pairings(d)) /\ Cardinality(Pairings(d)) \in Nat
<1> TAKE d
<1>1. Pairings(d) \in SUBSET PairCalls
  BY DEF Pairings, Stored
<1> QED
  BY <1>1, DevicesAssumption, FS_Subset, FS_CardinalityType DEF DevicesAssumption

LEMMA CountedFiniteNext ==
  IsFiniteSet(Counted') /\ Cardinality(Counted') \in Nat
<1>1. Counted' \in SUBSET Devices
  BY DEF Counted
<1> QED
  BY <1>1, DevicesAssumption, FS_Subset, FS_CardinalityType DEF DevicesAssumption

LEMMA PairingsFiniteNext ==
  \A d : IsFiniteSet(Pairings(d)') /\ Cardinality(Pairings(d)') \in Nat
<1> TAKE d
<1>1. Pairings(d)' \in SUBSET PairCalls
  BY DEF Pairings, Stored
<1> QED
  BY <1>1, DevicesAssumption, FS_Subset, FS_CardinalityType DEF DevicesAssumption

-----------------------------------------------------------------------------
(* The initial state.                                                      *)

LEMMA InitInv == Init => IInv
<1> SUFFICES ASSUME Init PROVE IInv
  OBVIOUS
<1> USE DevicesAssumption DEF DevicesAssumption, Init
<1>1. TypeOK
  BY DEF TypeOK
<1>2. References /\ TokenPart /\ SecretsStored
  BY DEF References, TokenPart, TokensUnique, TokenSpent, SecretsStored, Stored, WasPaired
<1>3. LimitAccounted
  <2>1. Counted = {}
    BY DEF Counted
  <2> QED
    BY <2>1, FS_EmptySet DEF LimitAccounted
<1>4. StruckOut
  BY DEF StruckOut
<1>5. AlertPart
  BY PairingsFinite DEF AlertPart, AlertsAccounted, AlertsEarned, Unreported
<1> QED
  BY <1>1, <1>2, <1>3, <1>4, <1>5, InvParts

-----------------------------------------------------------------------------
(* What a step that leaves some of the state alone preserves.              *)

\* Nothing new is counted or goes on, and nothing is forgotten.
LEMMA LimitKept ==
  ASSUME TypeOK, TypeOK', LimitAccounted, Counted' \subseteq Counted,
         creating' <= creating, overlaps' >= overlaps, revived' >= revived,
         faults' >= faults
  PROVE  LimitAccounted'
<1>1. Cardinality(Counted') <= Cardinality(Counted)
  BY CountedFinite, FS_Subset
<1> QED
  BY <1>1, CountedFinite, CountedFiniteNext, DevicesAssumption
     DEF LimitAccounted, TypeOK, DevicesAssumption

\* A device that exists gets a status, and is noted if it was disabled.
LEMMA LimitBack ==
  ASSUME TypeOK, TypeOK', LimitAccounted, NEW d \in Devices, NEW st,
         status[d] # "none", status' = [status EXCEPT ![d] = st],
         revived' = Back(d), UNCHANGED <<creating, overlaps, faults>>
  PROVE  LimitAccounted'
<1>1. CASE d \in Counted
  <2>1. Counted' \subseteq Counted
    BY <1>1 DEF Counted, TypeOK
  <2> QED
    BY <2>1, LimitKept DEF Back, TypeOK
<1>2. CASE d \notin Counted
  <2>1. Counted' \in SUBSET (Counted \cup {d}) /\ revived' = revived + 1
    BY <1>2 DEF Counted, TypeOK, Back
  <2>2. /\ IsFiniteSet(Counted \cup {d})
        /\ Cardinality(Counted \cup {d}) = Cardinality(Counted) + 1
    BY <1>2, CountedFinite, FS_AddElement
  <2>3. Cardinality(Counted') <= Cardinality(Counted) + 1
    BY <2>1, <2>2, FS_Subset
  <2> QED
    BY <2>1, <2>3, CountedFinite, CountedFiniteNext, DevicesAssumption
       DEF LimitAccounted, TypeOK, DevicesAssumption
<1> QED
  BY <1>1, <1>2

\* No token appears, and no call stores a secret or reads a token.
LEMMA TokenKept ==
  ASSUME TypeOK, TokenPart, UNCHANGED <<issued, pairDevice, pairToken>>,
         Stored' \subseteq Stored,
         \A d \in Devices : token'[d] \in {0, token[d]}
  PROVE  TokenPart'
BY DEF TypeOK, TokenPart, TokensUnique, TokenSpent, Stored

\* No device is silent, paired or reported.
LEMMA AlertKept ==
  ASSUME AlertPart, UNCHANGED <<alerts, pairDevice>>, Stored' = Stored,
         \A d \in Devices : Unreported(d)' => Unreported(d)
  PROVE  AlertPart'
<1>1. \A d \in Devices : Pairings(d)' = Pairings(d)
  BY DEF Pairings, Stored
<1> QED
  BY <1>1 DEF AlertPart, AlertsAccounted, AlertsEarned

\* No strike is counted and no request is about to disable.
LEMMA StruckKept ==
  ASSUME StruckOut, UNCHANGED <<strikes, faults>>,
         \A r \in Requests : req[r] = "disable" =>
           req'[r] = "disable" /\ reqDevice'[r] = reqDevice[r]
  PROVE  StruckOut'
BY DEF StruckOut

LEMMA StruckFault ==
  ASSUME TypeOK, faults' = faults + 1
  PROVE  StruckOut'
BY DEF StruckOut, TypeOK

\* References of the calls and requests that go on as they were.
LEMMA ReferencesKept ==
  ASSUME References, UNCHANGED <<token, secret, listed, pairVars, reqVars>>,
         \A d \in Devices : status'[d] = "none" <=> status[d] = "none"
  PROVE  References'
BY DEF References, pairVars, reqVars

LEMMA SecretsKept ==
  ASSUME SecretsStored, UNCHANGED <<secret, pairDevice>>, Stored \subseteq Stored',
         \A d \in Devices : WasPaired(d)' => WasPaired(d)
  PROVE  SecretsStored'
BY DEF SecretsStored, Stored

-----------------------------------------------------------------------------
(* The merchant.                                                           *)

LEMMA CheckLimitInv == ASSUME IInv, CheckLimit PROVE IInv'
<1> USE InvParts, DevicesAssumption
    DEF DevicesAssumption, CheckLimit, rowVars, pairVars, reqVars
<1>1. TypeOK'
  BY DEF TypeOK, Fault
<1>2. References' /\ SecretsStored'
  BY ReferencesKept, SecretsKept DEF Stored, WasPaired
<1>3. TokenPart'
  BY TokenKept DEF Stored, WasPaired, TypeOK
<1>4. LimitAccounted'
  <2>1. Counted' = Counted
    BY DEF Counted
  <2>2. CASE creating > 0 \/ Fault
    BY <2>1, <2>2, CountedFinite DEF LimitAccounted, TypeOK, Fault
  <2>3. CASE creating = 0 /\ ~Reached
    BY <2>1, <2>3, CountedFinite DEF LimitAccounted, TypeOK, Reached, Fault
  <2> QED
    BY <2>2, <2>3 DEF TypeOK
<1>5. StruckOut'
  BY StruckKept, StruckFault DEF Fault, TypeOK
<1>6. AlertPart'
  BY AlertKept DEF Stored, WasPaired, Unreported
<1> QED
  BY <1>1, <1>2, <1>3, <1>4, <1>5, <1>6 DEF IInv, TokenPart, AlertPart

LEMMA CreateDeviceInv == ASSUME IInv, NEW d \in Devices, CreateDevice(d) PROVE IInv'
<1> USE InvParts, DevicesAssumption
    DEF DevicesAssumption, CreateDevice, Issue, pairVars, reqVars
<1>1. TypeOK'
  BY DEF TypeOK
<1>2. References' /\ SecretsStored'
  BY DEF References, SecretsStored, Stored, WasPaired, TypeOK
<1>3. TokenPart'
  BY DEF TokenPart, TokensUnique, TokenSpent, Stored, WasPaired, TypeOK
<1>4. LimitAccounted'
  <2>1. Counted' = Counted \cup {d} /\ d \notin Counted
    BY DEF Counted, TypeOK
  <2>2. Cardinality(Counted') = Cardinality(Counted) + 1
    BY <2>1, CountedFinite, FS_AddElement
  <2> QED
    BY <2>2, CountedFinite DEF LimitAccounted, TypeOK
<1>5. StruckOut'
  BY StruckKept
<1>6. AlertPart'
  BY AlertKept DEF Stored, WasPaired, Unreported, TypeOK
<1> QED
  BY <1>1, <1>2, <1>3, <1>4, <1>5, <1>6 DEF IInv, TokenPart, AlertPart

LEMMA CreateRefusedInv == ASSUME IInv, CreateRefused PROVE IInv'
<1> USE InvParts, DevicesAssumption
    DEF DevicesAssumption, CreateRefused, rowVars, pairVars, reqVars
<1>1. TypeOK'
  BY DEF TypeOK
<1>2. References' /\ SecretsStored' /\ TokenPart'
  BY ReferencesKept, SecretsKept, TokenKept DEF Stored, WasPaired, TypeOK
<1>3. LimitAccounted'
  BY <1>1, LimitKept DEF Counted, TypeOK
<1>4. StruckOut' /\ AlertPart'
  BY StruckKept, AlertKept DEF Stored, WasPaired, Unreported
<1> QED
  BY <1>1, <1>2, <1>3, <1>4 DEF IInv, TokenPart, AlertPart

\* DisableDevice, whoever executes it.
LEMMA DisableKeeps ==
  ASSUME IInv, NEW d \in Devices, DisableDevice(d), status[d] # "none", TypeOK',
         UNCHANGED <<issued, planVars, pairVars, listed, faults, alerts>>
  PROVE  TokenPart' /\ SecretsStored' /\ LimitAccounted' /\ AlertPart'
<1> USE InvParts, DevicesAssumption
    DEF DevicesAssumption, DisableDevice, planVars, pairVars
<1>1. TokenPart' /\ SecretsStored' /\ AlertPart'
  BY SecretsKept, TokenKept, AlertKept DEF Stored, WasPaired, Unreported, TypeOK
<1>2. Counted' \subseteq Counted
  BY DEF Counted, TypeOK
<1>3. LimitAccounted'
  BY <1>2, LimitKept DEF TypeOK
<1> QED
  BY <1>1, <1>3

LEMMA DisableInv == ASSUME IInv, NEW d \in Devices, Disable(d) PROVE IInv'
<1> USE InvParts, DevicesAssumption
    DEF DevicesAssumption, Disable, DisableDevice, planVars, pairVars, reqVars
<1>1. TypeOK'
  BY DEF TypeOK
<1>2. References'
  BY ReferencesKept DEF TypeOK
<1>3. TokenPart' /\ SecretsStored' /\ LimitAccounted' /\ AlertPart'
  BY <1>1, DisableKeeps
<1>4. StruckOut'
  BY DEF StruckOut, TypeOK
<1> QED
  BY <1>1, <1>2, <1>3, <1>4 DEF IInv, TokenPart, AlertPart

LEMMA RepairInv == ASSUME IInv, NEW d \in Devices, Repair(d) PROVE IInv'
<1> USE InvParts, DevicesAssumption
    DEF DevicesAssumption, Repair, Issue, planVars, pairVars, reqVars
<1>1. TypeOK'
  BY DEF TypeOK
<1>2. References' /\ SecretsStored'
  BY SecretsKept DEF References, Stored, WasPaired, TypeOK
<1>3. TokenPart'
  BY DEF TokenPart, TokensUnique, TokenSpent, Stored, WasPaired, TypeOK
<1>4. LimitAccounted'
  BY <1>1, LimitKept DEF Counted, TypeOK
<1>5. StruckOut' /\ AlertPart'
  BY StruckKept, AlertKept DEF Stored, WasPaired, Unreported
<1> QED
  BY <1>1, <1>2, <1>3, <1>4, <1>5 DEF IInv, TokenPart, AlertPart

LEMMA ExpireInv == ASSUME IInv, NEW d \in Devices, Expire(d) PROVE IInv'
<1> USE InvParts, DevicesAssumption
    DEF DevicesAssumption, Expire, planVars, pairVars, reqVars
<1>1. TypeOK'
  BY DEF TypeOK
<1>2. References' /\ SecretsStored'
  BY SecretsKept DEF References, Stored, WasPaired, TypeOK
<1>3. TokenPart'
  BY TokenKept DEF Stored, WasPaired, TypeOK
<1>4. LimitAccounted'
  BY <1>1, LimitKept DEF Counted, TypeOK
<1>5. StruckOut' /\ AlertPart'
  BY StruckKept, AlertKept DEF Stored, WasPaired, Unreported
<1> QED
  BY <1>1, <1>2, <1>3, <1>4, <1>5 DEF IInv, TokenPart, AlertPart

-----------------------------------------------------------------------------
(* Pairing.                                                                *)

LEMMA GetDeviceByPairingTokenInv ==
  ASSUME IInv, NEW c \in PairCalls, NEW d \in Devices, GetDeviceByPairingToken(c, d)
  PROVE  IInv'
<1> USE InvParts, DevicesAssumption
    DEF DevicesAssumption, GetDeviceByPairingToken, rowVars, planVars, reqVars
<1>1. TypeOK'
  BY DEF TypeOK
<1>2. References'
  BY DEF References, TypeOK
<1>3. Stored' = Stored /\ c \notin Stored
  BY DEF Stored, WasPaired, TypeOK
<1>4. SecretsStored'
  BY <1>3 DEF SecretsStored, TypeOK, WasPaired
<1>5. TokenPart'
  BY <1>3 DEF TokenPart, TokensUnique, TokenSpent, TypeOK
<1>6. LimitAccounted'
  BY <1>1, LimitKept DEF Counted, TypeOK
<1>7. StruckOut'
  BY StruckKept
<1>8. AlertPart'
  <2>1. \A e \in Devices : Pairings(e)' = Pairings(e)
    BY <1>3 DEF Pairings, TypeOK
  <2> QED
    BY <2>1 DEF AlertPart, AlertsAccounted, AlertsEarned, Unreported
<1> QED
  BY <1>1, <1>2, <1>4, <1>5, <1>6, <1>7, <1>8 DEF IInv, TokenPart, AlertPart

LEMMA StorePairedDeviceInv ==
  ASSUME IInv, NEW c \in PairCalls, StorePairedDevice(c) PROVE IInv'
<1> USE InvParts, DevicesAssumption
    DEF DevicesAssumption, StorePairedDevice, reqVars
<1>1. PICK d \in Devices : d = pairDevice[c] /\ status[d] # "none"
  BY DEF References
<1>2. Stored' = Stored \cup {c} /\ c \notin Stored
  BY DEF Stored, WasPaired, TypeOK
<1>3. TypeOK'
  BY <1>1 DEF TypeOK, Back
<1>4. References'
  BY <1>1 DEF References, TypeOK
<1>5. SecretsStored'
  BY <1>1, <1>2 DEF SecretsStored, TypeOK, WasPaired
<1>6. TokenPart'
  BY <1>1, <1>2 DEF TokenPart, TokensUnique, TokenSpent, TypeOK
<1>7. LimitAccounted'
  BY <1>1, <1>3, LimitBack
<1>8. StruckOut'
  BY <1>1 DEF StruckOut, TypeOK
<1>9. AlertPart'
  <2>1. /\ Pairings(d)' = Pairings(d) \cup {c} /\ c \notin Pairings(d)
        /\ \A e \in Devices \ {d} : Pairings(e)' = Pairings(e)
    BY <1>1, <1>2 DEF Pairings
  <2>2. Cardinality(Pairings(d)') = Cardinality(Pairings(d)) + 1
    BY <2>1, PairingsFinite, FS_AddElement
  <2>3. alerts[d] <= Cardinality(Pairings(d)) /\ alerts[d] \in Nat
    BY <1>1 DEF AlertPart, AlertsAccounted, TypeOK
  <2>4. alerts'[d] < Cardinality(Pairings(d)')
    BY <2>2, <2>3, PairingsFinite
  <2>5. \A e \in Devices \ {d} : Unreported(e)' => Unreported(e)
    BY <1>1 DEF Unreported, TypeOK
  <2>6. ASSUME NEW e \in Devices
        PROVE  /\ alerts'[e] <= Cardinality(Pairings(e)')
               /\ Unreported(e)' => alerts'[e] < Cardinality(Pairings(e)')
    <3>1. CASE e = d
      BY <1>3, <2>4, <3>1, PairingsFiniteNext DEF TypeOK
    <3>2. CASE e # d
      BY <2>1, <2>5, <3>2 DEF AlertPart, AlertsAccounted, AlertsEarned
    <3> QED
      BY <3>1, <3>2
  <2> QED
    BY <2>6 DEF AlertPart, AlertsAccounted, AlertsEarned
<1> QED
  BY <1>3, <1>4, <1>5, <1>6, <1>7, <1>8, <1>9 DEF IInv, TokenPart, AlertPart

\* The call is answered or fails after its secret was stored or not stored.
LEMMA AnswerInv ==
  ASSUME IInv, NEW c \in PairCalls, NEW st \in {"paired", "refused", "lost"},
         Answer(c, st), pair[c] = "store" => st = "refused",
         pair[c] # "store" => pair[c] = "metadata" /\ st # "refused",
         faults' = faults \/ Fault
  PROVE  IInv'
<1> USE InvParts, DevicesAssumption
    DEF DevicesAssumption, Answer, rowVars, planVars, reqVars
<1>1. TypeOK'
  BY DEF TypeOK, Fault
<1>2. Stored' = Stored
  BY DEF Stored, WasPaired, TypeOK
<1>3. References'
  BY DEF References, TypeOK
<1>4. SecretsStored' /\ TokenPart'
  BY <1>2, SecretsKept, TokenKept DEF TypeOK, WasPaired
<1>5. LimitAccounted'
  BY <1>1, LimitKept DEF Counted, TypeOK, Fault
<1>6. StruckOut'
  BY StruckKept, StruckFault DEF Fault
<1>7. AlertPart'
  BY <1>2, AlertKept DEF Unreported
<1> QED
  BY <1>1, <1>3, <1>4, <1>5, <1>6, <1>7 DEF IInv, TokenPart, AlertPart

LEMMA UpdateDeviceMetadataInv ==
  ASSUME IInv, NEW c \in PairCalls, UpdateDeviceMetadata(c) PROVE IInv'
BY AnswerInv DEF UpdateDeviceMetadata

LEMMA PairFaultInv == ASSUME IInv, NEW c \in PairCalls, PairFault(c) PROVE IInv'
BY AnswerInv DEF PairFault

-----------------------------------------------------------------------------
(* Requests.                                                               *)

\* What a step of a request leaves alone that does not write the status.
LEMMA RequestKeeps ==
  ASSUME IInv, TypeOK', UNCHANGED <<status, secret, token, issued, planVars,
                                    pairVars, listed, alerts>>,
         faults' = faults \/ Fault
  PROVE  TokenPart' /\ LimitAccounted' /\ AlertPart'
<1> USE InvParts, DevicesAssumption DEF DevicesAssumption, planVars, pairVars
<1>1. TokenPart' /\ AlertPart'
  BY TokenKept, AlertKept DEF Stored, WasPaired, Unreported, TypeOK
<1>2. LimitAccounted'
  BY LimitKept DEF Counted, TypeOK, Fault
<1> QED
  BY <1>1, <1>2

LEMMA GetDeviceInv ==
  ASSUME IInv, NEW r \in Requests, NEW d \in Devices, NEW key, GetDevice(r, d, key)
  PROVE  IInv'
<1> USE InvParts, DevicesAssumption
    DEF DevicesAssumption, GetDevice, rowVars, planVars, pairVars
<1>1. TypeOK'
  BY DEF TypeOK
<1>2. References' /\ SecretsStored'
  BY SecretsKept DEF References, Stored, WasPaired, TypeOK
<1>3. TokenPart' /\ LimitAccounted' /\ AlertPart'
  BY <1>1, RequestKeeps
<1>4. StruckOut'
  BY StruckKept DEF TypeOK
<1> QED
  BY <1>1, <1>2, <1>3, <1>4 DEF IInv, TokenPart, AlertPart

LEMMA IncrFailedSigCountInv ==
  ASSUME IInv, NEW r \in Requests, IncrFailedSigCount(r) PROVE IInv'
<1> DEFINE d == reqDevice[r]
<1> USE InvParts, DevicesAssumption
    DEF DevicesAssumption, IncrFailedSigCount, Goto, planVars, pairVars
<1>1. d \in Devices /\ status[d] # "none"
  BY DEF References
<1>2. TypeOK'
  BY <1>1 DEF TypeOK
<1>3. References' /\ SecretsStored'
  BY SecretsKept DEF References, Stored, WasPaired, TypeOK
<1>4. TokenPart' /\ LimitAccounted' /\ AlertPart'
  BY <1>2, RequestKeeps
<1>5. StruckOut'
  BY <1>1 DEF StruckOut, TypeOK
<1> QED
  BY <1>2, <1>3, <1>4, <1>5 DEF IInv, TokenPart, AlertPart

LEMMA StrikeOutInv == ASSUME IInv, NEW r \in Requests, StrikeOut(r) PROVE IInv'
<1> DEFINE d == reqDevice[r]
<1> USE InvParts, DevicesAssumption
    DEF DevicesAssumption, StrikeOut, Goto, planVars, pairVars
<1>1. d \in Devices /\ status[d] # "none" /\ DisableDevice(d)
  BY DEF References
<1>2. TypeOK'
  BY <1>1 DEF TypeOK, DisableDevice
<1>3. References'
  BY <1>1 DEF References, TypeOK, DisableDevice
<1>4. TokenPart' /\ SecretsStored' /\ LimitAccounted' /\ AlertPart'
  BY <1>1, <1>2, DisableKeeps
<1>5. StruckOut'
  BY <1>1 DEF StruckOut, TypeOK, DisableDevice
<1> QED
  BY <1>2, <1>3, <1>4, <1>5 DEF IInv, TokenPart, AlertPart

LEMMA ResetFailedSigCountInv ==
  ASSUME IInv, NEW r \in Requests, ResetFailedSigCount(r) PROVE IInv'
<1> DEFINE d == reqDevice[r]
<1> USE InvParts, DevicesAssumption
    DEF DevicesAssumption, ResetFailedSigCount, Goto, planVars, pairVars
<1>1. d \in Devices /\ status[d] # "none"
  BY DEF References
<1>2. TypeOK'
  BY <1>1 DEF TypeOK
<1>3. References' /\ SecretsStored'
  BY SecretsKept DEF References, Stored, WasPaired, TypeOK
<1>4. TokenPart' /\ LimitAccounted' /\ AlertPart'
  BY <1>2, RequestKeeps
<1>5. StruckOut'
  BY <1>1 DEF StruckOut, TypeOK
<1> QED
  BY <1>2, <1>3, <1>4, <1>5 DEF IInv, TokenPart, AlertPart

LEMMA UpdateHeartbeatInv ==
  ASSUME IInv, NEW r \in Requests, UpdateHeartbeat(r) PROVE IInv'
<1> DEFINE d == reqDevice[r]
<1> USE InvParts, DevicesAssumption
    DEF DevicesAssumption, UpdateHeartbeat, Goto, planVars, pairVars
<1>1. d \in Devices /\ status[d] # "none" /\ secret[d] # None
  BY DEF References
<1>2. TypeOK'
  BY <1>1 DEF TypeOK
<1>3. References' /\ SecretsStored'
  BY <1>1 DEF References, SecretsStored, Stored, WasPaired, TypeOK
<1>4. TokenPart' /\ LimitAccounted' /\ AlertPart'
  BY <1>2, RequestKeeps
<1>5. StruckOut'
  BY StruckKept DEF TypeOK
<1> QED
  BY <1>2, <1>3, <1>4, <1>5 DEF IInv, TokenPart, AlertPart

LEMMA OtherRequestInv == ASSUME IInv, NEW r \in Requests, OtherRequest(r) PROVE IInv'
<1> USE InvParts, DevicesAssumption
    DEF DevicesAssumption, OtherRequest, Goto, rowVars, planVars, pairVars
<1>1. TypeOK'
  BY DEF TypeOK
<1>2. References' /\ SecretsStored'
  BY SecretsKept DEF References, Stored, WasPaired, TypeOK
<1>3. TokenPart' /\ LimitAccounted' /\ AlertPart'
  BY <1>1, RequestKeeps
<1>4. StruckOut'
  BY StruckKept DEF TypeOK
<1> QED
  BY <1>1, <1>2, <1>3, <1>4 DEF IInv, TokenPart, AlertPart

LEMMA RequestFaultInv == ASSUME IInv, NEW r \in Requests, RequestFault(r) PROVE IInv'
<1> USE InvParts, DevicesAssumption
    DEF DevicesAssumption, RequestFault, Goto, rowVars, planVars, pairVars
<1>1. TypeOK'
  BY DEF TypeOK, Fault
<1>2. References' /\ SecretsStored'
  BY SecretsKept DEF References, Stored, WasPaired, TypeOK
<1>3. TokenPart' /\ LimitAccounted' /\ AlertPart'
  BY <1>1, RequestKeeps
<1>4. StruckOut'
  BY StruckFault DEF Fault
<1> QED
  BY <1>1, <1>2, <1>3, <1>4 DEF IInv, TokenPart, AlertPart

-----------------------------------------------------------------------------
(* The monitor.                                                            *)

LEMMA ListStaleDevicesInv == ASSUME IInv, ListStaleDevices PROVE IInv'
<1> USE InvParts, DevicesAssumption
    DEF DevicesAssumption, ListStaleDevices, Stale, rowVars, planVars, pairVars, reqVars
<1>1. TypeOK'
  BY DEF TypeOK
<1>2. References' /\ SecretsStored'
  BY SecretsKept DEF References, Stored, WasPaired, TypeOK
<1>3. TokenPart' /\ AlertPart'
  BY TokenKept, AlertKept DEF Stored, WasPaired, Unreported, TypeOK
<1>4. LimitAccounted'
  BY <1>1, LimitKept DEF Counted, TypeOK
<1>5. StruckOut'
  BY StruckKept
<1> QED
  BY <1>1, <1>2, <1>3, <1>4, <1>5 DEF IInv, TokenPart, AlertPart

LEMMA UpdateDeviceStatusInv ==
  ASSUME IInv, NEW d \in Devices, UpdateDeviceStatus(d) PROVE IInv'
<1> USE InvParts, DevicesAssumption
    DEF DevicesAssumption, UpdateDeviceStatus, pairVars, reqVars
<1>1. status[d] # "none"
  BY DEF References
<1>2. TypeOK'
  BY DEF TypeOK, Back
<1>3. References'
  BY <1>1 DEF References, TypeOK
<1>4. alerts[d] < Cardinality(Pairings(d)) /\ alerts[d] \in Nat
  BY DEF AlertPart, AlertsEarned, Unreported, TypeOK
<1>5. SecretsStored'
  <2>1. secret[d] # None
    BY DEF SecretsStored, WasPaired
  <2> QED
    BY <2>1 DEF SecretsStored, Stored, WasPaired, TypeOK
<1>6. TokenPart'
  BY TokenKept DEF Stored, WasPaired, TypeOK
<1>7. LimitAccounted'
  BY <1>1, <1>2, LimitBack
<1>8. StruckOut'
  BY StruckKept
<1>9. AlertPart'
  <2>1. \A e \in Devices : Pairings(e)' = Pairings(e)
    BY DEF Pairings, Stored, WasPaired
  <2>2. \A e \in Devices : Unreported(e)' => Unreported(e) /\ e # d
    BY DEF Unreported, TypeOK
  <2>3. alerts'[d] <= Cardinality(Pairings(d))
    BY <1>4, PairingsFinite DEF TypeOK
  <2>4. \A e \in Devices \ {d} : alerts'[e] = alerts[e]
    BY DEF TypeOK
  <2> QED
    BY <2>1, <2>2, <2>3, <2>4 DEF AlertPart, AlertsAccounted, AlertsEarned
<1> QED
  BY <1>2, <1>3, <1>5, <1>6, <1>7, <1>8, <1>9 DEF IInv, TokenPart, AlertPart

LEMMA MonitorFaultInv == ASSUME IInv, NEW d \in Devices, MonitorFault(d) PROVE IInv'
<1> USE InvParts, DevicesAssumption
    DEF DevicesAssumption, MonitorFault, rowVars, planVars, pairVars, reqVars
<1>1. TypeOK'
  BY DEF TypeOK, Fault
<1>2. References' /\ SecretsStored'
  BY SecretsKept DEF References, Stored, WasPaired, TypeOK
<1>3. TokenPart' /\ AlertPart'
  BY TokenKept, AlertKept DEF Stored, WasPaired, Unreported, TypeOK
<1>4. LimitAccounted'
  BY <1>1, LimitKept DEF Counted, TypeOK, Fault
<1>5. StruckOut'
  BY StruckFault DEF Fault
<1> QED
  BY <1>1, <1>2, <1>3, <1>4, <1>5 DEF IInv, TokenPart, AlertPart

LEMMA SilenceInv == ASSUME IInv, NEW d \in Devices, Silence(d) PROVE IInv'
<1> USE InvParts, DevicesAssumption
    DEF DevicesAssumption, Silence, planVars, pairVars, reqVars
<1>1. TypeOK'
  BY DEF TypeOK
<1>2. References' /\ SecretsStored'
  BY DEF References, SecretsStored, Stored, WasPaired, TypeOK
<1>3. TokenPart' /\ AlertPart'
  BY TokenKept, AlertKept DEF Stored, WasPaired, Unreported, TypeOK
<1>4. LimitAccounted'
  BY <1>1, LimitKept DEF Counted, TypeOK
<1>5. StruckOut'
  BY StruckKept
<1> QED
  BY <1>1, <1>2, <1>3, <1>4, <1>5 DEF IInv, TokenPart, AlertPart

-----------------------------------------------------------------------------
(* The specification.                                                      *)

LEMMA NextInv == IInv /\ [Next]_vars => IInv'
<1> SUFFICES ASSUME IInv, [Next]_vars PROVE IInv'
  OBVIOUS
<1>1. CASE CheckLimit \/ CreateRefused
  BY <1>1, CheckLimitInv, CreateRefusedInv
<1>2. CASE \E d \in Devices : DeviceStep(d)
  BY <1>2, CreateDeviceInv, DisableInv, RepairInv, ExpireInv, SilenceInv, MonitorFaultInv
     DEF DeviceStep
<1>3. CASE \E c \in PairCalls : PairStep(c)
  BY <1>3, GetDeviceByPairingTokenInv, StorePairedDeviceInv, UpdateDeviceMetadataInv,
     PairFaultInv DEF PairStep
<1>4. CASE \E r \in Requests : RequestStep(r)
  <2>1. PICK r \in Requests : RequestStep(r)
    BY <1>4
  <2>2. CASE \E d \in Talking : \E key \in Keys : GetDevice(r, d, key)
    BY <2>2, GetDeviceInv, DevicesAssumption DEF DevicesAssumption
  <2> QED
    BY <2>1, <2>2, IncrFailedSigCountInv, StrikeOutInv, ResetFailedSigCountInv,
       UpdateHeartbeatInv, OtherRequestInv, RequestFaultInv DEF RequestStep
<1>5. CASE MonitorStep
  BY <1>5, ListStaleDevicesInv, UpdateDeviceStatusInv DEF MonitorStep
<1>6. CASE UNCHANGED vars
  <2> USE <1>6, InvParts, DevicesAssumption
      DEF vars, rowVars, planVars, pairVars, reqVars, DevicesAssumption
  <2>1. TypeOK'
    BY DEF TypeOK
  <2>2. References' /\ SecretsStored' /\ StruckOut'
    BY DEF References, SecretsStored, StruckOut, Stored, WasPaired
  <2>3. TokenPart' /\ AlertPart'
    BY TokenKept, AlertKept DEF Stored, WasPaired, Unreported, TypeOK
  <2>4. LimitAccounted'
    BY <2>1, LimitKept DEF Counted, TypeOK
  <2> QED
    BY <2>1, <2>2, <2>3, <2>4 DEF IInv, TokenPart, AlertPart
<1> QED
  BY <1>1, <1>2, <1>3, <1>4, <1>5, <1>6 DEF Next

\* In every reachable state the rows, the calls, the requests and the monitor
\* agree with each other.
THEOREM DeviceInvariant == Spec => []IInv
<1>1. Init => IInv
  BY InitInv
<1>2. IInv /\ [Next]_vars => IInv'
  BY NextInv
<1> QED
  BY <1>1, <1>2, PTL DEF Spec

\* PairHandler: a token is on no device once a secret was stored with it.
THEOREM TokensAreSpent == Spec => []TokenSpent
<1>1. IInv => TokenSpent
  BY DEF IInv
<1> QED
  BY <1>1, DeviceInvariant, PTL

\* Limiter.Check before CreateDevice: what is beyond the limit is owed to an
\* overlap, to a device that came back, or to a count that failed.
THEOREM LimitIsAccounted == Spec => []LimitAccounted
<1>1. IInv => LimitAccounted
  BY DEF IInv
<1> QED
  BY <1>1, DeviceInvariant, PTL

\* AuthMiddleware: however its requests interleave, a device with three
\* strikes is about to be disabled, or a statement has failed.
THEOREM StrikesDisable == Spec => []StruckOut
<1>1. IInv => StruckOut
  BY DEF IInv
<1> QED
  BY <1>1, DeviceInvariant, PTL

\* OfflineMonitor: no more alerts than pairings.
THEOREM AlertsAreAccounted == Spec => []AlertsAccounted
<1>1. IInv => AlertsAccounted
  BY DEF IInv
<1> QED
  BY <1>1, DeviceInvariant, PTL

\* DisableDevice: only a new secret makes a disabled device active again, and
\* only a monitor that had listed it makes it offline.
THEOREM DisablementHolds == Spec => DisabledHolds
<1> DEFINE Held ==
      \A d \in Devices :
        (status[d] = "disabled" /\ status'[d] # "disabled") =>
          \/ status'[d] = "active" /\ secret'[d] # secret[d]
          \/ status'[d] = "offline" /\ d \in listed
<1>1. IInv /\ [Next]_vars => [Held]_vars
  <2> SUFFICES ASSUME IInv, Next, NEW d \in Devices,
                      status[d] = "disabled", status'[d] # "disabled"
               PROVE  \/ status'[d] = "active" /\ secret'[d] # secret[d]
                      \/ status'[d] = "offline" /\ d \in listed
    BY DEF Held
  <2> USE InvParts DEF TypeOK
  <2>1. CASE \E e \in Devices : DeviceStep(e)
    BY <2>1 DEF DeviceStep, CreateDevice, Disable, DisableDevice, Repair, Expire, Silence,
       MonitorFault, rowVars
  <2>2. CASE \E c \in PairCalls : StorePairedDevice(c)
    <3>1. PICK c \in PairCalls : StorePairedDevice(c)
      BY <2>2
    <3>2. d = pairDevice[c] /\ status'[d] = "active" /\ secret'[d] = c
      BY <3>1 DEF StorePairedDevice
    <3>3. secret[d] # c
      BY <3>1, DevicesAssumption DEF StorePairedDevice, SecretsStored, Stored, WasPaired, DevicesAssumption
    <3> QED
      BY <3>2, <3>3
  <2>3. CASE \E e \in Devices : UpdateDeviceStatus(e)
    BY <2>3 DEF UpdateDeviceStatus
  <2>4. CASE \E r \in Requests : StrikeOut(r)
    BY <2>4 DEF StrikeOut, DisableDevice, References
  <2>5. CASE \/ CheckLimit \/ CreateRefused \/ ListStaleDevices
             \/ \E c \in PairCalls : \/ \E e \in Devices : GetDeviceByPairingToken(c, e)
                                     \/ UpdateDeviceMetadata(c) \/ PairFault(c)
    BY <2>5 DEF CheckLimit, CreateRefused, ListStaleDevices, GetDeviceByPairingToken,
       UpdateDeviceMetadata, PairFault, Answer, rowVars
  <2>6. CASE \E r \in Requests :
               \/ \E e \in Talking : \E key \in Keys : GetDevice(r, e, key)
               \/ IncrFailedSigCount(r) \/ ResetFailedSigCount(r) \/ UpdateHeartbeat(r)
               \/ OtherRequest(r) \/ RequestFault(r)
    BY <2>6 DEF GetDevice, IncrFailedSigCount, ResetFailedSigCount, UpdateHeartbeat,
       OtherRequest, RequestFault, rowVars
  <2> QED
    BY <2>1, <2>2, <2>3, <2>4, <2>5, <2>6
       DEF Next, DeviceStep, PairStep, RequestStep, MonitorStep
<1> QED
  BY <1>1, DeviceInvariant, PTL DEF Spec, DisabledHolds, Held
=============================================================================
