------------------------------- MODULE Devices -------------------------------
(***************************************************************************)
(* The devices of one merchant: how they are created, paired, disabled and *)
(* repaired (apps/backend/internal/devices and                             *)
(* internal/api/merchant/devices), how their requests are authenticated    *)
(* and strike out, and the monitor that declares silent ones offline.      *)
(*                                                                         *)
(* Every handler is a sequence of autocommitted statements, so a step here *)
(* is a statement together with what the handler decides from its result,  *)
(* and each write is by id alone: whatever was read may have changed.      *)
(*                                                                         *)
(* A pairing call is named once and for all, and the secret it generates   *)
(* is named after it.  Tokens are numbered in the order they are issued.   *)
(***************************************************************************)
EXTENDS Integers, FiniteSets

CONSTANTS
  Devices,        \* ids of devices
  PairCalls,      \* calls of POST /v1/device/pair, and their secrets
  Talking,        \* devices whose phones send anything after they are paired
  Requests,       \* signed requests that can be in flight at a time
  None,           \* SQL NULL
  Limit,          \* devices of the plan; 0 is unlimited
  StrikeLimit,    \* the three failures of handlers.go:93
  MaxTokens,      \* bound: pairing tokens issued
  MaxOverlaps,    \* bound: limit checks passed while another Create goes on
  MaxFaults       \* bound: statements that fail, and stops of the server

ASSUME DevicesAssumption ==
  /\ Talking \subseteq Devices
  /\ Limit \in Nat
  /\ StrikeLimit \in Nat \ {0}
  /\ MaxTokens \in Nat
  /\ MaxOverlaps \in Nat
  /\ MaxFaults \in Nat
  /\ None \notin PairCalls
  /\ None \notin Devices
  /\ IsFiniteSet(Devices)
  /\ IsFiniteSet(PairCalls)

VARIABLES
  status,      \* devices.status, "none" before the row exists
  secret,      \* the encrypted secret
  strikes,     \* failed_sig_count
  token,       \* pairing_token, 0 for NULL and for one that has expired
  beat,        \* last_heartbeat_at: "never", "fresh" or "stale" (3 minutes)
  issued,      \* tokens issued so far
  creating,    \* calls of Create that have passed the limit check
  pair,        \* stage of each pairing call
  pairDevice,  \* the device its token was found on
  pairToken,
  req,         \* stage of each signed request
  reqDevice,
  listed,      \* devices the monitor has listed and not yet written
  faults,
  overlaps,    \* history: limit checks passed while another Create went on
  revived,     \* history: disabled devices that came back
  alerts       \* history: messages "device offline", by device

rowVars  == <<status, secret, strikes, token, beat>>
pairVars == <<pair, pairDevice, pairToken>>
reqVars  == <<req, reqDevice>>
planVars == <<creating, overlaps, revived>>
vars == <<rowVars, issued, planVars, pairVars, reqVars, listed, faults, alerts>>

TypeOK ==
  /\ status \in [Devices -> {"none", "pending", "active", "offline", "disabled"}]
  /\ secret \in [Devices -> PairCalls \cup {None}]
  /\ strikes \in [Devices -> Nat]
  /\ token \in [Devices -> 0 .. MaxTokens]
  /\ beat \in [Devices -> {"never", "fresh", "stale"}]
  /\ issued \in 0 .. MaxTokens
  /\ creating \in Nat
  /\ pair \in [PairCalls -> {"idle", "store", "metadata", "paired", "refused", "lost"}]
  /\ pairDevice \in [PairCalls -> Devices \cup {None}]
  /\ pairToken \in [PairCalls -> 0 .. MaxTokens]
  /\ req \in [Requests -> {"idle", "strike", "disable", "reset", "handle"}]
  /\ reqDevice \in [Requests -> Devices \cup {None}]
  /\ listed \subseteq Devices
  /\ faults \in 0 .. MaxFaults
  /\ overlaps \in 0 .. MaxOverlaps
  /\ revived \in Nat
  /\ alerts \in [Devices -> Nat]

Init ==
  /\ status = [d \in Devices |-> "none"]
  /\ secret = [d \in Devices |-> None]
  /\ strikes = [d \in Devices |-> 0]
  /\ token = [d \in Devices |-> 0]
  /\ beat = [d \in Devices |-> "never"]
  /\ issued = 0
  /\ creating = 0
  /\ pair = [c \in PairCalls |-> "idle"]
  /\ pairDevice = [c \in PairCalls |-> None]
  /\ pairToken = [c \in PairCalls |-> 0]
  /\ req = [r \in Requests |-> "idle"]
  /\ reqDevice = [r \in Requests |-> None]
  /\ listed = {}
  /\ faults = 0
  /\ overlaps = 0
  /\ revived = 0
  /\ alerts = [d \in Devices |-> 0]

Fault == faults < MaxFaults /\ faults' = faults + 1

-----------------------------------------------------------------------------
(* The merchant: Create, Disable, Repair.                                  *)

\* What the plan counts: every device that is not disabled.
Counted == {d \in Devices : status[d] \notin {"none", "disabled"}}

\* Mutant of Reached: the plan is one device larger.
ReachedLater == Limit # 0 /\ Cardinality(Counted) > Limit

Reached == Limit # 0 /\ Cardinality(Counted) >= Limit

\* Bound: a call of Create goes on only while an id is left for its device.
IdLeft == creating < Cardinality({d \in Devices : status[d] = "none"})

\* Limiter.Check, which lets the call pass if the count cannot be read.
CheckLimit ==
  /\ IdLeft
  /\ creating = 0 \/ overlaps < MaxOverlaps
  /\ \/ ~Reached /\ UNCHANGED faults
     \/ Fault
  /\ creating' = creating + 1
  /\ overlaps' = IF creating > 0 THEN overlaps + 1 ELSE overlaps
  /\ UNCHANGED <<rowVars, issued, revived, pairVars, reqVars, listed, alerts>>

\* A new token, which lives for fifteen minutes.
Issue(d) ==
  /\ issued < MaxTokens
  /\ issued' = issued + 1
  /\ token' = [token EXCEPT ![d] = issued + 1]

CreateDevice(d) ==
  /\ creating > 0
  /\ status[d] = "none"
  /\ creating' = creating - 1
  /\ status' = [status EXCEPT ![d] = "pending"]
  /\ Issue(d)
  /\ UNCHANGED <<secret, strikes, beat, overlaps, revived, pairVars, reqVars,
                 listed, faults, alerts>>

\* Create ends with a refused body or a failed statement.
CreateRefused ==
  /\ creating > 0
  /\ creating' = creating - 1
  /\ UNCHANGED <<rowVars, issued, overlaps, revived, pairVars, reqVars, listed,
                 faults, alerts>>

\* DisableDevice: whatever the device is, its token and secret stay.
DisableDevice(d) ==
  /\ status' = [status EXCEPT ![d] = "disabled"]
  /\ strikes' = [strikes EXCEPT ![d] = 0]
  /\ UNCHANGED <<secret, token, beat>>

Disable(d) ==
  /\ status[d] # "none"
  /\ DisableDevice(d)
  /\ UNCHANGED <<issued, planVars, pairVars, reqVars, listed, faults, alerts>>

\* RegeneratePairingToken: a new token, and nothing else.
Repair(d) ==
  /\ status[d] # "none"
  /\ Issue(d)
  /\ UNCHANGED <<status, secret, strikes, beat, planVars, pairVars, reqVars,
                 listed, faults, alerts>>

-----------------------------------------------------------------------------
(* Pairing.                                                                *)

\* The calls that have stored their secret.
Stored == {c \in PairCalls : pair[c] \in {"metadata", "paired", "lost"}}

\* GetDeviceByPairingToken: the device that has the token, not expired.
GetDeviceByPairingToken(c, d) ==
  /\ pair[c] = "idle"
  /\ token[d] # 0
  /\ pair' = [pair EXCEPT ![c] = "store"]
  /\ pairDevice' = [pairDevice EXCEPT ![c] = d]
  /\ pairToken' = [pairToken EXCEPT ![c] = token[d]]
  /\ UNCHANGED <<rowVars, issued, planVars, reqVars, listed, faults, alerts>>

Back(d) == IF status[d] = "disabled" THEN revived + 1 ELSE revived

\* Mutant of StorePairedDevice: the token is left to expire by itself.
StoreKeepingToken(c) ==
  LET d == pairDevice[c] IN
  /\ pair[c] = "store"
  /\ secret' = [secret EXCEPT ![d] = c]
  /\ status' = [status EXCEPT ![d] = "active"]
  /\ strikes' = [strikes EXCEPT ![d] = 0]
  /\ revived' = Back(d)
  /\ pair' = [pair EXCEPT ![c] = "metadata"]
  /\ UNCHANGED <<token, beat, issued, creating, overlaps, pairDevice,
                 pairToken, reqVars, listed, faults, alerts>>

\* StorePairedDevice, by id: the device is active with the new secret, and
\* whatever token it has by now is gone.
StorePairedDevice(c) ==
  LET d == pairDevice[c] IN
  /\ pair[c] = "store"
  /\ secret' = [secret EXCEPT ![d] = c]
  /\ token' = [token EXCEPT ![d] = 0]
  /\ status' = [status EXCEPT ![d] = "active"]
  /\ strikes' = [strikes EXCEPT ![d] = 0]
  /\ revived' = Back(d)
  /\ pair' = [pair EXCEPT ![c] = "metadata"]
  /\ UNCHANGED <<beat, issued, creating, overlaps, pairDevice, pairToken,
                 reqVars, listed, faults, alerts>>

Answer(c, stage) ==
  /\ pair' = [pair EXCEPT ![c] = stage]
  /\ UNCHANGED <<rowVars, issued, planVars, pairDevice, pairToken, reqVars,
                 listed, alerts>>

\* UpdateDeviceMetadata, and the answer that shows the secret to the phone.
UpdateDeviceMetadata(c) ==
  /\ pair[c] = "metadata"
  /\ Answer(c, "paired")
  /\ UNCHANGED faults

\* A statement of the call fails: the phone learns no secret.
PairFault(c) ==
  /\ Fault
  /\ \/ pair[c] = "store" /\ Answer(c, "refused")
     \/ pair[c] = "metadata" /\ Answer(c, "lost")

\* Fifteen minutes have passed: the token is not found any more.
Expire(d) ==
  /\ token[d] # 0
  /\ token' = [token EXCEPT ![d] = 0]
  /\ UNCHANGED <<status, secret, strikes, beat, issued, planVars, pairVars,
                 reqVars, listed, faults, alerts>>

-----------------------------------------------------------------------------
(* Signed requests: the middleware, then the heartbeat or SMS handler.     *)

Goto(r, stage) ==
  /\ req' = [req EXCEPT ![r] = stage]
  /\ reqDevice' = IF stage = "idle" THEN [reqDevice EXCEPT ![r] = None] ELSE reqDevice

\* GetDevice, and the comparison of the signature with what was read.  A
\* device that is disabled or was never paired is refused; key is the secret
\* the phone signs with, None for a signature that is no good, or too old.
GetDevice(r, d, key) ==
  /\ req[r] = "idle"
  /\ status[d] \notin {"none", "disabled"}
  /\ secret[d] # None
  /\ req' = [req EXCEPT ![r] = IF key = secret[d] THEN "reset" ELSE "strike"]
  /\ reqDevice' = [reqDevice EXCEPT ![r] = d]
  /\ UNCHANGED <<rowVars, issued, planVars, pairVars, listed, faults, alerts>>

\* The secrets phones can sign with: those they were shown.
Keys == {c \in PairCalls : pair[c] = "paired"} \cup {None}

\* Mutant of IncrFailedSigCount: the count before the increment decides.
IncrAfterRead(r) ==
  LET d == reqDevice[r] IN
  /\ req[r] = "strike"
  /\ strikes' = [strikes EXCEPT ![d] = @ + 1]
  /\ Goto(r, IF strikes[d] >= StrikeLimit THEN "disable" ELSE "idle")
  /\ UNCHANGED <<status, secret, token, beat, issued, planVars, pairVars,
                 listed, faults, alerts>>

\* IncrFailedSigCount returns the count it has written.
IncrFailedSigCount(r) ==
  LET d == reqDevice[r] IN
  /\ req[r] = "strike"
  /\ strikes' = [strikes EXCEPT ![d] = @ + 1]
  /\ Goto(r, IF strikes'[d] >= StrikeLimit THEN "disable" ELSE "idle")
  /\ UNCHANGED <<status, secret, token, beat, issued, planVars, pairVars,
                 listed, faults, alerts>>

\* The third strike, whatever has become of the device since it was counted.
StrikeOut(r) ==
  /\ req[r] = "disable"
  /\ DisableDevice(reqDevice[r])
  /\ Goto(r, "idle")
  /\ UNCHANGED <<issued, planVars, pairVars, listed, faults, alerts>>

ResetFailedSigCount(r) ==
  /\ req[r] = "reset"
  /\ strikes' = [strikes EXCEPT ![reqDevice[r]] = 0]
  /\ Goto(r, "handle")
  /\ UNCHANGED <<status, secret, token, beat, issued, planVars, pairVars,
                 listed, faults, alerts>>

\* Mutant of UpdateHeartbeat: a heartbeat sets the device active again.
HeartbeatActivates(r) ==
  LET d == reqDevice[r] IN
  /\ req[r] = "handle"
  /\ beat' = [beat EXCEPT ![d] = "fresh"]
  /\ status' = [status EXCEPT ![d] = "active"]
  /\ revived' = Back(d)
  /\ Goto(r, "idle")
  /\ UNCHANGED <<secret, strikes, token, issued, creating, overlaps,
                 pairVars, listed, faults, alerts>>

\* UpdateHeartbeat does not look at the status, nor change it.
UpdateHeartbeat(r) ==
  /\ req[r] = "handle"
  /\ beat' = [beat EXCEPT ![reqDevice[r]] = "fresh"]
  /\ Goto(r, "idle")
  /\ UNCHANGED <<status, secret, strikes, token, issued, planVars, pairVars,
                 listed, faults, alerts>>

\* The rate limit refuses the request, or it is another one than a heartbeat.
OtherRequest(r) ==
  /\ req[r] = "handle"
  /\ Goto(r, "idle")
  /\ UNCHANGED <<rowVars, issued, planVars, pairVars, listed, faults, alerts>>

\* A statement fails, or the server stops: a count or a reset that fails is
\* only logged, and the request goes on.
RequestFault(r) ==
  /\ Fault
  /\ \/ req[r] \in {"strike", "disable", "handle"} /\ Goto(r, "idle")
     \/ req[r] = "reset" /\ Goto(r, "handle")
  /\ UNCHANGED <<rowVars, issued, planVars, pairVars, listed, alerts>>

RequestStep(r) ==
  \/ \E d \in Talking : \E key \in Keys : GetDevice(r, d, key)
  \/ IncrFailedSigCount(r)
  \/ StrikeOut(r)
  \/ ResetFailedSigCount(r)
  \/ UpdateHeartbeat(r)
  \/ OtherRequest(r)
  \/ RequestFault(r)

-----------------------------------------------------------------------------
(* The monitor and the clock.                                              *)

\* Mutant of Stale: a device that never sent a heartbeat is stale, too, and
\* the status is forgotten.
StaleOfAnyStatus == {d \in Devices : status[d] # "none" /\ beat[d] = "stale"}

\* Mutant of Stale: a device that was reported before is skipped.
StaleOnce ==
  {d \in Devices : status[d] = "active" /\ beat[d] = "stale" /\ alerts[d] = 0}

\* Active devices whose last heartbeat is too old; one that has never sent a
\* heartbeat is not among them, NULL < now() being unknown.
Stale == {d \in Devices : status[d] = "active" /\ beat[d] = "stale"}

ListStaleDevices ==
  /\ listed = {}
  /\ Stale # {}
  /\ listed' = Stale
  /\ UNCHANGED <<rowVars, issued, planVars, pairVars, reqVars, faults, alerts>>

\* UpdateDeviceStatus by id, whatever the device has become, and the alert.
UpdateDeviceStatus(d) ==
  /\ d \in listed
  /\ listed' = listed \ {d}
  /\ status' = [status EXCEPT ![d] = "offline"]
  /\ revived' = Back(d)
  /\ alerts' = [alerts EXCEPT ![d] = @ + 1]
  /\ UNCHANGED <<secret, strikes, token, beat, issued, creating, overlaps,
                 pairVars, reqVars, faults>>

\* The update fails and the loop goes on.
MonitorFault(d) ==
  /\ d \in listed
  /\ Fault
  /\ listed' = listed \ {d}
  /\ UNCHANGED <<rowVars, issued, planVars, pairVars, reqVars, alerts>>

MonitorStep == ListStaleDevices \/ \E d \in Devices : UpdateDeviceStatus(d)

\* Three minutes without a heartbeat.
Silence(d) ==
  /\ beat[d] = "fresh"
  /\ beat' = [beat EXCEPT ![d] = "stale"]
  /\ UNCHANGED <<status, secret, strikes, token, issued, planVars, pairVars,
                 reqVars, listed, faults, alerts>>

DeviceStep(d) ==
  \/ CreateDevice(d)
  \/ Disable(d)
  \/ Repair(d)
  \/ Expire(d)
  \/ Silence(d)
  \/ MonitorFault(d)

PairStep(c) ==
  \/ \E d \in Devices : GetDeviceByPairingToken(c, d)
  \/ StorePairedDevice(c)
  \/ UpdateDeviceMetadata(c)
  \/ PairFault(c)

Next ==
  \/ CheckLimit
  \/ CreateRefused
  \/ \E d \in Devices : DeviceStep(d)
  \/ \E c \in PairCalls : PairStep(c)
  \/ \E r \in Requests : RequestStep(r)
  \/ MonitorStep

Spec == Init /\ [][Next]_vars

\* The monitor looks again every minute.
Fairness == WF_vars(MonitorStep)

FairSpec == Spec /\ Fairness

-----------------------------------------------------------------------------
(* Properties.                                                             *)

\* A token is used once: from the moment a call has stored its secret, no
\* device has the token it came with, whatever failed, was repaired or
\* disabled in between.  Only calls that overlap can both be answered.
TokenSpent ==
  \A c \in Stored, d \in Devices : token[d] # 0 => token[d] # pairToken[c]

\* The devices of a plan: more than the limit are counted only if checks
\* overlapped, could not be made, or devices that were disabled came back,
\* by pairing with a token they had kept or by the monitor's late write.
LimitAccounted ==
  Limit # 0 =>
    Cardinality(Counted) + creating <= Limit + overlaps + revived + faults

\* A device with three strikes is on its way to be disabled, however many
\* requests count, reset and disable at once, unless a statement failed.
StruckOut ==
  \A d \in Devices :
    strikes[d] >= StrikeLimit =>
      faults > 0 \/ \E r \in Requests : req[r] = "disable" /\ reqDevice[r] = d

\* The operator hears of a silent device at most once per pairing: nothing
\* but a pairing sets it active again, heartbeats do not, so that it is not
\* listed, and not reported, a second time.
Pairings(d) == {c \in Stored : pairDevice[c] = d}

AlertsAccounted == \A d \in Devices : alerts[d] <= Cardinality(Pairings(d))

\* The inductive invariant.  What is read points at a device that exists:
References ==
  /\ \A d \in Devices : status[d] = "none" =>
       token[d] = 0 /\ secret[d] = None /\ d \notin listed
  /\ \A c \in PairCalls : pair[c] # "idle" =>
       pairDevice[c] \in Devices /\ status[pairDevice[c]] # "none"
  /\ \A r \in Requests : req[r] # "idle" =>
       /\ reqDevice[r] \in Devices
       /\ status[reqDevice[r]] # "none"
       /\ secret[reqDevice[r]] # None

\* a token belongs to one device, and was read from it if it was read:
TokensUnique ==
  /\ \A d \in Devices : token[d] <= issued
  /\ \A c \in PairCalls : pairToken[c] <= issued
  /\ \A d, e \in Devices : token[d] = token[e] /\ token[d] # 0 => d = e
  /\ \A c \in PairCalls, d \in Devices :
       token[d] # 0 /\ token[d] = pairToken[c] => d = pairDevice[c]

\* a device works with a secret that was stored for it:
WasPaired(d) ==
  status[d] \in {"active", "offline"} \/ beat[d] # "never" \/ d \in listed

SecretsStored ==
  \A d \in Devices :
    /\ secret[d] # None => secret[d] \in Stored /\ pairDevice[secret[d]] = d
    /\ WasPaired(d) => secret[d] # None

\* and a device that is active, or listed since, was not reported since it was
\* paired.
Unreported(d) == d \in listed \/ status[d] = "active"

AlertsEarned ==
  \A d \in Devices : Unreported(d) => alerts[d] < Cardinality(Pairings(d))

\* Inductive, and it implies the five properties above.
IInv ==
  /\ TypeOK
  /\ References
  /\ TokensUnique
  /\ TokenSpent
  /\ SecretsStored
  /\ LimitAccounted
  /\ StruckOut
  /\ AlertsAccounted
  /\ AlertsEarned

\* What is promised of a disabled device: only a pairing makes it active
\* again, and only a monitor that had listed it before makes it offline,
\* after which its requests pass again.
DisabledHolds ==
  [][\A d \in Devices :
       (status[d] = "disabled" /\ status'[d] # "disabled") =>
         \/ status'[d] = "active" /\ secret'[d] # secret[d]
         \/ status'[d] = "offline" /\ d \in listed]_vars

\* A phone that has sent a heartbeat and falls silent does not stay active.
SilentGoesOffline ==
  \A d \in Devices :
    (status[d] = "active" /\ beat[d] = "stale")
      ~> (status[d] # "active" \/ beat[d] # "stale")
=============================================================================
