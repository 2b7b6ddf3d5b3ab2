------------------------------- MODULE Commits -------------------------------
(***************************************************************************)
(* What the database shows of Engine.Process, with nothing of how it is    *)
(* done: the committed rows change by the whole outcome of one call at a   *)
(* time, and its choice of sessions is right for the rows committed by     *)
(* then.  Two things an outcome may have missed: a session it pays for or  *)
(* flags may have been closed since the call found it pending, and the     *)
(* tracked balance may have moved since the call compared it.              *)
(*                                                                         *)
(* The detailed engine, MatchingTx, is shown to implement this             *)
(* specification.                                                          *)
(***************************************************************************)
EXTENDS Naturals

CONSTANTS
  Messages,  \* payment SMS
  Sessions,  \* checkout sessions, in the order of their creation
  TrxIds,
  None,
  Trx,       \* Trx[m]: transaction id of SMS m
  Balance,   \* Balance[m]: the balance it reports, or None
  Fits,      \* Fits[m]: sessions with m's profile, amount and sender
  Claimed,   \* Claimed[s]: the transaction id s claims, or None
  Opening    \* tracked balance of the profile

VARIABLES
  sms,      \* what became of each SMS
  session,  \* status and review flag of each session
  payment,  \* payment[<<s, x>>]: the SMS that paid x for s, or None
  balance   \* tracked balance

vars == <<sms, session, payment, balance>>

Init ==
  /\ sms = [m \in Messages |-> [parse |-> "pending", match |-> "unmatched", matched |-> None]]
  /\ session = [s \in Sessions |-> [status |-> "pending", review |-> FALSE]]
  /\ payment = [p \in Sessions \X TrxIds |-> None]
  /\ balance = Opening

Parsed(m) == sms[m].parse = "parsed"

TwinParsed(m) == \E o \in Messages \ {m} : Trx[o] = Trx[m] /\ Parsed(o)

\* The sessions m may pay for: those that claim its TrxID, else those that
\* claim none.
Claimants(m) ==
  {s \in Fits[m] : session[s].status = "pending" /\ Claimed[s] = Trx[m]}

Unclaimed(m) ==
  {s \in Fits[m] : session[s].status = "pending" /\ Claimed[s] = None}

\* m is parsed, and is the only SMS of its TrxID that is.
Conclude(m, match, s) ==
  /\ ~TwinParsed(m)
  /\ sms' = [sms EXCEPT ![m] = [parse |-> "parsed", match |-> match, matched |-> s]]

Book(m) == balance' = IF Balance[m] = None THEN balance ELSE Balance[m]

\* No older session that is still open claims m's TrxID, or s is the only one
\* m may pay for.
Preferred(m, s) ==
  /\ s \in Fits[m]
  /\ \/ Claimed[s] = Trx[m] /\ \A t \in Claimants(m) : s <= t
     \/ Claimed[s] = None /\ Claimants(m) = {} /\ Unclaimed(m) \subseteq {s}

\* The payment, the session and the SMS change together.  A payment that is
\* there already is m's own.
Settle(m, s) ==
  /\ Preferred(m, s)
  /\ Conclude(m, "matched", s)
  /\ session' = [session EXCEPT ![s] = [status |-> "succeeded", review |-> FALSE]]
  /\ payment[<<s, Trx[m]>>] \in {None, m}
  /\ payment' = [payment EXCEPT ![<<s, Trx[m]>>] = m]
  /\ Book(m)

\* Several sessions fit: all of them are flagged, and keep their status.
Hold(m, S) ==
  /\ S \subseteq {s \in Fits[m] : Claimed[s] = None}
  /\ \E s, t \in S : s # t
  /\ Claimants(m) = {} /\ Unclaimed(m) \subseteq S
  /\ Conclude(m, "held", None)
  /\ session' = [s \in Sessions |->
                   IF s \in S THEN [session[s] EXCEPT !.review = TRUE] ELSE session[s]]
  /\ Book(m)
  /\ UNCHANGED payment

Leave(m) ==
  /\ Claimants(m) = {} /\ Unclaimed(m) = {}
  /\ Conclude(m, "unmatched", None)
  /\ Book(m)
  /\ UNCHANGED <<session, payment>>

Suspect(m) ==
  /\ Balance[m] # None
  /\ Conclude(m, "suspect", None)
  /\ UNCHANGED <<session, payment, balance>>

Duplicate(m) ==
  /\ TwinParsed(m)
  /\ sms' = [sms EXCEPT ![m].match = "duplicate", ![m].matched = None]
  /\ UNCHANGED <<session, payment, balance>>

GiveUp(s) ==
  /\ session' = [session EXCEPT ![s].status = "canceled"]
  /\ UNCHANGED <<sms, payment, balance>>

Next ==
  \/ \E m \in Messages :
       \/ \E s \in Sessions : Settle(m, s)
       \/ \E S \in SUBSET Sessions : Hold(m, S)
       \/ Leave(m)
       \/ Suspect(m)
       \/ Duplicate(m)
  \/ \E s \in Sessions : GiveUp(s)

Spec == Init /\ [][Next]_vars
=============================================================================
