----------------------------- MODULE Settlement -----------------------------
(***************************************************************************)
(* What the matching engine promises, with nothing of how it does it.      *)
(*                                                                         *)
(* A checkout session is opened, and closed at most once: either it is     *)
(* given up (canceled, expired) or it is settled by exactly one payment    *)
(* SMS.  An SMS settles at most one session, and a settlement is never     *)
(* taken back.  The detailed engine, Matching, is shown to implement this  *)
(* specification.                                                          *)
(***************************************************************************)
CONSTANTS
  Sessions,   \* checkout sessions
  Messages    \* payment SMS forwarded by the merchant's phone

VARIABLES
  phase,      \* phase[s]: "none" (not created), "open" or "closed"
  settled     \* the pairs <<SMS, session>> of the settlements made so far

vars == <<phase, settled>>

TypeOK ==
  /\ phase \in [Sessions -> {"none", "open", "closed"}]
  /\ settled \subseteq Messages \X Sessions

Init ==
  /\ phase = [s \in Sessions |-> "none"]
  /\ settled = {}

Open(s) ==
  /\ phase[s] = "none"
  /\ phase' = [phase EXCEPT ![s] = "open"]
  /\ UNCHANGED settled

GiveUp(s) ==
  /\ phase[s] = "open"
  /\ phase' = [phase EXCEPT ![s] = "closed"]
  /\ UNCHANGED settled

\* m has settled nothing yet, and s is still open.
Settle(m, s) ==
  /\ phase[s] = "open"
  /\ \A t \in Sessions : <<m, t>> \notin settled
  /\ phase' = [phase EXCEPT ![s] = "closed"]
  /\ settled' = settled \cup {<<m, s>>}

Next ==
  \E s \in Sessions :
    \/ Open(s)
    \/ GiveUp(s)
    \/ \E m \in Messages : Settle(m, s)

Spec == Init /\ [][Next]_vars
=============================================================================
