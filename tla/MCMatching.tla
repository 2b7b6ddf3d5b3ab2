----------------------------- MODULE MCMatching -----------------------------
(***************************************************************************)
(* Instances of Matching for TLC: what the SMS say and what the sessions   *)
(* ask for in each run.                                                    *)
(***************************************************************************)
EXTENDS Matching, TLC

CONSTANTS bkash, p1, alice, t1, t2, m1, m2, m3, m4

Sms(profile, trx, amount, balance) ==
  [provider |-> bkash, profile |-> profile, sender |-> alice, trx |-> trx,
   amount |-> amount, balance |-> balance]

\* Every session asks for the same amount on the same profile.
SameOrders == [s \in Sessions |-> [profile |-> p1, amount |-> 5]]

\* Two payments of the right amount; the SMS report no balance.
TwoPayments ==
  (m1 :> Sms(p1, t1, 5, None)) @@ (m2 :> Sms(p1, t2, 5, None))

\* One payment, off by one from what the sessions ask for.
OnePayment == m1 :> Sms(p1, t1, 6, None)

\* The balance grows from 10 to 16, by a payment that is off by one from what the
\* sessions ask for, and then to 21; m3 would grow it to 15 instead.  The first
\* is stored again without a profile, and two rows have no TrxID.
Irregular ==
  (m1 :> Sms(p1, t1, 6, 16)) @@ (m2 :> Sms(None, t1, 6, 16))
    @@ (m3 :> Sms(p1, EmptyTrx, 5, 15)) @@ (m4 :> Sms(p1, EmptyTrx, 5, 21))

\* Two payments that report the balances 15 and 20.
WithBalances ==
  (m1 :> Sms(p1, t1, 5, 15)) @@ (m2 :> Sms(p1, t2, 5, 20))

UnknownBalance == [p \in Profiles |-> None]
OpeningTen == [p \in Profiles |-> 10]
Verified == [p \in Profiles |-> TRUE]
NotVerified == [p \in Profiles |-> FALSE]

Symmetry == Permutations(Sessions)
=============================================================================
