----------------------------- MODULE MCOnboarding -----------------------------
(***************************************************************************)
(* Instance of Onboarding for TLC: two merchants want the same number, and *)
(* one of them a second one with another type of account.                  *)
(***************************************************************************)
EXTENDS Onboarding

CONSTANTS m1, m2, n1, n2, bkash, personal, agent

MCMerchants == {m1, m2}

MCRequests ==
  {[merchant |-> m1, number |-> n1, provider |-> bkash, type |-> personal],
   [merchant |-> m2, number |-> n1, provider |-> bkash, type |-> personal],
   [merchant |-> m1, number |-> n2, provider |-> bkash, type |-> agent]}
=============================================================================
