----------------------------- MODULE MCWebhooks -----------------------------
(***************************************************************************)
(* Instances of Webhooks for TLC.                                          *)
(***************************************************************************)
EXTENDS Webhooks

\* The schedule of the code has five growing delays; two already tell a
\* retry that waits too little from one that does not.
TwoDelays == <<1, 2>>
=============================================================================
