------------------------------ MODULE MCDevices ------------------------------
(***************************************************************************)
(* Instances of Devices for TLC.                                           *)
(***************************************************************************)
EXTENDS Devices, TLC

\* Requests and pairing calls are alike; the run that uses this checks safety.
Alike == Permutations(Requests) \cup Permutations(PairCalls)
=============================================================================
