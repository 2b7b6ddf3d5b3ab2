-------------------------- MODULE MCSessionCreation --------------------------
(***************************************************************************)
(* Instances of SessionCreation for TLC.                                   *)
(***************************************************************************)
EXTENDS SessionCreation, TLC

CONSTANTS shop, store, k1, b1, b2

Request(merchant, key, body) == [merchant |-> merchant, key |-> key, body |-> body]

\* One shop asks with the key, for two things, and without; another one uses
\* the same key.
SomeRequests ==
  {Request(shop, k1, b1), Request(shop, k1, b2), Request(shop, None, b1),
   Request(store, k1, b1)}

Symmetry == Permutations(Calls)
=============================================================================
