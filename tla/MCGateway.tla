------------------------------ MODULE MCGateway ------------------------------
(***************************************************************************)
(* Instances of Gateway for TLC: one user with a card, one whose card ids  *)
(* and account are somebody else's, and one id that is free.               *)
(***************************************************************************)
EXTENDS Gateway, TLC

CONSTANTS alice, bob, new, n1, n2, n3, e1, e2, e3, p1, p2, a1, a2, k1, k2, k3, right, wrong

MCRegistered ==
  alice :> [name |-> n1, email |-> e1, password |-> p1] @@
  bob :> [name |-> n2, email |-> e2, password |-> p2] @@
  new :> NoUser

MCOwner == a1 :> alice @@ a2 :> bob

MCOpening ==
  k1 :> [acct |-> a1, cvv |-> right] @@ k2 :> [acct |-> a2, cvv |-> wrong] @@
  k3 :> NoCard

Symmetry == Permutations(Requests)
=============================================================================
