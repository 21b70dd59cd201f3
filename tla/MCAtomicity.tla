----------------------------- MODULE MCAtomicity -----------------------------
(***************************************************************************)
(* An instance of AccountAtomicity for TLC: three open accounts, so that   *)
(* requests meet on one account and pass each other on two, and a free id. *)
(* The column is small enough to overflow.                                 *)
(***************************************************************************)
EXTENDS AccountAtomicity, TLC

CONSTANTS alice, bob, a1, a2, a3, a4, n1, n2, n3, n4

Holding(user, n, b) == [owner |-> user, number |-> n, currency |-> "RUB", balance |-> b]

MCOpening ==
  a1 :> Holding(alice, n1, 2) @@ a2 :> Holding(bob, n2, 1) @@
  a3 :> Holding(bob, n3, 0) @@ a4 :> NoRow

Owned == {a1, a2, a3}

(* Requests of the owners, of all amounts, and the opening of an account.  *)
MCCalls ==
  [op : {"create"}, user : {alice}, number : {n4}, currency : {"RUB"}]
    \cup
  {c \in [op : {"deposit", "withdraw"}, user : Users, acct : Owned,
          peer : {None}, amount : {1, 2}]
           \cup
         [op : {"transfer"}, user : Users, acct : Owned, peer : Accounts,
          amount : {1, 2}] :
     c.user = MCOpening[c.acct].owner}
=============================================================================
