---------------------------- MODULE MCConnections ----------------------------
(***************************************************************************)
(* Instances of ConnectionUse for TLC: requests that need twice as many    *)
(* connections as they have.                                               *)
(***************************************************************************)
EXTENDS ConnectionUse, TLC

CONSTANTS alice, a1, a2, a3, n1, n2, n3

Holding(n) == [owner |-> alice, number |-> n, currency |-> "RUB", balance |-> 1]

MCOpening == a1 :> Holding(n1) @@ a2 :> Holding(n2) @@ a3 :> Holding(n3)

MoneyOf(op, from, to, amount) ==
  [op |-> op, user |-> alice, acct |-> from, peer |-> to, amount |-> amount]

TransferCall == MoneyOf("transfer", a1, a2, 1)

(* A transfer, a withdrawal the account cannot cover, a deposit, and the   *)
(* opening of an account under a number that is taken.                     *)
LoadCalls ==
  {TransferCall, MoneyOf("withdraw", a3, None, 2), MoneyOf("deposit", a3, None, 1),
   [op |-> "create", user |-> alice, number |-> n1, currency |-> "RUB"]}

TransferAndDeposit == {TransferCall, MoneyOf("deposit", a3, None, 1)}
=============================================================================
