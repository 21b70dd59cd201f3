------------------------------ MODULE MCAccounts ------------------------------
(***************************************************************************)
(* Instances of AccountAudit (and so of AccountService) for TLC.  Two      *)
(* accounts are open, two ids are free, enough for two requests to race    *)
(* for one number; the balances are small enough for funds to run out and  *)
(* for the column to overflow.                                             *)
(***************************************************************************)
EXTENDS AccountAudit, TLC

CONSTANTS alice, bob, a1, a2, a3, a4, n1, n2, n3

MCUsers == {alice, bob}
MCAccounts4 == {a1, a2, a3, a4}
Named == {a1, a2, a3}  \* the ids clients name in their requests
MCNumbers == {n1, n2, n3}
MCCurrencies == {"RUB", "USD"}

Symmetry == Permutations(Requests)

MCOpening ==
  a1 :> [owner |-> alice, number |-> n1, currency |-> "RUB", balance |-> 2] @@
  a2 :> [owner |-> bob, number |-> n2, currency |-> "RUB", balance |-> 1] @@
  a3 :> NoRow @@
  a4 :> NoRow

MoneyCalls(ops, amounts) ==
  [op : ops \cap {"deposit", "withdraw"}, user : MCUsers, acct : Named,
   peer : {None}, amount : amounts]
    \cup
  [op : ops \cap {"transfer"}, user : MCUsers, acct : Named,
   peer : Named, amount : amounts]

CreateCalls ==
  [op : {"create"}, user : MCUsers, number : {n2, n3}, currency : MCCurrencies]

(* Every kind of call, valid or not. *)
AllCalls == CreateCalls \cup MoneyCalls({"deposit", "withdraw", "transfer"}, {0, 1, 2})

DepositCalls == {c \in MoneyCalls({"deposit"}, {1}) : c.acct = a1 /\ c.user = alice}
=============================================================================
