-------------------------------- MODULE MCBank --------------------------------
(***************************************************************************)
(* Instances of Bank for TLC: a loan on an account whose owner, and a      *)
(* second user, move money meanwhile.                                      *)
(***************************************************************************)
EXTENDS Bank, TLC

CONSTANTS nil, bob, a1, a2, n1, n2

MCOpening ==
  a1 :> [owner |-> nil, number |-> n1, currency |-> "RUB", balance |-> 2] @@
  a2 :> [owner |-> bob, number |-> n2, currency |-> "RUB", balance |-> 1]

OneKopeck(op, from, to) ==
  [op |-> op, user |-> MCOpening[from].owner, acct |-> from, peer |-> to, amount |-> 1]

BankCalls ==
  {OneKopeck("deposit", a1, None), OneKopeck("withdraw", a1, None),
   OneKopeck("transfer", a1, a2), OneKopeck("transfer", a2, a1)}

(* Two installments of a kopeck. *)
TwoInstallments ==
  {[acct |-> a1, amount |-> 2, interest |-> 0, term |-> 2, residue |-> 0]}

Symmetry == Permutations(Requests)
=============================================================================
