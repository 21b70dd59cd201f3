------------------------------ MODULE MCForecast ------------------------------
(***************************************************************************)
(* Instances of BalanceForecast for TLC: one or two loans on one account.  *)
(***************************************************************************)
EXTENDS BalanceForecast, TLC

CONSTANTS a1, nil

NilOwner == a1 :> nil

Loan(amount, interest, residue) ==
  [acct |-> a1, amount |-> amount, interest |-> interest, term |-> 2,
   residue |-> residue]

(* Two kopecks and one, so that the payment for the second installment may *)
(* be credited to the first.                                               *)
UnequalLoans == {Loan(3, 0, -1)}

Symmetry == Permutations(CreditIds)
=============================================================================
