------------------------------ MODULE MCCredits ------------------------------
(***************************************************************************)
(* Instances of SchedulerService for TLC.                                  *)
(***************************************************************************)
EXTENDS SchedulerService, TLC

CONSTANTS a1, alice, nil

NilOwner == a1 :> nil
AliceOwner == a1 :> alice

Loan(amount, interest, term, residue) ==
  [acct |-> a1, amount |-> amount, interest |-> interest, term |-> term,
   residue |-> residue]

(* Paid off exactly; paid off before the last installment; a remainder of  *)
(* rounding that is never collected; a negative rate; installments that    *)
(* round to nothing; a last installment that is smaller, or larger, than   *)
(* the others.                                                             *)
Even == Loan(2, 0, 2, 0)
Interest == Loan(2, 2, 2, 0)
Remainder == Loan(4, 0, 3, 0)
Negative == Loan(3, -1, 2, 0)
Nothing == Loan(1, 0, 3, 0)
LastSmaller == Loan(3, 0, 2, -1)
LastLarger == Loan(2, 0, 2, 1)

AllLoans ==
  {Even, Interest, Remainder, Negative, Nothing, LastSmaller, LastLarger,
   Loan(0, 0, 1, 0), Loan(1, 0, 0, 0)}

EvenLoans == {Even, Interest}
=============================================================================
