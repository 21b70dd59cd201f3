------------------------------ MODULE MCFigures ------------------------------
(***************************************************************************)
(* Instances of IncomeExpense, Amounts and Luhn for TLC: three questions   *)
(* about figures the code computes that do not touch each other.  Each     *)
(* behaviour asks one of them.                                             *)
(*                                                                         *)
(* Reports: deposits, withdrawals and transfers between two accounts of    *)
(* the user; different amounts keep the rows of the writers apart in the   *)
(* totals.  Fractions: every amount that rounds differently.  Cards: every *)
(* number of a few digits.                                                 *)
(***************************************************************************)
EXTENDS Amounts, IncomeExpense, Luhn, TLC

CONSTANTS a1, a2

VARIABLE question

In(a, n) == [acct |-> a, amount |-> n]

MCBookings ==
  {<<In(a1, 2)>>, <<In(a2, -1)>>, <<In(a1, -4), In(a2, 4)>>, <<In(a2, -4), In(a1, 4)>>}

FiguresInit ==
  /\ question \in {"income", "fractions", "card"}
  /\ MonthInit
  /\ Init
  /\ DrawInit
  /\ question # "card" => base = [i \in 1 .. BaseLength |-> 0]

FiguresNext ==
  /\ UNCHANGED question
  /\ \/ question = "income" /\ MonthNext /\ UNCHANGED <<vars, base, number>>
     \/ question = "fractions" /\ Next /\ UNCHANGED <<monthVars, base, number>>
     \/ question = "card" /\ Generate /\ UNCHANGED <<monthVars, vars>>

FiguresSpec ==
  FiguresInit /\ [][FiguresNext]_<<question, vars, monthVars, base, number>>

Symmetry == Permutations(Writers)
=============================================================================
