------------------------------- MODULE LoanBook -------------------------------
(***************************************************************************)
(* What the bank promises of its loans, whoever collects them and however  *)
(* often that fails: a loan is granted with a schedule of installments,    *)
(* which need not be equal; the amount of one unsettled installment is     *)
(* collected at a time and credited to the earliest unsettled one, in a    *)
(* single step that books the money, settles the row if it is enough and   *)
(* cancels its fines; a row that is not settled may be fined; nothing else *)
(* ever happens to a schedule.                                             *)
(***************************************************************************)
EXTENDS Integers, Sequences, FiniteSetsExt

CONSTANTS
  CreditIds,  \* the loans there can be
  MaxFines    \* fines beyond this many on one row are not told apart

VARIABLES
  schedule,   \* the rows of each loan, the earliest first
  collected   \* the money collected for each loan

bookVars == <<schedule, collected>>

Untouched(amount) == [due |-> amount, paid |-> 0, isPaid |-> FALSE, fines |-> 0]

Unsettled(k) == {i \in DOMAIN schedule[k] : ~schedule[k][i].isPaid}

Credited(row, amount) ==
  [row EXCEPT !.paid = @ + amount, !.isPaid = row.paid + amount >= row.due, !.fines = 0]

Init ==
  /\ schedule = [k \in CreditIds |-> <<>>]
  /\ collected = [k \in CreditIds |-> 0]

Grant(k) ==
  /\ schedule[k] = <<>>
  /\ schedule'[k] # <<>>
  /\ \A i \in DOMAIN schedule'[k] : schedule'[k][i].due \in Int
  /\ schedule' = [schedule EXCEPT ![k] =
                    [i \in 1 .. Len(schedule'[k]) |-> Untouched(schedule'[k][i].due)]]
  /\ UNCHANGED collected

Collect(k) ==
  \E i \in Unsettled(k) :
    LET amount == schedule[k][i].due
    IN  /\ amount > 0
        /\ schedule' = [schedule EXCEPT ![k][Min(Unsettled(k))] = Credited(@, amount)]
        /\ collected' = [collected EXCEPT ![k] = @ + amount]

Fine(k) ==
  /\ \E i \in Unsettled(k) :
       schedule' = [schedule EXCEPT ![k][i].fines = Min({@ + 1, MaxFines})]
  /\ UNCHANGED collected

Next == \E k \in CreditIds : Grant(k) \/ Collect(k) \/ Fine(k)

Spec == Init /\ [][Next]_bookVars
=============================================================================
